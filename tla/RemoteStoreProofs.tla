------------------------- MODULE RemoteStoreProofs --------------------------
(***************************************************************************)
(* RemoteStore under every interleaving of its actions, for every set of   *)
(* targets and users and every bound on the events. First what the         *)
(* operators of the connection preserve: the operations of a stream, for   *)
(* every length of the backoff ladder; the online state tracker and the    *)
(* watch half, for every set of targets; and the write half, for every     *)
(* mutation queue and every size of the pipeline. Each of these lemmas     *)
(* states what an operation needs and what it returns, so that the proofs  *)
(* about the actions need not look into the operations again.              *)
(*                                                                         *)
(* Then the actions. The watch half: the inductive invariant Inv and the   *)
(* properties it implies. The write half: its assertions, that every       *)
(* queued write is on its way, what resolves a batch, the callbacks, and   *)
(* the refinement of WriteLog; WriteInv is its inductive invariant.        *)
(***************************************************************************)
EXTENDS RemoteStore, SequenceTheorems, TLAPS

-----------------------------------------------------------------------------
(* The stream *)

\* No assertion of the stream has failed, its timers and its gRPC call belong to
\* its state, and a credential request made under the current close count is
\* outstanding only while the stream is starting.
StreamInv(s) ==
  /\ s.ok
  /\ s.waiting <=> s.state = "Backoff"
  /\ s.grpc <=> IsOpen(s)
  /\ s.idle => IsOpen(s)
  /\ \A n \in s.auth : n <= s.closes
  /\ s.closes \in s.auth => s.state = "Starting"

GoodStream(s) == s \in StreamRecord /\ StreamInv(s)

\* A stream as the constructor leaves it is good and not started.
LEMMA NewStreamGood == GoodStream(NewStream) /\ ~IsStarted(NewStream)
BY MaxDelayAssumption
   DEF GoodStream, StreamInv, NewStream, StreamRecord, StreamStates, IsOpen, IsStarted

-----------------------------------------------------------------------------
(* Starting *)

\* Stream::RequestCredentials (stream.cc, Start) keeps the type.
LEMMA RequestCredentialsType ==
  ASSUME NEW s \in StreamRecord PROVE RequestCredentials(s) \in StreamRecord
BY DEF RequestCredentials, StreamRecord, StreamStates

\* BackoffAndTryRestarting keeps the type; it runs after an error only.
LEMMA BackoffType ==
  ASSUME NEW s \in StreamRecord
  PROVE  BackoffAndTryRestarting(s) \in StreamRecord
<1>1. (s.ok /\ s.state = "Error") \in BOOLEAN
  OBVIOUS
<1>2. (IF s.delay < MaxDelay THEN s.delay + 1 ELSE s.delay) \in 0..MaxDelay
  BY MaxDelayAssumption DEF StreamRecord
<1> QED
  BY <1>1, <1>2 DEF BackoffAndTryRestarting, StreamRecord, StreamStates

\* A stream is started from rest, after an error by way of the backoff.
LEMMA StartStreamGood ==
  ASSUME NEW s, GoodStream(s), ~IsStarted(s)
  PROVE  /\ GoodStream(StartStream(s))
         /\ IsStarted(StartStream(s)) /\ ~IsOpen(StartStream(s))
         /\ ~StartStream(s).idle
<1> USE DEF GoodStream
<1>1. CASE s.state = "Error"
  <2>1. StartStream(s) = BackoffAndTryRestarting(s)
    BY <1>1 DEF StartStream
  <2>2. BackoffAndTryRestarting(s) \in StreamRecord
    BY BackoffType
  <2>3. /\ StreamInv(BackoffAndTryRestarting(s))
        /\ IsStarted(BackoffAndTryRestarting(s))
        /\ ~IsOpen(BackoffAndTryRestarting(s))
        /\ ~BackoffAndTryRestarting(s).idle
    BY <1>1 DEF StreamInv, BackoffAndTryRestarting, StreamRecord, IsOpen, IsStarted
  <2> QED
    BY <2>1, <2>2, <2>3
<1>2. CASE s.state # "Error"
  <2> DEFINE t == [s EXCEPT !.state = "Starting", !.ok = @ /\ s.state = "Initial"]
  <2>1. s.state = "Initial"
    BY <1>2 DEF IsStarted, IsOpen, StreamRecord, StreamStates
  <2>2. t \in StreamRecord
    BY DEF StreamRecord, StreamStates
  <2>3. /\ t.ok /\ t.state = "Starting" /\ ~t.waiting /\ ~t.grpc /\ ~t.idle
        /\ t.auth = s.auth /\ t.closes = s.closes
    BY <2>1 DEF StreamInv, StreamRecord, IsOpen
  <2>4. StartStream(s) = RequestCredentials(t)
    BY <1>2 DEF StartStream
  <2> HIDE DEF t
  <2>5. RequestCredentials(t) \in StreamRecord
    BY <2>2, RequestCredentialsType
  <2>6. /\ StreamInv(RequestCredentials(t))
        /\ IsStarted(RequestCredentials(t)) /\ ~IsOpen(RequestCredentials(t))
        /\ ~RequestCredentials(t).idle
    BY <2>2, <2>3
       DEF StreamInv, RequestCredentials, StreamRecord, IsOpen, IsStarted
  <2> QED
    BY <2>4, <2>5, <2>6
<1> QED
  BY <1>1, <1>2

\* The backoff timer only runs in state Backoff, and leads to a started stream.
LEMMA BackoffElapsedGood ==
  ASSUME NEW s, GoodStream(s), s.waiting
  PROVE  /\ GoodStream(BackoffElapsed(s))
         /\ IsStarted(BackoffElapsed(s)) /\ ~IsOpen(BackoffElapsed(s))
         /\ ~BackoffElapsed(s).idle
<1> DEFINE i == [s EXCEPT !.state = "Initial", !.waiting = FALSE]
           r == StartStream(i)
<1>1. i \in StreamRecord
  BY DEF GoodStream, StreamRecord, StreamStates
<1>2. StreamInv(i) /\ ~IsStarted(i)
  BY DEF GoodStream, StreamInv, StreamRecord, IsOpen, IsStarted
<1>3. s.state = "Backoff"
  BY DEF GoodStream, StreamInv
<1>4. BackoffElapsed(s) = [r EXCEPT !.ok = @ /\ s.state = "Backoff" /\ IsStarted(r)]
  BY DEF BackoffElapsed
<1> HIDE DEF i
<1>5. GoodStream(r) /\ IsStarted(r) /\ ~IsOpen(r) /\ ~r.idle
  BY <1>1, <1>2, StartStreamGood DEF GoodStream
<1> HIDE DEF r
<1>6. BackoffElapsed(s) = r
  BY <1>3, <1>4, <1>5 DEF GoodStream, StreamInv, StreamRecord
<1> QED
  BY <1>5, <1>6

\* The credentials of the current attempt open the stream.
LEMMA ResumeGood ==
  ASSUME NEW s, GoodStream(s), s.closes \in s.auth
  PROVE  LET t == ResumeStartWithCredentials([s EXCEPT !.auth = @ \ {s.closes}])
         IN  GoodStream(t) /\ IsOpen(t) /\ IsStarted(t) /\ ~t.idle
<1> DEFINE a == [s EXCEPT !.auth = @ \ {s.closes}]
<1>1. a \in StreamRecord
  BY DEF GoodStream, StreamRecord
<1>2. /\ a.ok /\ a.state = "Starting" /\ ~a.idle /\ ~a.waiting
      /\ a.closes = s.closes /\ a.closes \notin a.auth
      /\ \A n \in a.auth : n <= a.closes
  BY DEF GoodStream, StreamInv, StreamRecord, IsOpen
<1> HIDE DEF a
<1>3. ResumeStartWithCredentials(a) \in StreamRecord
  BY <1>1 DEF ResumeStartWithCredentials, StreamRecord, StreamStates
<1>4. /\ StreamInv(ResumeStartWithCredentials(a))
      /\ IsOpen(ResumeStartWithCredentials(a))
      /\ ~ResumeStartWithCredentials(a).idle
  BY <1>1, <1>2 DEF ResumeStartWithCredentials, StreamInv, StreamRecord, IsOpen
<1> QED
  BY <1>3, <1>4 DEF GoodStream, IsStarted, a

\* A stale or failed answer only leaves the set of outstanding requests.
LEMMA ForgetGood ==
  ASSUME NEW s, GoodStream(s), NEW n
  PROVE  LET t == [s EXCEPT !.auth = @ \ {n}]
         IN  /\ GoodStream(t) /\ t.state = s.state /\ t.idle = s.idle
             /\ t.closes = s.closes
BY DEF GoodStream, StreamInv, StreamRecord, IsOpen

-----------------------------------------------------------------------------
(* Open streams *)

\* The health timer and a healthy answer change neither what the stream does nor
\* whether it is idle.
LEMMA HealthGood ==
  ASSUME NEW s, GoodStream(s)
  PROVE  /\ GoodStream(HealthElapsed(s)) /\ HealthElapsed(s).idle = s.idle
         /\ IsOpen(HealthElapsed(s)) <=> IsOpen(s)
         /\ IsStarted(HealthElapsed(s)) <=> IsStarted(s)
<1>1. HealthElapsed(s) \in StreamRecord
  BY DEF GoodStream, HealthElapsed, StreamRecord, StreamStates
<1> QED
  BY <1>1 DEF GoodStream, StreamInv, HealthElapsed, StreamRecord, IsOpen, IsStarted

\* ResetBackoff, called for every message of the backend, touches nothing the
\* other timers rely on.
LEMMA ResetGood ==
  ASSUME NEW s, GoodStream(s)
  PROVE  /\ GoodStream(ResetBackoff(s)) /\ ResetBackoff(s).idle = s.idle
         /\ ResetBackoff(s).state = s.state
<1>1. ResetBackoff(s) \in StreamRecord
  BY MaxDelayAssumption DEF GoodStream, ResetBackoff, StreamRecord
<1> QED
  BY <1>1 DEF GoodStream, StreamInv, ResetBackoff, StreamRecord, IsOpen

\* MarkIdle starts the idle timer of an open stream only.
LEMMA MarkIdleGood ==
  ASSUME NEW s, GoodStream(s)
  PROVE  GoodStream(MarkIdle(s)) /\ MarkIdle(s).state = s.state
<1>1. MarkIdle(s) \in StreamRecord
  BY DEF GoodStream, MarkIdle, StreamRecord
<1> QED
  BY <1>1 DEF GoodStream, StreamInv, MarkIdle, StreamRecord, IsOpen

\* Writing to an open stream succeeds and ends its idleness.
LEMMA WriteGood ==
  ASSUME NEW s, GoodStream(s), IsOpen(s)
  PROVE  GoodStream(Write(s)) /\ Write(s).state = s.state /\ ~Write(s).idle
<1>1. Write(s) \in StreamRecord
  BY DEF GoodStream, Write, StreamRecord
<1> QED
  BY <1>1 DEF GoodStream, StreamInv, Write, StreamRecord, IsOpen

-----------------------------------------------------------------------------
(* Stopping *)

\* Closing cancels the timers and outdates the outstanding credential requests.
LEMMA CloseStreamGood ==
  ASSUME NEW s, GoodStream(s), IsStarted(s), NEW status \in Statuses
  PROVE  /\ GoodStream(CloseStream(s, status))
         /\ ~IsStarted(CloseStream(s, status)) /\ ~CloseStream(s, status).idle
<1>1. (s.ok /\ IsStarted(s)) \in BOOLEAN
  OBVIOUS
<1>2. s.closes + 1 \in Nat
  BY DEF GoodStream, StreamRecord
<1>3. (IF status = "ok" THEN "Initial" ELSE "Error") \in StreamStates
  BY DEF StreamStates
<1>4. (IF status = "ok" THEN 0
       ELSE IF status = "exhausted" THEN MaxDelay ELSE s.delay) \in 0..MaxDelay
  BY MaxDelayAssumption DEF GoodStream, StreamRecord
<1>5. CloseStream(s, status) \in StreamRecord
  BY <1>1, <1>2, <1>3, <1>4 DEF CloseStream, GoodStream, StreamRecord
<1>6. /\ CloseStream(s, status).ok /\ ~CloseStream(s, status).waiting
      /\ ~CloseStream(s, status).idle /\ ~CloseStream(s, status).grpc
      /\ CloseStream(s, status).state \in {"Initial", "Error"}
      /\ CloseStream(s, status).auth = s.auth
      /\ CloseStream(s, status).closes = s.closes + 1
  BY DEF CloseStream, GoodStream, StreamInv, StreamRecord
<1>7. /\ \A n \in s.auth : n <= s.closes
      /\ s.auth \subseteq Nat /\ s.closes \in Nat
  BY DEF GoodStream, StreamInv, StreamRecord
<1>8. /\ \A n \in s.auth : n <= s.closes + 1
      /\ s.closes + 1 \notin s.auth
  BY <1>7
<1> QED
  BY <1>5, <1>6, <1>8 DEF GoodStream, StreamInv, IsOpen, IsStarted

\* InhibitBackoff, called by RestartNetwork and HandleWriteError on a stopped
\* stream, leaves it stopped.
LEMMA InhibitBackoffGood ==
  ASSUME NEW s, GoodStream(s), ~IsStarted(s)
  PROVE  /\ GoodStream(InhibitBackoff(s)) /\ ~IsStarted(InhibitBackoff(s))
         /\ ~InhibitBackoff(s).idle
<1>1. (s.ok /\ ~IsStarted(s)) \in BOOLEAN /\ 0 \in 0..MaxDelay
  BY MaxDelayAssumption
<1>2. InhibitBackoff(s) \in StreamRecord
  BY <1>1 DEF GoodStream, InhibitBackoff, StreamRecord, StreamStates
<1> QED
  BY <1>2 DEF GoodStream, StreamInv, InhibitBackoff, StreamRecord, IsOpen, IsStarted

-----------------------------------------------------------------------------
(* Pacing: a stream that is about to be started owes no delay. Every         *)
(* operation keeps that, but the backoff timer, which has paid it.           *)

\* s has a state and the fields of a stream, whatever the values of those.
IsStream(s) ==
  /\ s.state \in StreamStates
  /\ s = [state |-> s.state, closes |-> s.closes, auth |-> s.auth, grpc |-> s.grpc,
          idle |-> s.idle, health |-> s.health, waiting |-> s.waiting,
          delay |-> s.delay, ok |-> s.ok]

Rested(s) == IsStream(s) /\ (s.state \in {"Initial", "Starting"} => s.delay = 0)

\* A good stream has the fields of one.
LEMMA GoodIsStream == ASSUME NEW s, GoodStream(s) PROVE IsStream(s)
BY DEF GoodStream, StreamRecord, IsStream

\* A stream as the constructor leaves it owes no delay.
LEMMA NewStreamRested == Rested(NewStream)
BY DEF Rested, IsStream, NewStream, StreamStates

\* Start sends a failed stream through the backoff, and any other to Starting.
LEMMA StartRested ==
  ASSUME NEW s, Rested(s), ~IsStarted(s) PROVE Rested(StartStream(s))
<1>1. CASE s.state = "Error"
  <2> DEFINE d == IF s.delay < MaxDelay THEN s.delay + 1 ELSE s.delay
             o == s.ok /\ s.state = "Error"
  <2>1. StartStream(s) =
          [s EXCEPT !.state = "Backoff", !.waiting = TRUE, !.delay = d, !.ok = o]
    BY <1>1 DEF StartStream, BackoffAndTryRestarting
  <2> HIDE DEF d, o
  <2> QED
    BY <2>1 DEF Rested, IsStream, StreamStates
<1>2. CASE s.state = "Initial"
  BY <1>2 DEF StartStream, RequestCredentials, Rested, IsStream, StreamStates
<1> QED
  BY <1>1, <1>2 DEF IsStarted, IsOpen, Rested, IsStream, StreamStates

\* Close owes no delay after a graceful stop, and is not at rest after a failure.
LEMMA CloseRested ==
  ASSUME NEW s, Rested(s), NEW status PROVE Rested(CloseStream(s, status))
<1> DEFINE d == IF status = "ok" THEN 0
                ELSE IF status = "exhausted" THEN MaxDelay ELSE s.delay
           o == s.ok /\ IsStarted(s)
           x == IF status = "ok" THEN "Initial" ELSE "Error"
           n == s.closes + 1
<1>1. CloseStream(s, status) =
        [s EXCEPT !.ok = o, !.idle = FALSE, !.waiting = FALSE, !.health = FALSE,
                  !.closes = n, !.delay = d, !.grpc = FALSE, !.state = x]
  BY DEF CloseStream
<1>2. x \in StreamStates /\ (x \in {"Initial", "Starting"} => d = 0)
  BY DEF StreamStates
<1> HIDE DEF d, o, x, n
<1> QED
  BY <1>1, <1>2 DEF Rested, IsStream

\* ResetBackoff and InhibitBackoff cancel what was owed; the other operations
\* neither start a stream nor bring it to rest.
LEMMA ResetRested == ASSUME NEW s, Rested(s) PROVE Rested(ResetBackoff(s))
BY DEF ResetBackoff, Rested, IsStream

\* InhibitBackoff, on a stopped stream.
LEMMA InhibitRested == ASSUME NEW s, Rested(s) PROVE Rested(InhibitBackoff(s))
<1> DEFINE o == s.ok /\ ~IsStarted(s)
<1>1. InhibitBackoff(s) = [s EXCEPT !.ok = o, !.state = "Initial", !.delay = 0]
  BY DEF InhibitBackoff
<1> HIDE DEF o
<1> QED
  BY <1>1 DEF Rested, IsStream, StreamStates

\* The stream opens when its credentials arrive.
LEMMA ResumeRested ==
  ASSUME NEW s, Rested(s) PROVE Rested(ResumeStartWithCredentials(s))
<1> DEFINE o == s.ok /\ s.state = "Starting"
<1>1. ResumeStartWithCredentials(s) =
        [s EXCEPT !.ok = o, !.grpc = TRUE, !.state = "Open", !.health = TRUE]
  BY DEF ResumeStartWithCredentials
<1> HIDE DEF o
<1> QED
  BY <1>1 DEF Rested, IsStream, StreamStates

\* An answer of the credentials provider is forgotten.
LEMMA ForgetRested ==
  ASSUME NEW s, Rested(s), NEW n PROVE Rested([s EXCEPT !.auth = @ \ {n}])
<1> DEFINE a == s.auth \ {n}
<1>1. [s EXCEPT !.auth = @ \ {n}] = [s EXCEPT !.auth = a]
  OBVIOUS
<1> HIDE DEF a
<1>2. Rested([s EXCEPT !.auth = a])
  BY DEF Rested, IsStream
<1> QED
  BY <1>1, <1>2

\* The health timer.
LEMMA HealthRested == ASSUME NEW s, Rested(s) PROVE Rested(HealthElapsed(s))
<1> DEFINE x == IF IsOpen(s) THEN "Healthy" ELSE s.state
<1>1. HealthElapsed(s) = [s EXCEPT !.health = FALSE, !.state = x]
  BY DEF HealthElapsed
<1>2. x \in StreamStates /\ (x = s.state \/ x = "Healthy")
  BY DEF Rested, IsStream, StreamStates
<1> HIDE DEF x
<1> QED
  BY <1>1, <1>2 DEF Rested, IsStream

\* MarkIdle.
LEMMA MarkIdleRested == ASSUME NEW s, Rested(s) PROVE Rested(MarkIdle(s))
BY DEF MarkIdle, Rested, IsStream

\* Write.
LEMMA WriteRested == ASSUME NEW s, Rested(s) PROVE Rested(Write(s))
<1> DEFINE o == s.ok /\ IsOpen(s) /\ s.grpc
<1>1. Write(s) = [s EXCEPT !.idle = FALSE, !.ok = o]
  BY DEF Write
<1> HIDE DEF o
<1> QED
  BY <1>1 DEF Rested, IsStream

-----------------------------------------------------------------------------
(* The online state tracker *)

\* The timer runs only in state Unknown; being Online has reset the failures.
GoodTracker(o) ==
  /\ o \in TrackerRecord
  /\ o.ok
  /\ o.timer => o.state = "Unknown"
  /\ o.state = "Online" => o.failures = 0

\* The tracker as its constructor leaves it.
LEMMA NewTrackerGood == GoodTracker(NewTracker)
BY DEF GoodTracker, NewTracker, TrackerRecord, OnlineStates

\* HandleWatchStreamStart may assert that no timer runs, provided that its caller
\* comes without one when there was no failure.
LEMMA TrackerStartGood ==
  ASSUME NEW o, GoodTracker(o), o.failures = 0 => ~o.timer
  PROVE  /\ GoodTracker(HandleWatchStreamStart(o))
         /\ HandleWatchStreamStart(o).state # "Online"
<1>1. CASE o.failures # 0
  BY <1>1 DEF GoodTracker, HandleWatchStreamStart
<1>2. CASE o.failures = 0
  <2>1. HandleWatchStreamStart(o) \in TrackerRecord
    BY <1>2 DEF GoodTracker, HandleWatchStreamStart, TrackerRecord, OnlineStates
  <2> QED
    BY <1>2, <2>1 DEF GoodTracker, HandleWatchStreamStart, TrackerRecord
<1> QED
  BY <1>1, <1>2

\* A failure leaves the tracker ready for the restart that follows it.
LEMMA TrackerFailureGood ==
  ASSUME NEW o, GoodTracker(o)
  PROVE  /\ GoodTracker(HandleWatchStreamFailure(o))
         /\ HandleWatchStreamFailure(o).failures = 0
              => ~HandleWatchStreamFailure(o).timer
<1>0. o.failures \in Nat /\ o \in TrackerRecord
  BY DEF GoodTracker, TrackerRecord
<1>1. CASE o.state = "Online"
  <2>1. HandleWatchStreamFailure(o) \in TrackerRecord
    BY <1>0, <1>1 DEF HandleWatchStreamFailure, TrackerRecord, OnlineStates
  <2> QED
    BY <1>1, <2>1 DEF GoodTracker, HandleWatchStreamFailure, TrackerRecord
<1>2. CASE o.state # "Online" /\ o.failures + 1 >= MaxWatchStreamFailures
  <2>1. HandleWatchStreamFailure(o) =
          [o EXCEPT !.failures = @ + 1, !.timer = FALSE, !.state = "Offline"]
    BY <1>2 DEF HandleWatchStreamFailure
  <2> DEFINE f == [o EXCEPT !.failures = @ + 1, !.timer = FALSE, !.state = "Offline"]
  <2>2. o.failures + 1 \in Nat /\ "Offline" \in OnlineStates
    BY <1>0 DEF OnlineStates
  <2>3. f \in TrackerRecord
    BY <1>0, <2>2 DEF TrackerRecord
  <2>4. f.ok = o.ok /\ f.timer = FALSE /\ f.state = "Offline"
    BY <1>0 DEF TrackerRecord
  <2>5. GoodTracker(f) /\ ~f.timer
    BY <2>3, <2>4 DEF GoodTracker
  <2>6. HandleWatchStreamFailure(o) = f
    BY <2>1
  <2> HIDE DEF f
  <2> QED
    BY <2>5, <2>6
<1>3. CASE o.state # "Online" /\ ~(o.failures + 1 >= MaxWatchStreamFailures)
  <2>1. HandleWatchStreamFailure(o) = [o EXCEPT !.failures = @ + 1]
    BY <1>3 DEF HandleWatchStreamFailure
  <2>2. [o EXCEPT !.failures = @ + 1].failures # 0
    BY <1>0 DEF TrackerRecord
  <2> QED
    BY <1>0, <1>3, <2>1, <2>2 DEF GoodTracker, TrackerRecord, OnlineStates
<1> QED
  BY <1>1, <1>2, <1>3

\* UpdateState sets the state it is given and cancels the timer.
LEMMA TrackerUpdateGood ==
  ASSUME NEW o, GoodTracker(o), NEW st \in OnlineStates
  PROVE  /\ GoodTracker(UpdateState(o, st))
         /\ UpdateState(o, st).state = st
         /\ ~UpdateState(o, st).timer
<1>1. UpdateState(o, st) \in TrackerRecord
  BY DEF GoodTracker, UpdateState, TrackerRecord
<1> QED
  BY <1>1 DEF GoodTracker, UpdateState, TrackerRecord

\* The timer of ten seconds finds the state Unknown, as its assertion says.
LEMMA TrackerTimeoutGood ==
  ASSUME NEW o, GoodTracker(o), o.timer
  PROVE  /\ GoodTracker(OnlineTimeout(o))
         /\ OnlineTimeout(o).state = "Offline" /\ ~OnlineTimeout(o).timer
<1>1. (o.ok /\ o.state = "Unknown") \in BOOLEAN
  OBVIOUS
<1>2. OnlineTimeout(o) \in TrackerRecord
  BY <1>1 DEF GoodTracker, OnlineTimeout, TrackerRecord, OnlineStates
<1> QED
  BY <1>2 DEF GoodTracker, OnlineTimeout, TrackerRecord

-----------------------------------------------------------------------------
(* The watch half *)

\* What holds of the watch half even while a handler is half way through.
GoodParts(w) ==
  /\ w \in WatchRecord
  /\ w.ok
  /\ GoodStream(w.stream)
  /\ GoodTracker(w.online)

\* What holds between the operations of the worker queue.
WatchInv(w, up) ==
  /\ GoodParts(w)
  /\ up /\ w.targets # {} => IsStarted(w.stream)
  /\ IsStarted(w.stream) => up /\ w.aggregator
  /\ w.stream.idle => w.targets = {}
  /\ w.online.state = "Online" => IsOpen(w.stream)
  /\ w.online.timer => IsStarted(w.stream)

\* The watch half of a remote store that has not started anything.
LEMMA NewWatchInv == \A up \in BOOLEAN : WatchInv(NewWatch, up)
<1>1. NewWatch \in WatchRecord
  BY NewStreamGood, NewTrackerGood DEF NewWatch, WatchRecord, GoodStream, GoodTracker
<1>2. NewWatch.online.state = "Unknown" /\ ~NewWatch.online.timer
  BY DEF NewWatch, NewTracker
<1>3. NewWatch.stream = NewStream /\ NewWatch.targets = {} /\ NewWatch.ok
  BY DEF NewWatch
<1> QED
  BY <1>1, <1>2, <1>3, NewStreamGood, NewTrackerGood
     DEF WatchInv, GoodParts, NewWatch

\* StartWatchStream keeps the invariant when its assertion holds.
LEMMA StartWatchInv ==
  ASSUME NEW w, GoodParts(w), ~IsStarted(w.stream), w.targets # {},
         w.online.failures = 0 => ~w.online.timer
  PROVE  WatchInv(StartWatchStream(w, TRUE), TRUE)
<1> DEFINE v == StartWatchStream(w, TRUE)
<1>1. /\ GoodStream(StartStream(w.stream)) /\ IsStarted(StartStream(w.stream))
      /\ ~StartStream(w.stream).idle
  BY StartStreamGood DEF GoodParts
<1>2. /\ GoodTracker(HandleWatchStreamStart(w.online))
      /\ HandleWatchStreamStart(w.online).state # "Online"
  BY TrackerStartGood DEF GoodParts
<1>3. ShouldStartWatchStream(w, TRUE) = TRUE
  BY DEF ShouldStartWatchStream
<1>4. /\ v \in WatchRecord /\ v.ok /\ v.aggregator /\ v.targets = w.targets
      /\ v.stream = StartStream(w.stream)
      /\ v.online = HandleWatchStreamStart(w.online)
  BY <1>1, <1>2, <1>3
     DEF StartWatchStream, GoodParts, WatchRecord, GoodStream, GoodTracker
<1> QED
  BY <1>1, <1>2, <1>4 DEF WatchInv, GoodParts

\* Writing a request needs the open stream and the aggregator, and has both.
LEMMA SendRequestInv ==
  ASSUME NEW w, NEW up \in BOOLEAN, GoodParts(w), IsOpen(w.stream), w.aggregator, up
  PROVE  LET v == SendRequest(w)
         IN  /\ WatchInv(v, up) /\ IsOpen(v.stream) /\ v.aggregator
             /\ v.targets = w.targets
<1> DEFINE v == SendRequest(w)
<1>1. /\ GoodStream(Write(w.stream)) /\ Write(w.stream).state = w.stream.state
      /\ ~Write(w.stream).idle
  BY WriteGood DEF GoodParts
<1>2. /\ v \in WatchRecord /\ v.ok /\ v.aggregator /\ v.targets = w.targets
      /\ v.stream = Write(w.stream) /\ v.online = w.online
  BY <1>1 DEF SendRequest, GoodParts, WatchRecord, GoodStream
<1>3. IsOpen(v.stream) /\ IsStarted(v.stream)
  BY <1>1, <1>2 DEF IsOpen, IsStarted
<1> QED
  BY <1>1, <1>2, <1>3 DEF WatchInv, GoodParts

\* The stream has just been closed: it is started again if it is needed. A
\* graceful stop needs that it is not.
LEMMA OnCloseInv ==
  ASSUME NEW w, NEW up \in BOOLEAN, NEW status \in Statuses, GoodParts(w),
         ~IsStarted(w.stream), ~w.stream.idle,
         status = "ok" => ~up \/ w.targets = {}
  PROVE  WatchInv(OnWatchStreamClose(w, up, status), up)
<1> DEFINE c == [w EXCEPT
                   !.ok = @ /\ (status = "ok" => ~ShouldStartWatchStream(w, up)),
                   !.aggregator = FALSE]
<1>0. w.ok = TRUE
  BY DEF GoodParts, WatchRecord
<1>1. (w.ok /\ (status = "ok" => ~ShouldStartWatchStream(w, up))) = TRUE
  BY <1>0 DEF ShouldStartWatchStream
<1>2. /\ c \in WatchRecord /\ c.ok /\ c.stream = w.stream /\ c.online = w.online
      /\ c.targets = w.targets
  BY <1>1 DEF GoodParts, WatchRecord
<1>3. CASE ShouldStartWatchStream(c, up)
  <2> DEFINE d == [c EXCEPT !.online = HandleWatchStreamFailure(@)]
  <2>1. up = TRUE /\ w.targets # {}
    BY <1>2, <1>3 DEF ShouldStartWatchStream
  <2>2. /\ GoodTracker(HandleWatchStreamFailure(w.online))
        /\ HandleWatchStreamFailure(w.online).failures = 0
             => ~HandleWatchStreamFailure(w.online).timer
    BY TrackerFailureGood DEF GoodParts
  <2>3. /\ d \in WatchRecord /\ d.ok /\ d.stream = w.stream
        /\ d.online = HandleWatchStreamFailure(w.online) /\ d.targets = w.targets
    BY <1>2, <2>2 DEF GoodTracker, WatchRecord
  <2>4. OnWatchStreamClose(w, up, status) = StartWatchStream(d, up)
    BY <1>3 DEF OnWatchStreamClose
  <2> HIDE DEF d
  <2>5. WatchInv(StartWatchStream(d, TRUE), TRUE)
    BY <2>1, <2>2, <2>3, StartWatchInv DEF GoodParts
  <2> QED
    BY <2>1, <2>4, <2>5
<1>4. CASE ~ShouldStartWatchStream(c, up)
  <2> DEFINE d == [c EXCEPT !.online = UpdateState(@, "Unknown")]
  <2>1. /\ GoodTracker(UpdateState(w.online, "Unknown"))
        /\ UpdateState(w.online, "Unknown").state = "Unknown"
        /\ ~UpdateState(w.online, "Unknown").timer
    BY TrackerUpdateGood DEF GoodParts, OnlineStates
  <2>2. /\ d \in WatchRecord /\ d.ok /\ d.stream = w.stream
        /\ d.online = UpdateState(w.online, "Unknown") /\ d.targets = w.targets
    BY <1>2, <2>1 DEF GoodTracker, WatchRecord
  <2>3. OnWatchStreamClose(w, up, status) = d
    BY <1>4 DEF OnWatchStreamClose
  <2>4. ~(up /\ w.targets # {})
    BY <1>2, <1>4 DEF ShouldStartWatchStream
  <2> HIDE DEF d
  <2>5. WatchInv(d, up)
    BY <2>1, <2>2, <2>4 DEF WatchInv, GoodParts
  <2> QED
    BY <2>3, <2>5
<1> QED
  BY <1>3, <1>4

\* Stream::Close with its notification, for an error of a started stream and for a
\* graceful stop.
LEMMA CloseWatchInv ==
  ASSUME NEW w, NEW up \in BOOLEAN, NEW status \in Statuses, GoodParts(w),
         IsStarted(w.stream), status = "ok" => ~up \/ w.targets = {}
  PROVE  WatchInv(CloseWatch(w, up, status), up)
<1> DEFINE c == [w EXCEPT !.stream = CloseStream(@, status)]
<1>1. /\ GoodStream(CloseStream(w.stream, status))
      /\ ~IsStarted(CloseStream(w.stream, status))
      /\ ~CloseStream(w.stream, status).idle
  BY CloseStreamGood DEF GoodParts
<1>2. /\ c \in WatchRecord /\ c.ok /\ c.stream = CloseStream(w.stream, status)
      /\ c.online = w.online /\ c.targets = w.targets
  BY <1>1 DEF GoodParts, WatchRecord, GoodStream
<1> HIDE DEF c
<1>3. WatchInv(OnWatchStreamClose(c, up, status), up)
  BY <1>1, <1>2, OnCloseInv DEF GoodParts
<1> QED
  BY <1>3 DEF CloseWatch, c
-----------------------------------------------------------------------------
(* The callbacks of the stream *)

\* OnWatchStreamChange: a message comes from the open stream, which has an
\* aggregator, and makes the client Online.
LEMMA MessageInv ==
  ASSUME NEW w, NEW up \in BOOLEAN, WatchInv(w, up), IsOpen(w.stream)
  PROVE  LET v == MessageArrives(w)
         IN  /\ WatchInv(v, up) /\ IsOpen(v.stream) /\ v.aggregator /\ up
             /\ v.targets = w.targets
<1> DEFINE v == MessageArrives(w)
<1>1. /\ GoodStream(ResetBackoff(w.stream))
      /\ ResetBackoff(w.stream).idle = w.stream.idle
      /\ ResetBackoff(w.stream).state = w.stream.state
  BY ResetGood DEF WatchInv, GoodParts
<1>2. /\ GoodTracker(UpdateState(w.online, "Online"))
      /\ UpdateState(w.online, "Online").state = "Online"
      /\ ~UpdateState(w.online, "Online").timer
  BY TrackerUpdateGood DEF WatchInv, GoodParts, OnlineStates
<1>3. IsStarted(w.stream) /\ w.aggregator /\ up /\ w.ok
  BY DEF WatchInv, GoodParts, IsStarted
<1>4. /\ v \in WatchRecord /\ v.ok /\ v.aggregator /\ v.targets = w.targets
      /\ v.stream = ResetBackoff(w.stream)
      /\ v.online = UpdateState(w.online, "Online")
  <2>1. w \in WatchRecord
    BY DEF WatchInv, GoodParts
  <2>2. /\ ResetBackoff(w.stream) \in StreamRecord
        /\ UpdateState(w.online, "Online") \in TrackerRecord
    BY <1>1, <1>2 DEF GoodStream, GoodTracker
  <2>3. (w.ok /\ IsStarted(w.stream) /\ w.aggregator) = TRUE
    BY <1>3
  <2> QED
    BY <1>3, <2>1, <2>2, <2>3 DEF MessageArrives, WatchRecord
<1>5. IsOpen(v.stream) /\ IsStarted(v.stream)
  BY <1>1, <1>4 DEF IsOpen, IsStarted
<1> QED
  BY <1>1, <1>2, <1>3, <1>4, <1>5 DEF WatchInv, GoodParts

\* ProcessTargetError drops a target and keeps the stream.
LEMMA TargetErrorInv ==
  ASSUME NEW w, NEW up \in BOOLEAN, WatchInv(w, up), IsOpen(w.stream), NEW t
  PROVE  WatchInv(ProcessTargetError(MessageArrives(w), t), up)
<1> DEFINE m == MessageArrives(w)
           v == ProcessTargetError(m, t)
<1>1. WatchInv(m, up) /\ IsOpen(m.stream)
  BY MessageInv
<1> HIDE DEF m
<1>2. /\ v \in WatchRecord /\ v.ok /\ v.targets \subseteq m.targets
      /\ v.stream = m.stream /\ v.online = m.online /\ v.aggregator = m.aggregator
  BY <1>1 DEF ProcessTargetError, WatchInv, GoodParts, WatchRecord
<1>3. IsStarted(v.stream)
  BY <1>1, <1>2 DEF IsStarted, IsOpen
<1>4. WatchInv(v, up)
  BY <1>1, <1>2, <1>3 DEF WatchInv, GoodParts
<1> QED
  BY <1>4 DEF m

\* RaiseWatchSnapshot watches a mismatched target again on the open stream.
LEMMA MismatchInv ==
  ASSUME NEW w, NEW up \in BOOLEAN, WatchInv(w, up), IsOpen(w.stream), NEW t
  PROVE  WatchInv(ResetMismatch(MessageArrives(w), t), up)
<1> DEFINE m == MessageArrives(w)
<1>1. WatchInv(m, up) /\ IsOpen(m.stream) /\ m.aggregator /\ up
  BY MessageInv
<1> HIDE DEF m
<1>2. /\ WatchInv(SendRequest(m), up) /\ IsOpen(SendRequest(m).stream)
      /\ SendRequest(m).aggregator
  BY <1>1, SendRequestInv DEF WatchInv
<1>3. WatchInv(SendRequest(SendRequest(m)), up)
  BY <1>1, <1>2, SendRequestInv DEF WatchInv
<1> QED
  BY <1>1, <1>3 DEF ResetMismatch, m

\* Credentials arrive or fail for any of the outstanding requests, the stale ones
\* included (Stream::ResumeStartWithCredentials).
LEMMA CredentialsInv ==
  ASSUME NEW w, NEW up \in BOOLEAN, WatchInv(w, up), NEW n \in w.stream.auth,
         NEW status \in Statuses
  PROVE  WatchInv(WatchCredentials(w, up, n, status), up)
<1> DEFINE s == [w.stream EXCEPT !.auth = @ \ {n}]
           v == [w EXCEPT !.stream = s]
<1>0. GoodStream(w.stream) /\ w \in WatchRecord
  BY DEF WatchInv, GoodParts
<1>1. /\ GoodStream(s) /\ s.state = w.stream.state /\ s.idle = w.stream.idle
      /\ s.closes = w.stream.closes
  BY <1>0, ForgetGood
<1>2. /\ v \in WatchRecord /\ v.ok = w.ok /\ v.aggregator = w.aggregator
      /\ v.targets = w.targets /\ v.stream = s /\ v.online = w.online
  BY <1>0, <1>1 DEF WatchRecord, GoodStream
<1>3. /\ IsStarted(s) <=> IsStarted(w.stream)
      /\ IsOpen(s) <=> IsOpen(w.stream)
  BY <1>1 DEF IsOpen, IsStarted
<1>4. WatchInv(v, up)
  BY <1>1, <1>2, <1>3 DEF WatchInv, GoodParts
<1>5. CASE IsStale(s, n)
  BY <1>4, <1>5 DEF WatchCredentials
<1>6. CASE ~IsStale(s, n) /\ status = "ok"
  <2> DEFINE r == ResumeStartWithCredentials(s)
             u == [v EXCEPT !.stream = r]
  <2>1. n = w.stream.closes /\ w.stream.state = "Starting"
    BY <1>0, <1>1, <1>6 DEF IsStale, GoodStream, StreamInv
  <2>2. GoodStream(r) /\ IsOpen(r) /\ IsStarted(r) /\ ~r.idle
    BY <1>0, <2>1, ResumeGood
  <2>3. IsStarted(w.stream) /\ up /\ w.aggregator
    BY <2>1 DEF WatchInv, IsStarted
  <2> HIDE DEF r
  <2>4. /\ u \in WatchRecord /\ u.ok /\ u.aggregator /\ u.targets = w.targets
        /\ u.stream = r /\ u.online = w.online
    BY <1>2, <2>2, <2>3 DEF WatchRecord, GoodStream, WatchInv, GoodParts
  <2>5. GoodParts(u)
    BY <2>2, <2>4 DEF GoodParts, WatchInv
  <2>6. WatchInv(u, up)
    BY <2>2, <2>3, <2>4, <2>5 DEF WatchInv
  <2>7. WatchCredentials(w, up, n, status) = OnWatchStreamOpen(u)
    BY <1>6 DEF WatchCredentials, r
  <2> HIDE DEF u
  <2>8. WatchInv(OnWatchStreamOpen(u), up)
    BY <2>2, <2>3, <2>4, <2>5, <2>6, SendRequestInv DEF OnWatchStreamOpen
  <2> QED
    BY <2>7, <2>8
<1>7. CASE ~IsStale(s, n) /\ status # "ok"
  <2>1. w.stream.state = "Starting"
    BY <1>0, <1>1, <1>7 DEF IsStale, GoodStream, StreamInv
  <2>2. IsStarted(v.stream)
    BY <1>1, <1>2, <2>1 DEF IsStarted
  <2>3. WatchCredentials(w, up, n, status) = CloseWatch(v, up, status)
    BY <1>7 DEF WatchCredentials
  <2> HIDE DEF v
  <2>4. WatchInv(CloseWatch(v, up, status), up)
    BY <1>4, <1>7, <2>2, CloseWatchInv DEF WatchInv
  <2> QED
    BY <2>3, <2>4
<1> QED
  BY <1>5, <1>6, <1>7

\* An error of an open stream, whether its gRPC call or the client found it.
LEMMA ErrorInv ==
  ASSUME NEW w, NEW up \in BOOLEAN, WatchInv(w, up), IsOpen(w.stream),
         NEW status \in Statuses \ {"ok"}
  PROVE  WatchInv(CloseWatch(w, up, status), up)
BY CloseWatchInv DEF WatchInv, IsStarted

\* A message that cannot be decoded may have reset the backoff before that shows.
LEMMA UndecodableInv ==
  ASSUME NEW w, NEW up \in BOOLEAN, WatchInv(w, up), IsOpen(w.stream),
         NEW s \in {w.stream, ResetBackoff(w.stream)}
  PROVE  WatchInv(CloseWatch([w EXCEPT !.stream = s], up, "dataloss"), up)
<1> DEFINE v == [w EXCEPT !.stream = s]
<1>1. GoodStream(s) /\ s.idle = w.stream.idle /\ s.state = w.stream.state
  BY ResetGood DEF WatchInv, GoodParts
<1>2. IsOpen(s) /\ (IsStarted(s) <=> IsStarted(w.stream))
  BY <1>1 DEF IsOpen, IsStarted
<1>3. /\ v \in WatchRecord /\ v.ok = w.ok /\ v.aggregator = w.aggregator
      /\ v.targets = w.targets /\ v.stream = s /\ v.online = w.online
  BY <1>1 DEF WatchInv, GoodParts, WatchRecord, GoodStream
<1> HIDE DEF v
<1>4. WatchInv(v, up) /\ IsOpen(v.stream)
  BY <1>1, <1>2, <1>3 DEF WatchInv, GoodParts
<1>5. "dataloss" \in Statuses \ {"ok"}
  BY DEF Statuses
<1>6. WatchInv(CloseWatch(v, up, "dataloss"), up)
  BY <1>4, <1>5, ErrorInv
<1> QED
  BY <1>6 DEF v

-----------------------------------------------------------------------------
(* The timers *)

\* The end of the backoff starts the stream again.
LEMMA BackoffTimerInv ==
  ASSUME NEW w, NEW up \in BOOLEAN, WatchInv(w, up), w.stream.waiting
  PROVE  WatchInv([w EXCEPT !.stream = BackoffElapsed(@)], up)
<1> DEFINE v == [w EXCEPT !.stream = BackoffElapsed(@)]
<1>1. /\ GoodStream(BackoffElapsed(w.stream))
      /\ IsStarted(BackoffElapsed(w.stream))
      /\ ~BackoffElapsed(w.stream).idle
  BY BackoffElapsedGood DEF WatchInv, GoodParts
<1>2. IsStarted(w.stream) /\ ~IsOpen(w.stream)
  BY DEF WatchInv, GoodParts, GoodStream, StreamInv, IsStarted, IsOpen
<1>3. /\ v \in WatchRecord /\ v.ok = w.ok /\ v.aggregator = w.aggregator
      /\ v.targets = w.targets /\ v.stream = BackoffElapsed(w.stream)
      /\ v.online = w.online
  BY <1>1 DEF WatchInv, GoodParts, WatchRecord, GoodStream
<1> QED
  BY <1>1, <1>2, <1>3 DEF WatchInv, GoodParts

\* A stream that stayed open long enough becomes healthy.
LEMMA HealthTimerInv ==
  ASSUME NEW w, NEW up \in BOOLEAN, WatchInv(w, up)
  PROVE  WatchInv([w EXCEPT !.stream = HealthElapsed(@)], up)
<1> DEFINE v == [w EXCEPT !.stream = HealthElapsed(@)]
<1>1. /\ GoodStream(HealthElapsed(w.stream))
      /\ HealthElapsed(w.stream).idle = w.stream.idle
      /\ IsOpen(HealthElapsed(w.stream)) <=> IsOpen(w.stream)
      /\ IsStarted(HealthElapsed(w.stream)) <=> IsStarted(w.stream)
  BY HealthGood DEF WatchInv, GoodParts
<1>2. /\ v \in WatchRecord /\ v.ok = w.ok /\ v.aggregator = w.aggregator
      /\ v.targets = w.targets /\ v.stream = HealthElapsed(w.stream)
      /\ v.online = w.online
  BY <1>1 DEF WatchInv, GoodParts, WatchRecord, GoodStream
<1> QED
  BY <1>1, <1>2 DEF WatchInv, GoodParts

\* The idle timer closes a stream that has no target.
LEMMA IdleTimerInv ==
  ASSUME NEW w, NEW up \in BOOLEAN, WatchInv(w, up), w.stream.idle
  PROVE  WatchInv(StopWatch(w, up), up)
<1>1. w.targets = {} /\ "ok" \in Statuses /\ GoodParts(w)
  BY DEF WatchInv, Statuses
<1> QED
  BY <1>1, CloseWatchInv DEF StopWatch

\* The online state timer makes the client Offline without touching the stream.
LEMMA OnlineTimerInv ==
  ASSUME NEW w, NEW up \in BOOLEAN, WatchInv(w, up), w.online.timer
  PROVE  WatchInv([w EXCEPT !.online = OnlineTimeout(@)], up)
<1> DEFINE v == [w EXCEPT !.online = OnlineTimeout(@)]
<1>1. /\ GoodTracker(OnlineTimeout(w.online))
      /\ OnlineTimeout(w.online).state = "Offline"
      /\ ~OnlineTimeout(w.online).timer
  BY TrackerTimeoutGood DEF WatchInv, GoodParts
<1>2. /\ v \in WatchRecord /\ v.ok = w.ok /\ v.aggregator = w.aggregator
      /\ v.targets = w.targets /\ v.stream = w.stream
      /\ v.online = OnlineTimeout(w.online)
  BY <1>1 DEF WatchInv, GoodParts, WatchRecord, GoodTracker
<1> QED
  BY <1>1, <1>2 DEF WatchInv, GoodParts

-----------------------------------------------------------------------------
(* Calls *)

\* RemoteStore::Listen, in every state of the stream.
LEMMA ListenInv ==
  ASSUME NEW w, NEW up \in BOOLEAN, WatchInv(w, up), NEW t \in Targets,
         t \notin w.targets
  PROVE  WatchInv(ListenTarget(w, up, t), up)
<1> DEFINE v == [w EXCEPT !.targets = @ \cup {t}]
<1>1. /\ v \in WatchRecord /\ v.ok = w.ok /\ v.aggregator = w.aggregator
      /\ v.targets # {} /\ v.stream = w.stream /\ v.online = w.online
  BY DEF WatchInv, GoodParts, WatchRecord
<1>2. GoodParts(v)
  BY <1>1 DEF WatchInv, GoodParts
<1>3. CASE ShouldStartWatchStream(v, up)
  <2>1. up = TRUE /\ ~IsStarted(v.stream)
    BY <1>3 DEF ShouldStartWatchStream
  <2>2. ListenTarget(w, up, t) = StartWatchStream(v, TRUE)
    BY <1>3, <2>1 DEF ListenTarget
  <2>3. ~v.online.timer
    BY <1>1, <2>1 DEF WatchInv
  <2> HIDE DEF v
  <2>4. WatchInv(StartWatchStream(v, TRUE), TRUE)
    BY <1>1, <1>2, <2>1, <2>3, StartWatchInv
  <2> QED
    BY <2>1, <2>2, <2>4
<1>4. CASE ~ShouldStartWatchStream(v, up) /\ IsOpen(v.stream)
  <2>1. up /\ v.aggregator
    BY <1>1, <1>4 DEF WatchInv, IsStarted
  <2>2. ListenTarget(w, up, t) = SendRequest(v)
    BY <1>4 DEF ListenTarget
  <2> HIDE DEF v
  <2> QED
    BY <1>2, <1>4, <2>1, <2>2, SendRequestInv
<1>5. CASE ~ShouldStartWatchStream(v, up) /\ ~IsOpen(v.stream)
  <2>1. ListenTarget(w, up, t) = v
    BY <1>5 DEF ListenTarget
  <2>2. up => IsStarted(v.stream)
    BY <1>1, <1>5 DEF ShouldStartWatchStream
  <2>3. ~v.stream.idle
    BY <1>2, <1>5 DEF GoodParts, GoodStream, StreamInv
  <2> QED
    BY <1>1, <1>2, <2>1, <2>2, <2>3 DEF WatchInv
<1> QED
  BY <1>3, <1>4, <1>5

\* RemoteStore::StopListening of a watched target, in every state of the stream.
LEMMA StopListeningInv ==
  ASSUME NEW w, NEW up \in BOOLEAN, WatchInv(w, up), NEW t \in w.targets
  PROVE  WatchInv(StopListeningTarget(w, up, t), up)
<1> DEFINE v == [w EXCEPT !.ok = @ /\ t \in w.targets, !.targets = @ \ {t}]
           u == IF IsOpen(v.stream) THEN SendRequest(v) ELSE v
<1>1. /\ v \in WatchRecord /\ v.ok /\ v.aggregator = w.aggregator
      /\ v.targets \subseteq w.targets /\ v.stream = w.stream
      /\ v.online = w.online
  BY DEF WatchInv, GoodParts, WatchRecord
<1>2. WatchInv(v, up) /\ GoodParts(v)
  BY <1>1 DEF WatchInv, GoodParts
<1> HIDE DEF v
<1>3. /\ WatchInv(u, up) /\ GoodParts(u)
      /\ IsOpen(v.stream) => IsOpen(u.stream) /\ up /\ u.aggregator
      /\ ~IsOpen(v.stream) => u = v
  BY <1>2, SendRequestInv DEF WatchInv, IsStarted
<1> DEFINE r == IF u.targets # {} THEN u
                ELSE IF IsOpen(u.stream) THEN [u EXCEPT !.stream = MarkIdle(@)]
                ELSE IF up THEN [u EXCEPT !.online = UpdateState(@, "Unknown")]
                ELSE u
<1>4. StopListeningTarget(w, up, t) = r
  BY DEF StopListeningTarget, v
<1> HIDE DEF u
<1>5. CASE u.targets = {} /\ IsOpen(u.stream)
  <2> DEFINE i == [u EXCEPT !.stream = MarkIdle(@)]
  <2>1. GoodStream(MarkIdle(u.stream)) /\ MarkIdle(u.stream).state = u.stream.state
    BY <1>3, MarkIdleGood DEF GoodParts
  <2>2. /\ i \in WatchRecord /\ i.ok = u.ok /\ i.aggregator = u.aggregator
        /\ i.targets = {} /\ i.stream = MarkIdle(u.stream) /\ i.online = u.online
    BY <1>3, <1>5, <2>1 DEF GoodParts, WatchRecord, GoodStream
  <2>3. IsOpen(i.stream) /\ IsStarted(i.stream) /\ IsStarted(u.stream)
    BY <1>5, <2>1, <2>2 DEF IsOpen, IsStarted
  <2>4. WatchInv(i, up)
    BY <1>3, <2>1, <2>2, <2>3 DEF WatchInv, GoodParts
  <2> QED
    BY <1>4, <1>5, <2>4
<1>6. CASE u.targets = {} /\ ~IsOpen(u.stream) /\ up
  <2> DEFINE i == [u EXCEPT !.online = UpdateState(@, "Unknown")]
  <2>1. /\ GoodTracker(UpdateState(u.online, "Unknown"))
        /\ UpdateState(u.online, "Unknown").state = "Unknown"
        /\ ~UpdateState(u.online, "Unknown").timer
    BY <1>3, TrackerUpdateGood DEF GoodParts, OnlineStates
  <2>2. /\ i \in WatchRecord /\ i.ok = u.ok /\ i.aggregator = u.aggregator
        /\ i.targets = {} /\ i.stream = u.stream
        /\ i.online = UpdateState(u.online, "Unknown")
    BY <1>3, <1>6, <2>1 DEF GoodParts, WatchRecord, GoodTracker
  <2>3. WatchInv(i, up)
    BY <1>3, <2>1, <2>2 DEF WatchInv, GoodParts
  <2> QED
    BY <1>4, <1>6, <2>3
<1> QED
  BY <1>3, <1>4, <1>5, <1>6

\* EnableNetwork on a watch half that was stopped, or not.
LEMMA EnableInv ==
  ASSUME NEW w, GoodParts(w), IsStarted(w.stream) => w.aggregator,
         w.stream.idle => w.targets = {}, w.online.timer => IsStarted(w.stream)
  PROVE  WatchInv(EnableWatch(w), TRUE)
<1>1. CASE ShouldStartWatchStream(w, TRUE)
  BY <1>1, StartWatchInv DEF EnableWatch, ShouldStartWatchStream
<1>2. CASE ~ShouldStartWatchStream(w, TRUE)
  <2> DEFINE i == [w EXCEPT !.online = UpdateState(@, "Unknown")]
  <2>1. /\ GoodTracker(UpdateState(w.online, "Unknown"))
        /\ UpdateState(w.online, "Unknown").state = "Unknown"
        /\ ~UpdateState(w.online, "Unknown").timer
    BY TrackerUpdateGood DEF GoodParts, OnlineStates
  <2>2. /\ i \in WatchRecord /\ i.ok = w.ok /\ i.aggregator = w.aggregator
        /\ i.targets = w.targets /\ i.stream = w.stream
        /\ i.online = UpdateState(w.online, "Unknown")
    BY <2>1 DEF GoodParts, WatchRecord, GoodTracker
  <2>3. w.targets # {} => IsStarted(w.stream)
    BY <1>2 DEF ShouldStartWatchStream
  <2>4. WatchInv(i, TRUE)
    BY <2>1, <2>2, <2>3 DEF WatchInv, GoodParts
  <2> QED
    BY <1>2, <2>4 DEF EnableWatch
<1> QED
  BY <1>1, <1>2

\* DisableNetworkInternal, as DisableNetwork and Shutdown call it.
LEMMA DisableInv ==
  ASSUME NEW w, NEW up \in BOOLEAN, WatchInv(w, up), NEW st \in {"Unknown", "Offline"}
  PROVE  WatchInv(DisableWatch(w, st), FALSE)
<1> DEFINE d == StopWatch(w, FALSE)
           v == DisableWatch(w, st)
<1>1. WatchInv(d, FALSE)
  <2>1. CASE IsStarted(w.stream)
    BY <2>1, CloseWatchInv DEF StopWatch, WatchInv, Statuses
  <2>2. CASE ~IsStarted(w.stream)
    BY <2>2 DEF StopWatch, WatchInv
  <2> QED
    BY <2>1, <2>2
<1> HIDE DEF d
<1>2. /\ GoodTracker(UpdateState(d.online, st))
      /\ UpdateState(d.online, st).state = st /\ ~UpdateState(d.online, st).timer
  BY <1>1, TrackerUpdateGood DEF WatchInv, GoodParts, OnlineStates
<1>3. /\ v \in WatchRecord /\ v.ok = d.ok /\ v.targets = d.targets
      /\ v.stream = d.stream /\ v.online = UpdateState(d.online, st)
  BY <1>1, <1>2 DEF DisableWatch, d, WatchInv, GoodParts, WatchRecord, GoodTracker
<1>4. ~IsStarted(d.stream)
  BY <1>1 DEF WatchInv
<1> QED
  BY <1>1, <1>2, <1>3, <1>4 DEF WatchInv, GoodParts

\* RestartNetwork: everything is stopped and started again.
LEMMA RestartInv ==
  ASSUME NEW w, NEW up \in BOOLEAN, WatchInv(w, up)
  PROVE  WatchInv(RestartWatch(w), TRUE)
<1> DEFINE d == DisableWatch(w, "Unknown")
           i == [d EXCEPT !.stream = InhibitBackoff(@)]
<1>1. WatchInv(d, FALSE)
  BY DisableInv
<1> HIDE DEF d
<1>2. /\ GoodStream(InhibitBackoff(d.stream)) /\ ~IsStarted(InhibitBackoff(d.stream))
      /\ ~InhibitBackoff(d.stream).idle
  BY <1>1, InhibitBackoffGood DEF WatchInv, GoodParts
<1>3. /\ i \in WatchRecord /\ i.ok = d.ok /\ i.targets = d.targets
      /\ i.stream = InhibitBackoff(d.stream) /\ i.online = d.online
  BY <1>1, <1>2 DEF WatchInv, GoodParts, WatchRecord, GoodStream
<1>4. ~d.online.timer
  BY <1>1 DEF WatchInv
<1>5. RestartWatch(w) = EnableWatch(i)
  BY DEF RestartWatch, d
<1> HIDE DEF i
<1> QED
  BY <1>1, <1>2, <1>3, <1>4, <1>5, EnableInv DEF WatchInv, GoodParts

-----------------------------------------------------------------------------
(* Pacing: the operations of the watch half, but the backoff timer, leave    *)
(* a stream that owes no delay when it is about to be started.               *)

\* w has the fields of a watch half, and its stream is Rested.
PacedWatch(w) ==
  /\ w = [stream |-> w.stream, online |-> w.online, targets |-> w.targets,
          aggregator |-> w.aggregator, ok |-> w.ok]
  /\ Rested(w.stream)

\* A typed watch half with a rested stream is paced.
LEMMA WatchPaced ==
  ASSUME NEW w \in WatchRecord, Rested(w.stream) PROVE PacedWatch(w)
BY DEF PacedWatch, WatchRecord

\* What a handler does to the flags and the targets does not matter.
LEMMA OtherFieldsPaced ==
  ASSUME NEW w, PacedWatch(w), NEW k, NEW x
  PROVE  /\ PacedWatch([w EXCEPT !.ok = k, !.aggregator = x])
         /\ PacedWatch([w EXCEPT !.ok = k, !.targets = x])
<1>1. ASSUME NEW v, v = [w EXCEPT !.ok = k, !.aggregator = x] PROVE PacedWatch(v)
  BY <1>1 DEF PacedWatch
<1>2. ASSUME NEW v, v = [w EXCEPT !.ok = k, !.targets = x] PROVE PacedWatch(v)
  BY <1>2 DEF PacedWatch
<1> QED
  BY <1>1, <1>2

\* StartWatchStream, on a stopped stream.
LEMMA StartWatchPaced ==
  ASSUME NEW w, PacedWatch(w), NEW up, ShouldStartWatchStream(w, up)
  PROVE  PacedWatch(StartWatchStream(w, up))
<1> DEFINE k == w.ok /\ ShouldStartWatchStream(w, up)
           x == StartStream(w.stream)
           o == HandleWatchStreamStart(w.online)
<1>1. Rested(x)
  BY StartRested DEF PacedWatch, ShouldStartWatchStream
<1>2. StartWatchStream(w, up) =
        [w EXCEPT !.ok = k, !.aggregator = TRUE, !.stream = x, !.online = o]
  BY DEF StartWatchStream
<1> HIDE DEF k, x, o
<1> QED
  BY <1>1, <1>2 DEF PacedWatch

\* A request on the stream.
LEMMA SendPaced ==
  ASSUME NEW w, PacedWatch(w) PROVE PacedWatch(SendRequest(w))
<1> DEFINE k == w.ok /\ w.aggregator
           x == Write(w.stream)
<1>1. Rested(x)
  BY WriteRested DEF PacedWatch
<1>2. SendRequest(w) = [w EXCEPT !.ok = k, !.stream = x]
  BY DEF SendRequest
<1> HIDE DEF k, x
<1> QED
  BY <1>1, <1>2 DEF PacedWatch

\* OnWatchStreamClose: the restart that may follow goes through the backoff.
LEMMA OnClosePaced ==
  ASSUME NEW w, PacedWatch(w), NEW up, NEW status
  PROVE  PacedWatch(OnWatchStreamClose(w, up, status))
<1> DEFINE k == w.ok /\ (status = "ok" => ~ShouldStartWatchStream(w, up))
           c == [w EXCEPT !.ok = k, !.aggregator = FALSE]
           f == [c EXCEPT !.online = HandleWatchStreamFailure(@)]
           u == [c EXCEPT !.online = UpdateState(@, "Unknown")]
<1>1. OnWatchStreamClose(w, up, status) =
        IF ShouldStartWatchStream(c, up) THEN StartWatchStream(f, up) ELSE u
  BY DEF OnWatchStreamClose
<1> HIDE DEF k
<1>2. PacedWatch(c)
  BY OtherFieldsPaced
<1>3. ShouldStartWatchStream(f, up) <=> ShouldStartWatchStream(c, up)
  BY <1>2 DEF PacedWatch, ShouldStartWatchStream
<1> HIDE DEF c
<1>4. PacedWatch(f) /\ PacedWatch(u)
  BY <1>2 DEF PacedWatch
<1> HIDE DEF f, u
<1> QED
  BY <1>1, <1>3, <1>4, StartWatchPaced

\* The stream closes, for whatever reason.
LEMMA ClosePaced ==
  ASSUME NEW w, PacedWatch(w), NEW up, NEW status
  PROVE  PacedWatch(CloseWatch(w, up, status))
<1> DEFINE c == [w EXCEPT !.stream = CloseStream(@, status)]
<1>1. PacedWatch(c)
  BY CloseRested DEF PacedWatch
<1>2. CloseWatch(w, up, status) = OnWatchStreamClose(c, up, status)
  BY DEF CloseWatch
<1> HIDE DEF c
<1> QED
  BY <1>1, <1>2, OnClosePaced

\* The idle timer, and the graceful stop of a started stream.
LEMMA StopPaced ==
  ASSUME NEW w, PacedWatch(w), NEW up PROVE PacedWatch(StopWatch(w, up))
BY ClosePaced DEF StopWatch

\* The answer of the credentials provider.
LEMMA CredentialsPaced ==
  ASSUME NEW w, PacedWatch(w), NEW up, NEW n, NEW status
  PROVE  PacedWatch(WatchCredentials(w, up, n, status))
<1> DEFINE s == [w.stream EXCEPT !.auth = @ \ {n}]
           v == [w EXCEPT !.stream = s]
           r == [v EXCEPT !.stream = ResumeStartWithCredentials(s)]
<1>1. Rested(s)
  BY ForgetRested DEF PacedWatch
<1>2. WatchCredentials(w, up, n, status) =
        IF IsStale(s, n) THEN v
        ELSE IF status = "ok" THEN OnWatchStreamOpen(r) ELSE CloseWatch(v, up, status)
  BY DEF WatchCredentials
<1> HIDE DEF s
<1>3. PacedWatch(v)
  BY <1>1 DEF PacedWatch
<1>4. Rested(ResumeStartWithCredentials(s))
  BY <1>1, ResumeRested
<1> HIDE DEF v
<1>5. PacedWatch(r)
  BY <1>3, <1>4 DEF PacedWatch
<1> HIDE DEF r
<1> QED
  BY <1>2, <1>3, <1>5, SendPaced, ClosePaced DEF OnWatchStreamOpen

\* A message of the backend, with whatever follows from it.
LEMMA MessagePaced ==
  ASSUME NEW w, PacedWatch(w), NEW t
  PROVE  /\ PacedWatch(MessageArrives(w))
         /\ PacedWatch(ProcessTargetError(MessageArrives(w), t))
         /\ PacedWatch(ResetMismatch(MessageArrives(w), t))
<1> DEFINE m == MessageArrives(w)
           k == w.ok /\ IsStarted(w.stream) /\ w.aggregator
           x == ResetBackoff(w.stream)
           o == UpdateState(w.online, "Online")
<1>1. Rested(x)
  BY ResetRested DEF PacedWatch
<1>2. m = [w EXCEPT !.ok = k, !.stream = x, !.online = o]
  BY DEF MessageArrives
<1>3. PacedWatch(m)
  <2> HIDE DEF k, x, o, m
  <2> QED
    BY <1>1, <1>2 DEF PacedWatch
<1> HIDE DEF m
<1>4. PacedWatch(ProcessTargetError(m, t))
  BY <1>3 DEF ProcessTargetError, PacedWatch
<1>5. PacedWatch(ResetMismatch(m, t))
  BY <1>3, SendPaced DEF ResetMismatch
<1> QED
  BY <1>3, <1>4, <1>5 DEF m

\* RemoteStore::Listen.
LEMMA ListenPaced ==
  ASSUME NEW w, PacedWatch(w), NEW up, NEW t
  PROVE  PacedWatch(ListenTarget(w, up, t))
<1> DEFINE v == [w EXCEPT !.targets = @ \cup {t}]
<1>1. PacedWatch(v)
  BY DEF PacedWatch
<1>2. ListenTarget(w, up, t) =
        IF t \in w.targets THEN w
        ELSE IF ShouldStartWatchStream(v, up) THEN StartWatchStream(v, up)
        ELSE IF IsOpen(v.stream) THEN SendRequest(v)
        ELSE v
  BY DEF ListenTarget
<1> HIDE DEF v
<1> QED
  BY <1>1, <1>2, StartWatchPaced, SendPaced

\* RemoteStore::StopListening.
LEMMA StopListeningPaced ==
  ASSUME NEW w, PacedWatch(w), NEW up, NEW t
  PROVE  PacedWatch(StopListeningTarget(w, up, t))
<1> DEFINE k == w.ok /\ t \in w.targets
           v == [w EXCEPT !.ok = k, !.targets = @ \ {t}]
           u == IF IsOpen(v.stream) THEN SendRequest(v) ELSE v
           i == [u EXCEPT !.stream = MarkIdle(@)]
           o == [u EXCEPT !.online = UpdateState(@, "Unknown")]
<1>1. StopListeningTarget(w, up, t) =
        IF u.targets # {} THEN u
        ELSE IF IsOpen(u.stream) THEN i ELSE IF up THEN o ELSE u
  BY DEF StopListeningTarget
<1> HIDE DEF k
<1>2. PacedWatch(v)
  BY OtherFieldsPaced
<1> HIDE DEF v
<1>3. PacedWatch(u)
  BY <1>2, SendPaced
<1> HIDE DEF u
<1>4. PacedWatch(i) /\ PacedWatch(o)
  BY <1>3, MarkIdleRested DEF PacedWatch
<1> HIDE DEF i, o
<1> QED
  BY <1>1, <1>3, <1>4

\* EnableNetwork.
LEMMA EnablePaced == ASSUME NEW w, PacedWatch(w) PROVE PacedWatch(EnableWatch(w))
<1> DEFINE u == [w EXCEPT !.online = UpdateState(@, "Unknown")]
<1>1. PacedWatch(u)
  BY DEF PacedWatch
<1>2. EnableWatch(w) = IF ShouldStartWatchStream(w, TRUE)
                       THEN StartWatchStream(w, TRUE) ELSE u
  BY DEF EnableWatch
<1> HIDE DEF u
<1> QED
  BY <1>1, <1>2, StartWatchPaced

\* DisableNetwork and Shutdown.
LEMMA DisablePaced ==
  ASSUME NEW w, PacedWatch(w), NEW st PROVE PacedWatch(DisableWatch(w, st))
<1> DEFINE d == StopWatch(w, FALSE)
<1>1. PacedWatch(d)
  BY StopPaced
<1>2. DisableWatch(w, st) = [d EXCEPT !.aggregator = FALSE, !.online = UpdateState(@, st)]
  BY DEF DisableWatch
<1> HIDE DEF d
<1> QED
  BY <1>1, <1>2 DEF PacedWatch

\* RestartNetwork.
LEMMA RestartPaced == ASSUME NEW w, PacedWatch(w) PROVE PacedWatch(RestartWatch(w))
<1> DEFINE d == DisableWatch(w, "Unknown")
           i == [d EXCEPT !.stream = InhibitBackoff(@)]
<1>1. PacedWatch(d)
  BY DisablePaced
<1>2. RestartWatch(w) = EnableWatch(i)
  BY DEF RestartWatch
<1> HIDE DEF d
<1>3. Rested(InhibitBackoff(d.stream))
  BY <1>1, InhibitRested DEF PacedWatch
<1>4. PacedWatch(i)
  BY <1>1, <1>3 DEF PacedWatch
<1> HIDE DEF i
<1> QED
  BY <1>2, <1>4, EnablePaced

-----------------------------------------------------------------------------
(* The write half *)

\* A mutation queue: ids that ascend.
Ascends(q) ==
  /\ q \in Seq(BatchIds)
  /\ \A i, j \in 1..Len(q) : i < j => q[i] < q[j]

\* What the current call owes an answer for, in order: the messages answered but
\* not read, and those the backend has not processed.
InFlight(responses, requests, owed) ==
  /\ Len(responses) + Len(requests) = Len(owed)
  /\ \A i \in 1..Len(responses) : responses[i].for = owed[i]
  /\ \A i \in 1..Len(requests) : requests[i] = owed[Len(responses) + i]

\* An open call owes an answer for the handshake, and then for every write of
\* the pipeline; nothing is in flight without one.
CallInv(p) ==
  IF IsOpen(p.stream)
  THEN InFlight(p.responses, p.requests, IF p.handshake THEN p.pipeline ELSE <<Handshake>>)
  ELSE p.requests = <<>> /\ p.responses = <<>>

\* A write half while it is being changed.
Sound(p) ==
  /\ p \in WriteRecord
  /\ GoodStream(p.stream)
  /\ p.ok
  /\ p.stream.idle => p.pipeline = <<>>
  /\ IsStarted(p.stream) /\ ~p.handshake => p.pipeline # <<>>
  /\ CallInv(p)

\* A write half between two operations. The pipeline starts its stream.
PipelineInv(p, up) ==
  /\ Sound(p)
  /\ p.handshake => IsOpen(p.stream)
  /\ IsStarted(p.stream) => up
  /\ up /\ p.pipeline # <<>> => IsStarted(p.stream)

\* The pipeline is the beginning of the queue, as far as there is room.
Room(q, up) == IF up THEN Min({Len(q), MaxPendingWrites}) ELSE 0

Loaded(p, q, up) == p.pipeline = SubSeq(q, 1, Room(q, up))

-----------------------------------------------------------------------------
(* Sequences *)

LEMMA MinOfTwo ==
  ASSUME NEW a \in Int, NEW b \in Int
  PROVE  Min({a, b}) = IF a <= b THEN a ELSE b
BY DEF Min

LEMMA RoomIsNat ==
  ASSUME NEW q, Ascends(q), NEW up \in BOOLEAN
  PROVE  /\ Room(q, up) \in 0..Len(q)
         /\ Room(q, up) <= MaxPendingWrites
         /\ up /\ q # <<>> => Room(q, up) > 0
<1>1. Len(q) \in Nat /\ (q # <<>> => Len(q) > 0)
  BY DEF Ascends
<1>2. MaxPendingWrites \in Nat \ {0}
  BY MaxPendingWritesAssumption
<1>3. Min({Len(q), MaxPendingWrites}) =
        IF Len(q) <= MaxPendingWrites THEN Len(q) ELSE MaxPendingWrites
  BY <1>1, <1>2, MinOfTwo
<1> QED
  BY <1>1, <1>2, <1>3 DEF Room

\* The beginning of a queue.
LEMMA PrefixOf ==
  ASSUME NEW S, NEW q \in Seq(S), NEW k \in 0..Len(q)
  PROVE  /\ SubSeq(q, 1, k) \in Seq(S)
         /\ Len(SubSeq(q, 1, k)) = k
         /\ \A i \in 1..k : SubSeq(q, 1, k)[i] = q[i]
<1>1. \A i \in 1..k : q[i] \in S
  OBVIOUS
<1> QED
  BY <1>1, SubSeqProperties

\* NextMutationBatchAfterBatchId skips exactly the batches of the pipeline.
LEMMA PositionOfLast ==
  ASSUME NEW q, Ascends(q), NEW k \in 0..Len(q)
  PROVE  Position(q, IF k = 0 THEN 0 ELSE q[k]) = k
<1> DEFINE last == IF k = 0 THEN 0 ELSE q[k]
           Is(i) == /\ \A j \in 1..i : q[j] <= last
                    /\ \A j \in (i + 1)..Len(q) : q[j] > last
<1>1. Len(q) \in Nat /\ \A i \in 1..Len(q) : q[i] \in Nat /\ q[i] > 0
  BY DEF Ascends, BatchIds
<1>2. last \in Nat
  BY <1>1
<1>3. Is(k)
  <2>1. ASSUME NEW j \in 1..k PROVE q[j] <= last
    <3>1. j \in 1..Len(q) /\ k \in 1..Len(q) /\ k # 0
      OBVIOUS
    <3>2. j < k => q[j] < q[k]
      BY <3>1 DEF Ascends
    <3> QED
      BY <1>1, <3>1, <3>2
  <2>2. ASSUME NEW j \in (k + 1)..Len(q) PROVE q[j] > last
    <3>1. j \in 1..Len(q)
      BY <1>1
    <3>2. k # 0 => k \in 1..Len(q) /\ q[k] < q[j]
      BY <1>1, <3>1 DEF Ascends
    <3> QED
      BY <1>1, <3>1, <3>2
  <2> QED
    BY <2>1, <2>2
<1>4. ASSUME NEW i \in 0..Len(q), Is(i) PROVE i = k
  <2>1. ~(i < k)
    <3> SUFFICES ASSUME i < k PROVE FALSE
      OBVIOUS
    <3>1. k \in (i + 1)..Len(q) /\ k # 0 /\ k \in 1..Len(q)
      BY <1>1
    <3>2. q[k] > last /\ q[k] \in Nat
      BY <1>1, <1>4, <3>1
    <3> QED
      BY <3>1, <3>2
  <2>2. ~(k < i)
    <3> SUFFICES ASSUME k < i PROVE FALSE
      OBVIOUS
    <3>1. i \in 1..i /\ i \in (k + 1)..Len(q) /\ i \in 1..Len(q)
      BY <1>1
    <3>2. q[i] <= last /\ q[i] > last /\ q[i] \in Nat
      BY <1>1, <1>3, <1>4, <3>1
    <3> QED
      BY <1>2, <3>2
  <2> QED
    BY <2>1, <2>2
<1>5. Position(q, last) = CHOOSE i \in 0..Len(q) : Is(i)
  BY DEF Position
<1> HIDE DEF Is
<1> QED
  BY <1>3, <1>4, <1>5

\* The loop of FillWritePipeline continues the queue where the pipeline ends.
LEMMA NextBatchesContinue ==
  ASSUME NEW p, NEW q, Ascends(q), NEW up \in BOOLEAN,
         NEW k \in 0..Len(q), p.pipeline = SubSeq(q, 1, k),
         k <= MaxPendingWrites, ~up => k = 0
  PROVE  /\ NextBatches(p, up, q) \in Seq(BatchIds)
         /\ p.pipeline \o NextBatches(p, up, q) = SubSeq(q, 1, Room(q, up))
<1> DEFINE last == IF p.pipeline = <<>> THEN 0 ELSE Last(p.pipeline)
           room == IF up THEN MaxPendingWrites - Len(p.pipeline) ELSE 0
           m    == Room(q, up)
<1>1. q \in Seq(BatchIds) /\ Len(q) \in Nat
  BY DEF Ascends
<1>2. MaxPendingWrites \in Nat \ {0}
  BY MaxPendingWritesAssumption
<1>3. /\ p.pipeline \in Seq(BatchIds) /\ Len(p.pipeline) = k
      /\ \A i \in 1..k : p.pipeline[i] = q[i]
  BY <1>1, PrefixOf
<1>4. last = IF k = 0 THEN 0 ELSE q[k]
  <2>1. p.pipeline = <<>> <=> k = 0
    BY <1>3, EmptySeq
  <2>2. k # 0 => Last(p.pipeline) = q[k]
    BY <1>3 DEF Last
  <2> QED
    BY <2>1, <2>2
<1>5. Position(q, last) = k
  BY <1>4, PositionOfLast
<1>6. NextBatches(p, up, q) = SubSeq(q, k + 1, Min({Len(q), k + 1 + room - 1}))
  BY <1>5 DEF NextBatches
<1> DEFINE end == k + 1 + room - 1
<1>7. Min({Len(q), end}) = m /\ m \in k..Len(q)
  <2>1. CASE up
    <3>1. end = MaxPendingWrites
      BY <1>2, <1>3, <2>1
    <3> HIDE DEF end
    <3>2. Min({Len(q), MaxPendingWrites}) =
            IF Len(q) <= MaxPendingWrites THEN Len(q) ELSE MaxPendingWrites
      BY <1>1, <1>2, MinOfTwo
    <3> QED
      BY <1>1, <1>2, <2>1, <3>1, <3>2 DEF Room
  <2>2. CASE ~up
    <3>1. k = 0 /\ end = 0
      BY <2>2
    <3> HIDE DEF end
    <3>2. Min({Len(q), 0}) = IF Len(q) <= 0 THEN Len(q) ELSE 0
      BY <1>1, MinOfTwo
    <3> QED
      BY <1>1, <2>2, <3>1, <3>2 DEF Room
  <2> QED
    BY <2>1, <2>2
<1>8. SubSeq(q, 1, k) \o SubSeq(q, k + 1, m) = SubSeq(q, 1, m)
  <2> HIDE DEF m
  <2>1. 1 \in 1..(Len(q) + 1) /\ k \in (1 - 1)..Len(q)
    BY <1>1
  <2> QED
    BY <1>1, <1>7, <2>1, ConcatAdjacentSubSeq
<1>9. \A i \in (k + 1)..m : q[i] \in BatchIds
  BY <1>1, <1>7
<1>10. SubSeq(q, k + 1, m) \in Seq(BatchIds)
  BY <1>1, <1>7, <1>9, SubSeqProperties
<1> QED
  BY <1>6, <1>7, <1>8, <1>10

\* What is sent behind the messages under way, and owed behind those owed.
LEMMA InFlightMore ==
  ASSUME NEW U, NEW responses, Len(responses) \in Nat, NEW requests \in Seq(U),
         NEW owed \in Seq(U), InFlight(responses, requests, owed), NEW more \in Seq(U)
  PROVE  InFlight(responses, requests \o more, owed \o more)
<1> DEFINE n == Len(responses)
           m == Len(requests)
           l == Len(more)
<1>1. n \in Nat /\ m \in Nat /\ l \in Nat /\ Len(owed) = n + m
  BY DEF InFlight
<1>2. /\ Len(requests \o more) = m + l
      /\ \A i \in 1..(m + l) : (requests \o more)[i] =
           IF i <= m THEN requests[i] ELSE more[i - m]
  BY ConcatProperties
<1>3. /\ Len(owed \o more) = n + m + l
      /\ \A i \in 1..(n + m + l) : (owed \o more)[i] =
           IF i <= n + m THEN owed[i] ELSE more[i - (n + m)]
  <2>1. /\ Len(owed \o more) = Len(owed) + l
        /\ \A i \in 1..(Len(owed) + l) : (owed \o more)[i] =
             IF i <= Len(owed) THEN owed[i] ELSE more[i - Len(owed)]
    BY ConcatProperties
  <2> HIDE DEF n, m, l
  <2> QED
    BY <1>1, <2>1
<1>4. /\ \A i \in 1..n : responses[i].for = owed[i]
      /\ \A i \in 1..m : requests[i] = owed[n + i]
  BY DEF InFlight
<1> HIDE DEF n, m, l
<1>5. ASSUME NEW i \in 1..n PROVE responses[i].for = (owed \o more)[i]
  <2>1. i \in 1..(n + m + l) /\ i <= n + m
    BY <1>1
  <2> QED
    BY <1>3, <1>4, <2>1
<1>6. ASSUME NEW i \in 1..(m + l) PROVE (requests \o more)[i] = (owed \o more)[n + i]
  <2>1. n + i \in 1..(n + m + l) /\ (i <= m <=> n + i <= n + m)
        /\ (n + i) - (n + m) = i - m /\ (i <= m => i \in 1..m)
    BY <1>1
  <2> QED
    BY <1>2, <1>3, <1>4, <2>1
<1> QED
  BY <1>1, <1>2, <1>3, <1>5, <1>6 DEF InFlight, n, m, l

-----------------------------------------------------------------------------
(* Starting the stream and sending *)

\* A write half whose stream rests has no call.
LEMMA RestingIsClosed ==
  ASSUME NEW s, ~IsStarted(s) PROVE ~IsOpen(s)
BY DEF IsStarted

\* StartWriteStream, when its assertion holds.
LEMMA StartSound ==
  ASSUME NEW p, Sound(p), NEW up \in BOOLEAN, ShouldStartWriteStream(p, up)
  PROVE  LET r == StartWriteStream(p, up)
         IN  /\ Sound(r)
             /\ IsStarted(r.stream) /\ ~IsOpen(r.stream)
             /\ r.pipeline = p.pipeline /\ r.handshake = p.handshake
             /\ r.token = p.token /\ r.responses = p.responses
<1> DEFINE t == StartStream(p.stream)
           r == StartWriteStream(p, up)
<1>1. up /\ ~IsStarted(p.stream) /\ p.pipeline # <<>>
  BY DEF ShouldStartWriteStream
<1>2. GoodStream(t) /\ IsStarted(t) /\ ~IsOpen(t) /\ ~t.idle
  BY <1>1, StartStreamGood DEF Sound
<1>3. t \in StreamRecord
  BY <1>2 DEF GoodStream
<1>4. r = [p EXCEPT !.ok = TRUE, !.stream = t]
  BY DEF StartWriteStream, Sound, WriteRecord
<1> HIDE DEF t
<1>5. /\ r \in WriteRecord /\ r.stream = t /\ r.ok
      /\ r.pipeline = p.pipeline /\ r.handshake = p.handshake /\ r.token = p.token
      /\ r.responses = p.responses /\ r.requests = p.requests
  BY <1>3, <1>4 DEF Sound, WriteRecord
<1> HIDE DEF r
<1>6. CallInv(r)
  BY <1>1, <1>2, <1>5, RestingIsClosed DEF CallInv, Sound
<1> QED
  BY <1>1, <1>2, <1>5, <1>6 DEF Sound, r

\* MaybeStartWriteStream: a pipeline with writes ends up with a stream.
LEMMA MaybeStartSound ==
  ASSUME NEW p, Sound(p), NEW up \in BOOLEAN, IsStarted(p.stream) => up
  PROVE  LET r == MaybeStartWriteStream(p, up)
         IN  /\ Sound(r)
             /\ IsStarted(r.stream) => up
             /\ up /\ r.pipeline # <<>> => IsStarted(r.stream)
             /\ IsStarted(r.stream) => IsStarted(p.stream) \/ r.pipeline # <<>>
             /\ IsOpen(r.stream) <=> IsOpen(p.stream)
             /\ r.pipeline = p.pipeline /\ r.handshake = p.handshake
             /\ r.token = p.token /\ r.responses = p.responses
<1>1. CASE ShouldStartWriteStream(p, up)
  <2> DEFINE r == StartWriteStream(p, up)
  <2>1. MaybeStartWriteStream(p, up) = r
    BY <1>1 DEF MaybeStartWriteStream
  <2>2. /\ Sound(r) /\ IsStarted(r.stream) /\ ~IsOpen(r.stream)
        /\ r.pipeline = p.pipeline /\ r.handshake = p.handshake
        /\ r.token = p.token /\ r.responses = p.responses
    BY <1>1, StartSound
  <2>3. up /\ p.pipeline # <<>> /\ ~IsOpen(p.stream)
    BY <1>1, RestingIsClosed DEF ShouldStartWriteStream
  <2> HIDE DEF r
  <2> QED
    BY <2>1, <2>2, <2>3
<1>2. CASE ~ShouldStartWriteStream(p, up)
  BY <1>2 DEF MaybeStartWriteStream, ShouldStartWriteStream
<1> QED
  BY <1>1, <1>2

\* Messages are sent on an open stream.
LEMMA SendOpen ==
  ASSUME NEW p, p \in WriteRecord, GoodStream(p.stream), IsOpen(p.stream),
         NEW msgs \in Seq(BatchIds \cup {Handshake})
  PROVE  LET r == Send(p, msgs)
         IN  /\ r \in WriteRecord /\ GoodStream(r.stream) /\ IsOpen(r.stream)
             /\ r.stream.idle => msgs = <<>> /\ p.stream.idle
             /\ r.requests = p.requests \o msgs
             /\ r.pipeline = p.pipeline /\ r.handshake = p.handshake
             /\ r.token = p.token /\ r.responses = p.responses /\ r.ok = p.ok
<1> DEFINE t == Write(p.stream)
           r == Send(p, msgs)
<1>1. CASE msgs = <<>>
  <2>1. r = p
    BY <1>1 DEF Send
  <2>2. p.requests \o <<>> = p.requests
    BY ConcatEmptySeq DEF WriteRecord
  <2> QED
    BY <1>1, <2>1, <2>2
<1>2. CASE msgs # <<>>
  <2>1. GoodStream(t) /\ t.state = p.stream.state /\ ~t.idle
    BY WriteGood
  <2>2. t \in StreamRecord /\ IsOpen(t)
    BY <2>1 DEF GoodStream, IsOpen
  <2> HIDE DEF t
  <2>3. r = [p EXCEPT !.requests = p.requests \o msgs, !.stream = t]
    BY <1>2 DEF Send, t
  <2>4. p.requests \o msgs \in Seq(BatchIds \cup {Handshake})
    BY ConcatProperties DEF WriteRecord
  <2>5. /\ r \in WriteRecord /\ r.stream = t /\ r.requests = p.requests \o msgs
        /\ r.pipeline = p.pipeline /\ r.handshake = p.handshake /\ r.token = p.token
        /\ r.responses = p.responses /\ r.ok = p.ok
    BY <2>2, <2>3, <2>4 DEF WriteRecord
  <2> HIDE DEF r
  <2> QED
    BY <2>1, <2>2, <2>5 DEF r
<1> QED
  BY <1>1, <1>2

\* AddToWritePipeline sends what it adds when the handshake is complete.
LEMMA AddSound ==
  ASSUME NEW p, Sound(p), NEW b \in Seq(BatchIds)
  PROVE  LET r == AddToWritePipeline(p, b)
         IN  /\ Sound(r)
             /\ r.pipeline = p.pipeline \o b
             /\ IsOpen(r.stream) <=> IsOpen(p.stream)
             /\ IsStarted(r.stream) <=> IsStarted(p.stream)
             /\ r.handshake = p.handshake
             /\ r.token = p.token /\ r.responses = p.responses
<1> DEFINE a == [p EXCEPT !.pipeline = p.pipeline \o b]
           r == AddToWritePipeline(p, b)
<1>1. p.pipeline \in Seq(BatchIds) /\ p.pipeline \o b \in Seq(BatchIds)
  BY ConcatProperties DEF Sound, WriteRecord
<1>2. /\ a \in WriteRecord /\ a.stream = p.stream /\ a.pipeline = p.pipeline \o b
      /\ a.handshake = p.handshake /\ a.token = p.token /\ a.ok
      /\ a.responses = p.responses /\ a.requests = p.requests
  BY <1>1 DEF Sound, WriteRecord
<1>3. r = IF IsOpen(p.stream) /\ p.handshake THEN Send(a, b) ELSE a
  BY <1>2 DEF AddToWritePipeline
<1>4. p.pipeline # <<>> => p.pipeline \o b # <<>>
  BY <1>1, ConcatEqualIffEmpty
<1> HIDE DEF a, r
<1>5. CASE IsOpen(p.stream) /\ p.handshake
  <2>1. b \in Seq(BatchIds \cup {Handshake})
    BY SeqMonotonic
  <2>2. a \in WriteRecord /\ GoodStream(a.stream) /\ IsOpen(a.stream)
    BY <1>2, <1>5 DEF Sound
  <2>3. r = Send(a, b)
    BY <1>3, <1>5
  <2>4. /\ r \in WriteRecord /\ GoodStream(r.stream) /\ IsOpen(r.stream)
        /\ r.stream.idle => b = <<>> /\ a.stream.idle
        /\ r.requests = a.requests \o b /\ r.pipeline = a.pipeline
        /\ r.handshake = a.handshake /\ r.token = a.token
        /\ r.responses = a.responses /\ r.ok = a.ok
    BY <2>1, <2>2, <2>3, SendOpen
  <2>5. r.stream.idle => r.pipeline = <<>>
    <3>1. p.stream.idle => p.pipeline = <<>>
      BY DEF Sound
    <3>2. <<>> \o <<>> = <<>>
      OBVIOUS
    <3> QED
      BY <1>2, <2>4, <3>1, <3>2
  <2>6. InFlight(r.responses, r.requests, r.pipeline)
    <3>1. InFlight(p.responses, p.requests, p.pipeline)
      BY <1>5 DEF Sound, CallInv
    <3>2. /\ p.requests \in Seq(BatchIds \cup {Handshake})
          /\ p.pipeline \in Seq(BatchIds \cup {Handshake})
          /\ Len(p.responses) \in Nat
      BY <1>1, SeqMonotonic DEF Sound, WriteRecord
    <3>3. InFlight(p.responses, p.requests \o b, p.pipeline \o b)
      BY <2>1, <3>1, <3>2, InFlightMore
    <3> QED
      BY <1>2, <2>4, <3>3
  <2>7. IsStarted(r.stream) /\ IsStarted(p.stream)
    BY <1>5, <2>4 DEF IsStarted
  <2>8. CallInv(r)
    BY <1>2, <1>5, <2>4, <2>6 DEF CallInv
  <2> QED
    BY <1>2, <1>5, <2>4, <2>5, <2>7, <2>8 DEF Sound, r
<1>6. CASE ~(IsOpen(p.stream) /\ p.handshake)
  <2>1. r = a
    BY <1>3, <1>6
  <2>2. ~p.stream.idle
    BY <1>6 DEF Sound, GoodStream, StreamInv, IsStarted
  <2>3. CallInv(r)
    BY <1>2, <1>6, <2>1 DEF CallInv, Sound
  <2> QED
    BY <1>2, <1>4, <2>1, <2>2, <2>3 DEF Sound, r
<1> QED
  BY <1>5, <1>6

\* FillWritePipeline, from a pipeline that is any beginning of the queue.
LEMMA FillSound ==
  ASSUME NEW p, Sound(p), NEW up \in BOOLEAN, IsStarted(p.stream) => up,
         NEW q, Ascends(q), NEW k \in 0..Len(q), p.pipeline = SubSeq(q, 1, k),
         k <= MaxPendingWrites, ~up => k = 0
  PROVE  LET r == FillWritePipeline(p, up, q)
         IN  /\ Sound(r) /\ Loaded(r, q, up)
             /\ IsStarted(r.stream) => up
             /\ up /\ r.pipeline # <<>> => IsStarted(r.stream)
             /\ IsStarted(r.stream) => IsStarted(p.stream) \/ r.pipeline # <<>>
             /\ IsOpen(r.stream) <=> IsOpen(p.stream)
             /\ r.handshake = p.handshake
             /\ r.token = p.token /\ r.responses = p.responses
<1> DEFINE f == AddToWritePipeline(p, NextBatches(p, up, q))
           g == IF up /\ f.pipeline = <<>>
                THEN [f EXCEPT !.stream = MarkIdle(@)] ELSE f
<1>1. /\ Sound(f) /\ f.pipeline = SubSeq(q, 1, Room(q, up))
      /\ IsOpen(f.stream) <=> IsOpen(p.stream)
      /\ IsStarted(f.stream) <=> IsStarted(p.stream)
      /\ f.handshake = p.handshake /\ f.token = p.token /\ f.responses = p.responses
  <2> DEFINE b == NextBatches(p, up, q)
  <2>1. b \in Seq(BatchIds) /\ p.pipeline \o b = SubSeq(q, 1, Room(q, up))
    BY NextBatchesContinue
  <2> HIDE DEF b
  <2>2. f = AddToWritePipeline(p, b)
    BY DEF b
  <2> HIDE DEF f
  <2>3. /\ Sound(f) /\ f.pipeline = p.pipeline \o b
        /\ IsOpen(f.stream) <=> IsOpen(p.stream)
        /\ IsStarted(f.stream) <=> IsStarted(p.stream)
        /\ f.handshake = p.handshake /\ f.token = p.token /\ f.responses = p.responses
    BY <2>1, <2>2, AddSound
  <2> QED
    BY <2>1, <2>3
<1> HIDE DEF f
<1>2. /\ Sound(g) /\ g.pipeline = f.pipeline
      /\ IsOpen(g.stream) <=> IsOpen(f.stream)
      /\ IsStarted(g.stream) <=> IsStarted(f.stream)
      /\ g.handshake = f.handshake /\ g.token = f.token /\ g.responses = f.responses
  <2>1. CASE up /\ f.pipeline = <<>>
    <3> DEFINE t == MarkIdle(f.stream)
    <3>1. GoodStream(t) /\ t.state = f.stream.state
      BY <1>1, MarkIdleGood DEF Sound
    <3>2. t \in StreamRecord /\ (IsOpen(t) <=> IsOpen(f.stream))
          /\ (IsStarted(t) <=> IsStarted(f.stream))
      BY <3>1 DEF GoodStream, IsOpen, IsStarted
    <3> HIDE DEF t
    <3>3. g = [f EXCEPT !.stream = t]
      BY <2>1 DEF t
    <3>4. /\ g \in WriteRecord /\ g.stream = t /\ g.pipeline = f.pipeline
          /\ g.handshake = f.handshake /\ g.token = f.token /\ g.ok
          /\ g.responses = f.responses /\ g.requests = f.requests
      BY <1>1, <3>2, <3>3 DEF Sound, WriteRecord
    <3> HIDE DEF g
    <3>5. CallInv(g)
      BY <1>1, <3>2, <3>4 DEF Sound, CallInv
    <3> QED
      BY <1>1, <2>1, <3>1, <3>2, <3>4, <3>5 DEF Sound
  <2>2. CASE ~(up /\ f.pipeline = <<>>)
    BY <1>1, <2>2
  <2> QED
    BY <2>1, <2>2
<1>3. FillWritePipeline(p, up, q) = MaybeStartWriteStream(g, up)
  BY DEF FillWritePipeline, f
<1> HIDE DEF g
<1> QED
  BY <1>1, <1>2, <1>3, MaybeStartSound DEF Loaded

-----------------------------------------------------------------------------
(* Queues *)

LEMMA TailAscends ==
  ASSUME NEW q, Ascends(q), q # <<>>
  PROVE  Ascends(Tail(q)) /\ Len(Tail(q)) = Len(q) - 1
<1>1. /\ Tail(q) \in Seq(BatchIds) /\ Len(Tail(q)) = Len(q) - 1 /\ Len(q) \in Nat
      /\ \A i \in 1..Len(Tail(q)) : Tail(q)[i] = q[i + 1]
  BY HeadTailProperties DEF Ascends
<1>2. ASSUME NEW i \in 1..Len(Tail(q)), NEW j \in 1..Len(Tail(q)), i < j
      PROVE  Tail(q)[i] < Tail(q)[j]
  <2>1. i + 1 \in 1..Len(q) /\ j + 1 \in 1..Len(q) /\ i + 1 < j + 1
    BY <1>1, <1>2
  <2>2. q[i + 1] < q[j + 1]
    BY <2>1 DEF Ascends
  <2> QED
    BY <1>1, <2>2
<1> QED
  BY <1>1, <1>2 DEF Ascends

\* Taking the first batch off the queue and off its beginning.
LEMMA TailOfPrefix ==
  ASSUME NEW S, NEW q \in Seq(S), NEW k \in 1..Len(q)
  PROVE  /\ SubSeq(q, 1, k) # <<>> /\ q # <<>>
         /\ Head(SubSeq(q, 1, k)) = Head(q)
         /\ Tail(SubSeq(q, 1, k)) = SubSeq(Tail(q), 1, k - 1)
<1>1. /\ SubSeq(q, 1, k) \in Seq(S) /\ Len(SubSeq(q, 1, k)) = k
      /\ \A i \in 1..k : SubSeq(q, 1, k)[i] = q[i]
  BY PrefixOf
<1>2. SubSeq(q, 1, k) # <<>> /\ q # <<>>
  BY <1>1, EmptySeq
<1>3. /\ Tail(q) \in Seq(S) /\ Len(Tail(q)) = Len(q) - 1 /\ Len(q) \in Nat
      /\ \A i \in 1..Len(Tail(q)) : Tail(q)[i] = q[i + 1]
  BY <1>2, HeadTailProperties
<1>4. /\ Tail(SubSeq(q, 1, k)) \in Seq(S) /\ Len(Tail(SubSeq(q, 1, k))) = k - 1
      /\ \A i \in 1..(k - 1) : Tail(SubSeq(q, 1, k))[i] = SubSeq(q, 1, k)[i + 1]
  <2> DEFINE s == SubSeq(q, 1, k)
  <2> HIDE DEF s
  <2>1. s \in Seq(S) /\ Len(s) = k /\ s # <<>>
    BY <1>1, <1>2 DEF s
  <2>2. /\ Tail(s) \in Seq(S) /\ Len(Tail(s)) = Len(s) - 1
        /\ \A i \in 1..Len(Tail(s)) : Tail(s)[i] = s[i + 1]
    BY <2>1, HeadTailProperties
  <2> QED
    BY <2>1, <2>2 DEF s
<1>5. k - 1 \in 0..Len(Tail(q))
  BY <1>3
<1>6. /\ SubSeq(Tail(q), 1, k - 1) \in Seq(S) /\ Len(SubSeq(Tail(q), 1, k - 1)) = k - 1
      /\ \A i \in 1..(k - 1) : SubSeq(Tail(q), 1, k - 1)[i] = Tail(q)[i]
  BY <1>3, <1>5, PrefixOf
<1>7. ASSUME NEW i \in 1..(k - 1)
      PROVE  Tail(SubSeq(q, 1, k))[i] = SubSeq(Tail(q), 1, k - 1)[i]
  <2>1. i + 1 \in 1..k /\ i \in 1..Len(Tail(q))
    BY <1>3
  <2> QED
    BY <1>1, <1>3, <1>4, <1>6, <2>1
<1>8. Tail(SubSeq(q, 1, k)) = SubSeq(Tail(q), 1, k - 1)
  <2> DEFINE s == Tail(SubSeq(q, 1, k))
             t == SubSeq(Tail(q), 1, k - 1)
  <2>1. s \in Seq(S) /\ t \in Seq(S) /\ Len(s) = Len(t) /\ \A i \in 1..Len(s) : s[i] = t[i]
    BY <1>4, <1>6, <1>7
  <2> HIDE DEF s, t
  <2>2. s = t
    BY <2>1, SeqEqual
  <2> QED
    BY <2>2 DEF s, t
<1>9. Head(SubSeq(q, 1, k)) = Head(q)
  BY <1>1, <1>2
<1> QED
  BY <1>2, <1>8, <1>9

-----------------------------------------------------------------------------
(* Answers *)

\* The backend processes the next message and answers it, or rejects it.
LEMMA AnswerSound ==
  ASSUME NEW p, NEW up \in BOOLEAN, PipelineInv(p, up), p.requests # <<>>,
         NEW r \in Responses, r.for = Head(p.requests)
  PROVE  LET a == [p EXCEPT !.requests = Tail(@), !.responses = Append(@, r)]
         IN  /\ PipelineInv(a, up)
             /\ a.pipeline = p.pipeline /\ a.stream = p.stream
             /\ a.handshake = p.handshake /\ a.token = p.token
<1> DEFINE a == [p EXCEPT !.requests = Tail(@), !.responses = Append(@, r)]
<1>1. /\ p.requests \in Seq(BatchIds \cup {Handshake}) /\ p.responses \in Seq(Responses)
      /\ Len(p.requests) \in Nat /\ Len(p.responses) \in Nat
  BY DEF PipelineInv, Sound, WriteRecord
<1>2. /\ Tail(p.requests) \in Seq(BatchIds \cup {Handshake})
      /\ Len(Tail(p.requests)) = Len(p.requests) - 1
      /\ Len(p.requests) > 0
      /\ \A i \in 1..Len(Tail(p.requests)) : Tail(p.requests)[i] = p.requests[i + 1]
      /\ Head(p.requests) = p.requests[1]
  BY <1>1, HeadTailProperties
<1>3. /\ Append(p.responses, r) \in Seq(Responses)
      /\ Len(Append(p.responses, r)) = Len(p.responses) + 1
      /\ \A i \in 1..Len(p.responses) : Append(p.responses, r)[i] = p.responses[i]
      /\ Append(p.responses, r)[Len(p.responses) + 1] = r
  BY <1>1, AppendProperties
<1>4. /\ a \in WriteRecord /\ a.stream = p.stream /\ a.pipeline = p.pipeline
      /\ a.handshake = p.handshake /\ a.token = p.token /\ a.ok = p.ok
      /\ a.requests = Tail(p.requests) /\ a.responses = Append(p.responses, r)
  BY <1>2, <1>3 DEF PipelineInv, Sound, WriteRecord
<1> HIDE DEF a
<1>5. ASSUME NEW owed, InFlight(p.responses, p.requests, owed)
      PROVE  InFlight(a.responses, a.requests, owed)
  <2>4. /\ Len(p.responses) + Len(p.requests) = Len(owed)
        /\ \A i \in 1..Len(p.responses) : p.responses[i].for = owed[i]
        /\ \A i \in 1..Len(p.requests) : p.requests[i] = owed[Len(p.responses) + i]
    BY <1>5 DEF InFlight
  <2>5. /\ Len(a.responses) = Len(p.responses) + 1
        /\ Len(a.requests) = Len(p.requests) - 1
    BY <1>2, <1>3, <1>4
  <2>1. Len(a.responses) + Len(a.requests) = Len(owed)
    <3> DEFINE n == Len(p.responses)
               m == Len(p.requests)
    <3>1. n \in Nat /\ m \in Nat /\ n + m = Len(owed)
          /\ Len(a.responses) = n + 1 /\ Len(a.requests) = m - 1
      BY <1>1, <2>4, <2>5
    <3> HIDE DEF n, m
    <3>2. (n + 1) + (m - 1) = n + m
      BY <3>1
    <3> QED
      BY <3>1, <3>2
  <2>2. ASSUME NEW i \in 1..Len(a.responses) PROVE a.responses[i].for = owed[i]
    <3>1. CASE i = Len(p.responses) + 1
      <4>1. 1 \in 1..Len(p.requests)
        BY <1>1, <1>2
      <4>2. p.requests[1] = owed[Len(p.responses) + 1]
        BY <2>4, <4>1
      <4>3. a.responses[i] = r
        BY <1>3, <1>4, <3>1
      <4> QED
        BY <1>2, <3>1, <4>2, <4>3
    <3>2. CASE i # Len(p.responses) + 1
      <4>1. i \in 1..Len(p.responses)
        BY <1>1, <2>5, <3>2
      <4>2. a.responses[i] = p.responses[i]
        BY <1>3, <1>4, <4>1
      <4> QED
        BY <2>4, <4>1, <4>2
    <3> QED
      BY <3>1, <3>2
  <2>3. ASSUME NEW i \in 1..Len(a.requests)
        PROVE  a.requests[i] = owed[Len(a.responses) + i]
    <3> DEFINE n == Len(p.responses)
               m == Len(p.requests)
    <3>4. n \in Nat /\ m \in Nat /\ i \in 1..(m - 1)
          /\ Len(a.responses) = n + 1 /\ Len(Tail(p.requests)) = m - 1
      BY <1>1, <1>2, <2>5
    <3>1. i + 1 \in 1..Len(p.requests) /\ i \in 1..Len(Tail(p.requests))
          /\ Len(p.responses) + (i + 1) = Len(a.responses) + i
      <4> HIDE DEF n, m
      <4>1. i + 1 \in 1..m /\ n + (i + 1) = (n + 1) + i
        BY <3>4
      <4> QED
        BY <3>4, <4>1 DEF n, m
    <3>2. p.requests[i + 1] = owed[Len(p.responses) + (i + 1)]
      BY <2>4, <3>1
    <3> QED
      BY <1>2, <1>4, <3>1, <3>2
  <2> QED
    BY <2>1, <2>2, <2>3 DEF InFlight
<1>6. IsOpen(p.stream)
  BY DEF PipelineInv, Sound, CallInv
<1>7. CallInv(a)
  BY <1>4, <1>5, <1>6 DEF PipelineInv, Sound, CallInv
<1> QED
  BY <1>4, <1>7 DEF PipelineInv, Sound, a

\* An answer to be read is to the message that was owed first.
LEMMA FirstAnswer ==
  ASSUME NEW p, Sound(p), p.responses # <<>>
  PROVE  /\ IsOpen(p.stream) /\ IsStarted(p.stream)
         /\ Head(p.responses) \in Responses
         /\ Tail(p.responses) \in Seq(Responses)
         /\ Len(p.responses) \in Nat /\ Len(p.responses) > 0
         /\ p.handshake => p.pipeline # <<>> /\ Head(p.responses).for = Head(p.pipeline)
         /\ ~p.handshake => /\ Head(p.responses).for = Handshake
                            /\ Tail(p.responses) = <<>> /\ p.requests = <<>>
<1>1. IsOpen(p.stream) /\ IsStarted(p.stream)
  BY DEF Sound, CallInv, IsStarted
<1>2. /\ p.requests \in Seq(BatchIds \cup {Handshake}) /\ p.responses \in Seq(Responses)
      /\ p.pipeline \in Seq(BatchIds)
      /\ Len(p.requests) \in Nat /\ Len(p.responses) \in Nat
  BY DEF Sound, WriteRecord
<1>3. /\ Head(p.responses) = p.responses[1] /\ Head(p.responses) \in Responses
      /\ Tail(p.responses) \in Seq(Responses)
      /\ Len(Tail(p.responses)) = Len(p.responses) - 1 /\ Len(p.responses) > 0
  BY <1>2, HeadTailProperties
<1>4. CASE p.handshake
  <2>1. InFlight(p.responses, p.requests, p.pipeline)
    BY <1>1, <1>4 DEF Sound, CallInv
  <2>4. /\ Len(p.responses) + Len(p.requests) = Len(p.pipeline)
        /\ \A i \in 1..Len(p.responses) : p.responses[i].for = p.pipeline[i]
    BY <2>1 DEF InFlight
  <2>2. Len(p.pipeline) > 0 /\ p.responses[1].for = p.pipeline[1]
    <3> DEFINE n == Len(p.responses)
               m == Len(p.requests)
    <3>1. n \in Nat /\ n > 0 /\ m \in Nat /\ Len(p.pipeline) = n + m
      BY <1>2, <1>3, <2>4
    <3>2. 1 \in 1..n => p.responses[1].for = p.pipeline[1]
      BY <2>4
    <3> HIDE DEF n, m
    <3> QED
      BY <3>1, <3>2
  <2>3. p.pipeline # <<>> /\ Head(p.pipeline) = p.pipeline[1]
    BY <1>2, <2>2
  <2> QED
    BY <1>1, <1>2, <1>3, <1>4, <2>2, <2>3
<1>5. CASE ~p.handshake
  <2>1. InFlight(p.responses, p.requests, <<Handshake>>)
    BY <1>1, <1>5 DEF Sound, CallInv
  <2> DEFINE owed == <<Handshake>>
  <2>2. Len(owed) = 1 /\ owed[1] = Handshake
    OBVIOUS
  <2>5. InFlight(p.responses, p.requests, owed)
    BY <2>1
  <2> HIDE DEF owed
  <2>6. /\ Len(p.responses) + Len(p.requests) = 1
        /\ \A i \in 1..Len(p.responses) : p.responses[i].for = owed[i]
    BY <2>2, <2>5 DEF InFlight
  <2>3. Len(p.responses) = 1 /\ Len(p.requests) = 0 /\ p.responses[1].for = Handshake
    <3> DEFINE n == Len(p.responses)
               m == Len(p.requests)
    <3>1. n \in Nat /\ n > 0 /\ m \in Nat /\ n + m = 1
      BY <1>2, <1>3, <2>6
    <3>2. 1 \in 1..n => p.responses[1].for = owed[1]
      BY <2>6
    <3>3. n = 1 /\ m = 0
      <4> HIDE DEF n, m
      <4> QED
        BY <3>1
    <3> QED
      BY <2>2, <3>2, <3>3
  <2>4. p.requests = <<>> /\ Tail(p.responses) = <<>>
    <3>1. Len(Tail(p.responses)) = 0
      BY <1>3, <2>3
    <3>2. p.requests = <<>>
      BY <1>2, <2>3, EmptySeq
    <3> DEFINE t == Tail(p.responses)
    <3>3. t \in Seq(Responses) /\ Len(t) = 0
      BY <1>3, <3>1
    <3> HIDE DEF t
    <3>4. t = <<>>
      BY <3>3, EmptySeq
    <3> QED
      BY <3>2, <3>4 DEF t
  <2> QED
    BY <1>1, <1>2, <1>3, <1>5, <2>3, <2>4
<1> QED
  BY <1>4, <1>5

-----------------------------------------------------------------------------
(* Between two operations *)

\* A pipeline that is loaded is a beginning of the queue, as FillSound wants it.
LEMMA LoadedPrefix ==
  ASSUME NEW p, NEW q, Ascends(q), NEW up \in BOOLEAN, Loaded(p, q, up)
  PROVE  \E k \in 0..Len(q) : /\ p.pipeline = SubSeq(q, 1, k) /\ k <= MaxPendingWrites
                              /\ ~up => k = 0
<1>1. Room(q, up) \in 0..Len(q) /\ Room(q, up) <= MaxPendingWrites
  BY RoomIsNat
<1>2. ~up => Room(q, up) = 0
  BY DEF Room
<1>3. p.pipeline = SubSeq(q, 1, Room(q, up))
  BY DEF Loaded
<1> HIDE DEF Room
<1> QED
  BY <1>1, <1>2, <1>3

\* An empty pipeline is loaded when the network is not used.
LEMMA EmptyIsLoaded ==
  ASSUME NEW p, p.pipeline = <<>>, NEW q, Ascends(q)
  PROVE  Loaded(p, q, FALSE)
<1>1. SubSeq(q, 1, 0) \in Seq(BatchIds) /\ Len(SubSeq(q, 1, 0)) = 0
  BY PrefixOf DEF Ascends
<1>2. SubSeq(q, 1, 0) = <<>>
  BY <1>1, EmptySeq
<1> QED
  BY <1>2 DEF Loaded, Room

\* FillWritePipeline between two operations.
LEMMA FillInv ==
  ASSUME NEW p, Sound(p), p.handshake => IsOpen(p.stream),
         NEW up \in BOOLEAN, IsStarted(p.stream) => up,
         NEW q, Ascends(q), NEW k \in 0..Len(q), p.pipeline = SubSeq(q, 1, k),
         k <= MaxPendingWrites, ~up => k = 0
  PROVE  LET r == FillWritePipeline(p, up, q)
         IN  /\ PipelineInv(r, up) /\ Loaded(r, q, up)
             /\ r.handshake = p.handshake
             /\ r.token = p.token /\ r.responses = p.responses
BY FillSound DEF PipelineInv

\* A write half whose stream changes without starting, stopping, opening or
\* becoming idle is still in order.
LEMMA StreamOnly ==
  ASSUME NEW p, NEW up \in BOOLEAN, PipelineInv(p, up),
         NEW t, GoodStream(t), t.idle => p.stream.idle,
         IsOpen(t) <=> IsOpen(p.stream), IsStarted(t) <=> IsStarted(p.stream)
  PROVE  LET r == [p EXCEPT !.stream = t]
         IN  /\ PipelineInv(r, up) /\ r.pipeline = p.pipeline
             /\ r.token = p.token /\ r.responses = p.responses
             /\ r.handshake = p.handshake
<1> DEFINE r == [p EXCEPT !.stream = t]
<1>1. /\ r \in WriteRecord /\ r.stream = t /\ r.pipeline = p.pipeline
      /\ r.handshake = p.handshake /\ r.token = p.token /\ r.ok = p.ok
      /\ r.responses = p.responses /\ r.requests = p.requests
  BY DEF PipelineInv, Sound, WriteRecord, GoodStream
<1> HIDE DEF r
<1>2. CallInv(r)
  BY <1>1 DEF PipelineInv, Sound, CallInv
<1> QED
  BY <1>1, <1>2 DEF PipelineInv, Sound, r

\* The client starts with an empty pipeline and no stream.
LEMMA NewWriteInv ==
  \A up \in BOOLEAN : PipelineInv(NewWrite, up)
<1>1. GoodStream(NewWrite.stream) /\ ~IsStarted(NewWrite.stream)
  BY NewStreamGood DEF NewWrite
<1>2. <<>> \in Seq(BatchIds) /\ <<>> \in Seq(BatchIds \cup {Handshake})
      /\ <<>> \in Seq(Responses)
  OBVIOUS
<1>3. NewWrite \in WriteRecord
  BY <1>1, <1>2 DEF NewWrite, WriteRecord, GoodStream
<1>4. CallInv(NewWrite)
  BY <1>1, RestingIsClosed DEF CallInv, NewWrite
<1> QED
  BY <1>1, <1>3, <1>4 DEF PipelineInv, Sound, NewWrite

\* EnableNetwork: the pipeline is filled from the queue, with the stored token.
LEMMA EnableWriteInv ==
  ASSUME NEW p, NEW up \in BOOLEAN, PipelineInv(p, up),
         NEW q, Ascends(q), Loaded(p, q, up),
         NEW token \in Tokens \cup {NoToken}
  PROVE  LET r == EnableWrite(p, q, token)
         IN  /\ PipelineInv(r, TRUE) /\ Loaded(r, q, TRUE)
             /\ r.responses = p.responses
<1> DEFINE a == [p EXCEPT !.token = token]
<1>1. /\ a \in WriteRecord /\ a.stream = p.stream /\ a.pipeline = p.pipeline
      /\ a.handshake = p.handshake /\ a.ok = p.ok
      /\ a.responses = p.responses /\ a.requests = p.requests
  BY DEF PipelineInv, Sound, WriteRecord
<1>2. EnableWrite(p, q, token) = FillWritePipeline(a, TRUE, q)
  BY DEF EnableWrite
<1> HIDE DEF a
<1>3. CallInv(a)
  BY <1>1 DEF PipelineInv, Sound, CallInv
<1>4. Sound(a) /\ (a.handshake => IsOpen(a.stream))
  BY <1>1, <1>3 DEF PipelineInv, Sound
<1>5. PICK k \in 0..Len(q) : p.pipeline = SubSeq(q, 1, k) /\ k <= MaxPendingWrites
  BY LoadedPrefix
<1> DEFINE r == FillWritePipeline(a, TRUE, q)
<1>6. TRUE \in BOOLEAN /\ a.pipeline = SubSeq(q, 1, k)
  BY <1>1, <1>5
<1>7. PipelineInv(r, TRUE) /\ Loaded(r, q, TRUE) /\ r.responses = a.responses
  BY <1>4, <1>5, <1>6, FillInv
<1> HIDE DEF r
<1> QED
  BY <1>1, <1>2, <1>7 DEF r

-----------------------------------------------------------------------------
(* Stopping *)

\* NotifyStreamClose resets handshake_complete_ last, whatever was started.
LEMMA ForgetHandshake ==
  ASSUME NEW p, Sound(p), ~IsOpen(p.stream), NEW up \in BOOLEAN,
         IsStarted(p.stream) => up /\ p.pipeline # <<>>,
         up /\ p.pipeline # <<>> => IsStarted(p.stream)
  PROVE  LET r == [p EXCEPT !.handshake = FALSE]
         IN  /\ PipelineInv(r, up) /\ r.pipeline = p.pipeline
             /\ r.token = p.token /\ r.responses = p.responses
             /\ r.responses = <<>> /\ r.stream = p.stream
<1> DEFINE r == [p EXCEPT !.handshake = FALSE]
<1>1. /\ r \in WriteRecord /\ r.stream = p.stream /\ r.pipeline = p.pipeline
      /\ ~r.handshake /\ r.token = p.token /\ r.ok = p.ok
      /\ r.responses = p.responses /\ r.requests = p.requests
  BY DEF Sound, WriteRecord
<1> HIDE DEF r
<1>2. CallInv(r) /\ r.responses = <<>>
  BY <1>1 DEF Sound, CallInv
<1> QED
  BY <1>1, <1>2 DEF PipelineInv, Sound, r

\* Stream::Close ends the call and what was in flight.
LEMMA CloseStreamSound ==
  ASSUME NEW p, Sound(p), IsStarted(p.stream), NEW status \in Statuses
  PROVE  LET r == CloseWriteStream(p, status)
         IN  /\ Sound(r) /\ ~IsStarted(r.stream) /\ r.pipeline = p.pipeline
             /\ r.handshake = p.handshake /\ r.token = p.token
             /\ r.responses = <<>>
<1> DEFINE t == CloseStream(p.stream, status)
           r == CloseWriteStream(p, status)
<1>1. GoodStream(t) /\ ~IsStarted(t) /\ ~t.idle
  BY CloseStreamGood DEF Sound
<1>2. t \in StreamRecord
  BY <1>1 DEF GoodStream
<1> HIDE DEF t
<1>3. r = [p EXCEPT !.stream = t, !.requests = <<>>, !.responses = <<>>]
  BY DEF CloseWriteStream, t
<1>4. <<>> \in Seq(BatchIds \cup {Handshake}) /\ <<>> \in Seq(Responses)
  OBVIOUS
<1>5. /\ r \in WriteRecord /\ r.stream = t /\ r.pipeline = p.pipeline
      /\ r.handshake = p.handshake /\ r.token = p.token /\ r.ok = p.ok
      /\ r.responses = <<>> /\ r.requests = <<>>
  BY <1>2, <1>3, <1>4 DEF Sound, WriteRecord
<1> HIDE DEF r
<1>6. CallInv(r)
  BY <1>1, <1>5, RestingIsClosed DEF CallInv
<1> QED
  BY <1>1, <1>5, <1>6 DEF Sound, r

\* A stream that is closed when nothing is owed, or because the network is to be
\* left alone, is not started again.
LEMMA QuietClose ==
  ASSUME NEW p, Sound(p), IsStarted(p.stream), NEW up \in BOOLEAN,
         ~up \/ p.pipeline = <<>>, NEW q
  PROVE  LET r == CloseWrite(p, up, q, "ok")
         IN  /\ PipelineInv(r, up) /\ ~IsStarted(r.stream)
             /\ r.pipeline = p.pipeline /\ r.responses = <<>>
<1> DEFINE c == CloseWriteStream(p, "ok")
<1>1. /\ Sound(c) /\ ~IsStarted(c.stream) /\ c.pipeline = p.pipeline
      /\ c.responses = <<>>
  BY CloseStreamSound DEF Statuses
<1>2. ~ShouldStartWriteStream(c, up)
  BY <1>1 DEF ShouldStartWriteStream
<1>3. ~RejectsHead(p, "ok") /\ ~FailsHandshake(p, "ok")
  BY DEF RejectsHead, FailsHandshake
<1> DEFINE d == [c EXCEPT !.ok = @ /\ ("ok" = "ok" => ~ShouldStartWriteStream(c, up))]
<1>4. CloseWrite(p, up, q, "ok") =
        [MaybeStartWriteStream(d, up) EXCEPT !.handshake = FALSE]
  BY <1>3 DEF CloseWrite
<1> HIDE DEF c
<1>5. d = c
  BY <1>1, <1>2 DEF Sound, WriteRecord
<1> HIDE DEF d
<1>6. MaybeStartWriteStream(d, up) = c
  BY <1>2, <1>5 DEF MaybeStartWriteStream
<1>7. LET r == [c EXCEPT !.handshake = FALSE]
      IN  /\ PipelineInv(r, up) /\ r.pipeline = c.pipeline
          /\ r.responses = <<>> /\ r.stream = c.stream
  BY <1>1, RestingIsClosed, ForgetHandshake
<1> QED
  BY <1>1, <1>4, <1>6, <1>7

\* DisableNetwork stops the stream and forgets the pipeline.
LEMMA DisableWriteInv ==
  ASSUME NEW p, NEW up \in BOOLEAN, PipelineInv(p, up)
  PROVE  LET r == DisableWrite(p)
         IN  /\ PipelineInv(r, FALSE) /\ ~IsStarted(r.stream)
             /\ r.pipeline = <<>> /\ r.responses = <<>>
<1> DEFINE s == StopWrite(p, FALSE)
<1>1. PipelineInv(s, FALSE) /\ ~IsStarted(s.stream) /\ s.responses = <<>>
  <2>1. CASE IsStarted(p.stream)
    <3>1. s = CloseWrite(p, FALSE, <<>>, "ok")
      BY <2>1 DEF StopWrite
    <3>2. FALSE \in BOOLEAN /\ Sound(p)
      BY DEF PipelineInv
    <3> HIDE DEF s
    <3> QED
      BY <2>1, <3>1, <3>2, QuietClose
  <2>2. CASE ~IsStarted(p.stream)
    <3>1. s = p /\ ~IsOpen(p.stream)
      BY <2>2, RestingIsClosed DEF StopWrite
    <3>2. p.responses = <<>>
      BY <3>1 DEF PipelineInv, Sound, CallInv
    <3> HIDE DEF s
    <3> QED
      BY <2>2, <3>1, <3>2 DEF PipelineInv
  <2> QED
    BY <2>1, <2>2
<1> DEFINE r == [s EXCEPT !.pipeline = <<>>]
<1>2. DisableWrite(p) = r
  BY DEF DisableWrite
<1> HIDE DEF s
<1>3. ~IsOpen(s.stream)
  BY <1>1, RestingIsClosed
<1>4. <<>> \in Seq(BatchIds)
  OBVIOUS
<1>5. /\ r \in WriteRecord /\ r.stream = s.stream /\ r.pipeline = <<>>
      /\ r.handshake = s.handshake /\ r.token = s.token /\ r.ok = s.ok
      /\ r.responses = s.responses /\ r.requests = s.requests
  BY <1>1, <1>4 DEF PipelineInv, Sound, WriteRecord
<1> HIDE DEF r
<1>6. CallInv(r)
  BY <1>1, <1>3, <1>5 DEF PipelineInv, Sound, CallInv
<1> QED
  BY <1>1, <1>2, <1>5, <1>6 DEF PipelineInv, Sound

\* RestartNetwork, with the queue and the stored token of whoever is signed in.
LEMMA RestartWriteInv ==
  ASSUME NEW p, NEW up \in BOOLEAN, PipelineInv(p, up),
         NEW q, Ascends(q), NEW token \in Tokens \cup {NoToken}
  PROVE  LET r == RestartWrite(p, q, token)
         IN  PipelineInv(r, TRUE) /\ Loaded(r, q, TRUE) /\ r.responses = <<>>
<1> DEFINE d == DisableWrite(p)
           t == InhibitBackoff(d.stream)
           i == [d EXCEPT !.stream = InhibitBackoff(@)]
<1>1. /\ PipelineInv(d, FALSE) /\ ~IsStarted(d.stream)
      /\ d.pipeline = <<>> /\ d.responses = <<>>
  BY DisableWriteInv
<1>2. RestartWrite(p, q, token) = EnableWrite(i, q, token)
  BY DEF RestartWrite
<1> HIDE DEF d
<1>3. GoodStream(t) /\ ~IsStarted(t) /\ ~t.idle /\ ~IsOpen(t) /\ ~IsOpen(d.stream)
  BY <1>1, InhibitBackoffGood, RestingIsClosed DEF PipelineInv, Sound
<1>4. i = [d EXCEPT !.stream = t]
  OBVIOUS
<1> HIDE DEF t, i
<1>5. PipelineInv(i, FALSE) /\ i.pipeline = <<>> /\ i.responses = <<>>
  BY <1>1, <1>3, <1>4, StreamOnly
<1>6. Loaded(i, q, FALSE)
  BY <1>5, EmptyIsLoaded
<1> DEFINE r == EnableWrite(i, q, token)
<1>7. PipelineInv(r, TRUE) /\ Loaded(r, q, TRUE) /\ r.responses = i.responses
  BY <1>5, <1>6, EnableWriteInv
<1> HIDE DEF r
<1> QED
  BY <1>2, <1>5, <1>7 DEF r

\* The queue without the batch that was taken off the pipeline.
LEMMA LoadedTail ==
  ASSUME NEW p, NEW q, Ascends(q), NEW up \in BOOLEAN, Loaded(p, q, up),
         p.pipeline # <<>>
  PROVE  /\ up /\ q # <<>> /\ Head(p.pipeline) = Head(q) /\ Ascends(Tail(q))
         /\ \E k \in 0..Len(Tail(q)) : /\ Tail(p.pipeline) = SubSeq(Tail(q), 1, k)
                                       /\ k <= MaxPendingWrites
<1>1. PICK k \in 0..Len(q) : /\ p.pipeline = SubSeq(q, 1, k) /\ k <= MaxPendingWrites
                             /\ ~up => k = 0
  BY LoadedPrefix
<1>2. q \in Seq(BatchIds) /\ Len(q) \in Nat
  BY DEF Ascends
<1>3. k # 0
  <2>1. k = 0 => SubSeq(q, 1, k) \in Seq(BatchIds) /\ Len(SubSeq(q, 1, k)) = 0
    BY <1>2, PrefixOf
  <2> QED
    BY <1>1, <2>1, EmptySeq
<1>4. k \in 1..Len(q)
  BY <1>2, <1>3
<1>5. /\ q # <<>> /\ Head(p.pipeline) = Head(q)
      /\ Tail(p.pipeline) = SubSeq(Tail(q), 1, k - 1)
  BY <1>1, <1>2, <1>4, TailOfPrefix
<1>6. Ascends(Tail(q)) /\ Len(Tail(q)) = Len(q) - 1
  BY <1>5, TailAscends
<1>7. k - 1 \in 0..Len(Tail(q)) /\ k - 1 <= MaxPendingWrites
  BY <1>1, <1>2, <1>4, <1>6, MaxPendingWritesAssumption
<1> QED
  BY <1>1, <1>3, <1>5, <1>6, <1>7

\* HandleWriteError drops the head of the pipeline of a stream that was closed.
LEMMA DropHeadSound ==
  ASSUME NEW p, Sound(p), ~IsStarted(p.stream), p.pipeline # <<>>
  PROVE  LET r == DropHead(p)
         IN  /\ Sound(r) /\ ~IsStarted(r.stream) /\ r.pipeline = Tail(p.pipeline)
             /\ r.handshake = p.handshake /\ r.token = p.token
             /\ r.responses = p.responses
<1> DEFINE t == InhibitBackoff(p.stream)
           r == DropHead(p)
<1>1. GoodStream(t) /\ ~IsStarted(t) /\ ~t.idle
  BY InhibitBackoffGood DEF Sound
<1>2. t \in StreamRecord
  BY <1>1 DEF GoodStream
<1> HIDE DEF t
<1>3. r = [p EXCEPT !.pipeline = Tail(p.pipeline), !.stream = t]
  BY DEF DropHead, t
<1>4. Tail(p.pipeline) \in Seq(BatchIds)
  BY HeadTailProperties DEF Sound, WriteRecord
<1>5. /\ r \in WriteRecord /\ r.stream = t /\ r.pipeline = Tail(p.pipeline)
      /\ r.handshake = p.handshake /\ r.token = p.token /\ r.ok = p.ok
      /\ r.responses = p.responses /\ r.requests = p.requests
  BY <1>2, <1>3, <1>4 DEF Sound, WriteRecord
<1> HIDE DEF r
<1>6. CallInv(r)
  BY <1>1, <1>5, RestingIsClosed DEF CallInv, Sound
<1> QED
  BY <1>1, <1>5, <1>6 DEF Sound, r

\* The stream closes: a rejected write leaves the pipeline, which is refilled and
\* gets a new stream when it has to.
LEMMA CloseWriteInv ==
  ASSUME NEW p, NEW up \in BOOLEAN, PipelineInv(p, up), IsStarted(p.stream),
         NEW q, Ascends(q), Loaded(p, q, up),
         NEW status \in Statuses, status = "ok" => p.pipeline = <<>>
  PROVE  LET q2 == IF RejectsHead(p, status) THEN Tail(q) ELSE q
             r  == CloseWrite(p, up, q2, status)
         IN  /\ PipelineInv(r, up) /\ Loaded(r, q2, up)
             /\ r.responses = <<>>
<1> DEFINE q2 == IF RejectsHead(p, status) THEN Tail(q) ELSE q
           c == CloseWriteStream(p, status)
           d == [CloseWriteStream(p, status) EXCEPT
                   !.ok = @ /\ (status = "ok" => ~ShouldStartWriteStream(
                                   CloseWriteStream(p, status), up))]
           e == IF RejectsHead(p, status)
                THEN FillWritePipeline(DropHead(d), up, q2)
                ELSE IF FailsHandshake(p, status) THEN HandleHandshakeError(d, status)
                ELSE d
           m == MaybeStartWriteStream(e, up)
<1>1. /\ Sound(c) /\ ~IsStarted(c.stream) /\ c.pipeline = p.pipeline
      /\ c.handshake = p.handshake /\ c.responses = <<>>
  BY CloseStreamSound DEF PipelineInv
<1>2. CloseWrite(p, up, q2, status) = [m EXCEPT !.handshake = FALSE]
  BY DEF CloseWrite
<1>3. d = c
  <2>1. d = [c EXCEPT !.ok = @ /\ (status = "ok" => ~ShouldStartWriteStream(c, up))]
    OBVIOUS
  <2>2. status = "ok" => ~ShouldStartWriteStream(c, up)
    BY <1>1 DEF ShouldStartWriteStream
  <2> HIDE DEF c, d
  <2> QED
    BY <1>1, <2>1, <2>2 DEF Sound, WriteRecord
<1> HIDE DEF c, d
<1>4. /\ Sound(e) /\ Loaded(e, q2, up) /\ e.responses = <<>>
      /\ IsStarted(e.stream) => up /\ e.pipeline # <<>>
      /\ ~IsOpen(e.stream)
  <2>1. CASE RejectsHead(p, status)
    <3>1. p.pipeline # <<>>
      BY <2>1 DEF RejectsHead
    <3> DEFINE h == DropHead(d)
    <3>2. /\ Sound(h) /\ ~IsStarted(h.stream) /\ h.pipeline = Tail(p.pipeline)
          /\ h.responses = <<>>
      BY <1>1, <1>3, <3>1, DropHeadSound
    <3> HIDE DEF h
    <3>3. e = FillWritePipeline(h, up, Tail(q))
      BY <2>1 DEF h
    <3>4. /\ up /\ Ascends(Tail(q))
          /\ \E k \in 0..Len(Tail(q)) : /\ Tail(p.pipeline) = SubSeq(Tail(q), 1, k)
                                        /\ k <= MaxPendingWrites
      BY <3>1, LoadedTail
    <3>5. PICK k \in 0..Len(Tail(q)) : /\ h.pipeline = SubSeq(Tail(q), 1, k)
                                       /\ k <= MaxPendingWrites
      BY <3>2, <3>4
    <3>6. ~IsOpen(h.stream)
      BY <3>2, RestingIsClosed
    <3> HIDE DEF e
    <3>7. /\ Sound(e) /\ Loaded(e, Tail(q), up)
          /\ IsStarted(e.stream) => IsStarted(h.stream) \/ e.pipeline # <<>>
          /\ IsOpen(e.stream) <=> IsOpen(h.stream)
          /\ e.responses = h.responses
      BY <3>2, <3>3, <3>4, <3>5, FillSound
    <3> QED
      BY <2>1, <3>2, <3>4, <3>6, <3>7
  <2>2. CASE ~RejectsHead(p, status)
    <3>1. /\ Sound(e) /\ e.stream = c.stream /\ e.pipeline = c.pipeline
          /\ e.responses = c.responses
      <4>1. CASE ~FailsHandshake(p, status)
        BY <1>1, <1>3, <2>2, <4>1
      <4>2. CASE FailsHandshake(p, status)
        <5>1. e = HandleHandshakeError(c, status)
          BY <1>3, <2>2, <4>2
        <5> HIDE DEF e
        <5>2. CASE ~IsPermanentError(status)
          BY <1>1, <5>1, <5>2 DEF HandleHandshakeError
        <5>3. CASE IsPermanentError(status)
          <6>1. e = [c EXCEPT !.token = NoToken]
            BY <5>1, <5>3 DEF HandleHandshakeError
          <6>2. /\ e \in WriteRecord /\ e.stream = c.stream
                /\ e.pipeline = c.pipeline /\ e.handshake = c.handshake
                /\ e.ok = c.ok /\ e.responses = c.responses
                /\ e.requests = c.requests
            BY <1>1, <6>1 DEF Sound, WriteRecord
          <6>3. CallInv(e)
            BY <1>1, <6>2 DEF Sound, CallInv
          <6> QED
            BY <1>1, <6>2, <6>3 DEF Sound
        <5> QED
          BY <5>2, <5>3
      <4> QED
        BY <4>1, <4>2
    <3>2. ~IsStarted(e.stream) /\ ~IsOpen(e.stream)
      BY <1>1, <3>1, RestingIsClosed
    <3>3. q2 = q
      BY <2>2
    <3> HIDE DEF e
    <3> QED
      BY <1>1, <3>1, <3>2, <3>3 DEF Loaded
  <2> QED
    BY <2>1, <2>2
<1> HIDE DEF e
<1>5. /\ Sound(m) /\ m.pipeline = e.pipeline /\ m.responses = e.responses
      /\ IsStarted(m.stream) => up
      /\ up /\ m.pipeline # <<>> => IsStarted(m.stream)
      /\ IsStarted(m.stream) => IsStarted(e.stream) \/ m.pipeline # <<>>
      /\ ~IsOpen(m.stream)
  BY <1>4, MaybeStartSound
<1> HIDE DEF m
<1> DEFINE r == [m EXCEPT !.handshake = FALSE]
<1>6. PipelineInv(r, up) /\ r.pipeline = m.pipeline /\ r.responses = m.responses
  BY <1>4, <1>5, ForgetHandshake
<1> HIDE DEF r
<1>7. Loaded(r, q2, up)
  BY <1>4, <1>5, <1>6 DEF Loaded
<1> HIDE DEF q2
<1> QED
  BY <1>2, <1>4, <1>5, <1>6, <1>7 DEF r, q2

-----------------------------------------------------------------------------
(* The events of the call *)

\* The credentials open the stream, which sends the handshake before anything.
LEMMA WriteCredentialsInv ==
  ASSUME NEW p, NEW up \in BOOLEAN, PipelineInv(p, up),
         p.stream.closes \in p.stream.auth
  PROVE  LET r == WriteCredentials(p, p.stream.closes)
         IN  /\ PipelineInv(r, up) /\ r.pipeline = p.pipeline
             /\ r.responses = <<>>
<1> DEFINE t == ResumeStartWithCredentials(
                  [p.stream EXCEPT !.auth = @ \ {p.stream.closes}])
           a == [p EXCEPT !.stream = t]
           s == Send(a, <<Handshake>>)
           r == WriteCredentials(p, p.stream.closes)
<1>1. GoodStream(p.stream) /\ p \in WriteRecord /\ Sound(p)
  BY DEF PipelineInv, Sound
<1>2. IsStarted(p.stream) /\ ~IsOpen(p.stream)
  BY <1>1 DEF GoodStream, StreamInv, IsStarted, IsOpen
<1>3. up /\ ~p.handshake /\ p.pipeline # <<>> /\ p.responses = <<>> /\ p.requests = <<>>
  BY <1>2 DEF PipelineInv, Sound, CallInv
<1>4. GoodStream(t) /\ IsOpen(t) /\ IsStarted(t) /\ ~t.idle
  BY <1>1, ResumeGood
<1>5. t \in StreamRecord
  BY <1>4 DEF GoodStream
<1>6. r = OnWriteStreamOpen(a)
  BY DEF WriteCredentials
<1> HIDE DEF t, r
<1>7. /\ a \in WriteRecord /\ a.stream = t /\ a.pipeline = p.pipeline
      /\ ~a.handshake /\ a.token = p.token /\ a.ok
      /\ a.responses = <<>> /\ a.requests = <<>>
  BY <1>1, <1>3, <1>5 DEF WriteRecord, Sound
<1> HIDE DEF a
<1>8. r = [s EXCEPT !.ok = @ /\ ~a.handshake]
  BY <1>6 DEF OnWriteStreamOpen
<1>9. <<Handshake>> \in Seq(BatchIds \cup {Handshake}) /\ <<Handshake>> # <<>>
  OBVIOUS
<1>10. /\ s \in WriteRecord /\ GoodStream(s.stream) /\ IsOpen(s.stream)
       /\ ~s.stream.idle /\ s.requests = <<>> \o <<Handshake>>
       /\ s.pipeline = p.pipeline /\ ~s.handshake /\ s.responses = <<>> /\ s.ok
  <2> DEFINE msgs == <<Handshake>>
  <2>1. a \in WriteRecord /\ GoodStream(a.stream) /\ IsOpen(a.stream)
    BY <1>4, <1>7
  <2> HIDE DEF msgs
  <2>2. msgs \in Seq(BatchIds \cup {Handshake}) /\ msgs # <<>>
    BY <1>9 DEF msgs
  <2>3. s = Send(a, msgs)
    BY DEF s, msgs
  <2> HIDE DEF s
  <2>4. /\ s \in WriteRecord /\ GoodStream(s.stream) /\ IsOpen(s.stream)
        /\ s.stream.idle => msgs = <<>> /\ a.stream.idle
        /\ s.requests = a.requests \o msgs /\ s.pipeline = a.pipeline
        /\ s.handshake = a.handshake /\ s.responses = a.responses /\ s.ok = a.ok
    BY <2>1, <2>2, <2>3, SendOpen
  <2> QED
    BY <1>7, <2>2, <2>4 DEF msgs
<1> HIDE DEF s
<1>11. r = s
  BY <1>7, <1>8, <1>10 DEF WriteRecord
<1>12. s.requests = <<Handshake>>
  BY <1>9, <1>10, ConcatEmptySeq
<1>13. InFlight(s.responses, s.requests, <<Handshake>>)
  BY <1>10, <1>12 DEF InFlight
<1>14. CallInv(s)
  BY <1>10, <1>13 DEF CallInv
<1>15. IsStarted(s.stream)
  BY <1>10 DEF IsStarted
<1>16. PipelineInv(s, up)
  BY <1>3, <1>10, <1>14, <1>15 DEF PipelineInv, Sound
<1> QED
  BY <1>10, <1>11, <1>16 DEF r

\* Reading an answer.
LEMMA ReadSound ==
  ASSUME NEW p, Sound(p), p.responses # <<>>
  PROVE  LET r == ReadResponse(p)
         IN  /\ r \in WriteRecord /\ r.ok /\ r.stream = p.stream
             /\ r.pipeline = p.pipeline /\ r.handshake = p.handshake
             /\ r.token = Head(p.responses).token /\ r.token \in Tokens
             /\ r.responses = Tail(p.responses) /\ r.requests = p.requests
<1> DEFINE h == Head(p.responses)
           t == Tail(p.responses)
<1>1. IsStarted(p.stream) /\ h \in Responses /\ t \in Seq(Responses)
  BY FirstAnswer
<1>2. h.token \in Tokens
  BY <1>1 DEF Responses
<1>3. ReadResponse(p) = [p EXCEPT !.ok = @ /\ IsStarted(p.stream),
                                  !.responses = t, !.token = h.token]
  BY DEF ReadResponse
<1> HIDE DEF h, t
<1> QED
  BY <1>1, <1>2, <1>3 DEF Sound, WriteRecord, h, t

\* The handshake completes: the whole pipeline is sent.
LEMMA HandshakeInv ==
  ASSUME NEW p, NEW up \in BOOLEAN, PipelineInv(p, up),
         p.responses # <<>>, ~p.handshake
  PROVE  LET r == OnWriteStreamHandshakeComplete(p)
         IN  /\ PipelineInv(r, up) /\ r.pipeline = p.pipeline
             /\ r.token \in Tokens /\ r.responses = <<>>
<1> DEFINE a == ReadResponse(p)
           h == [a EXCEPT !.handshake = TRUE]
           r == Send(h, h.pipeline)
<1>1. Sound(p) /\ p.pipeline \in Seq(BatchIds)
  BY DEF PipelineInv, Sound, WriteRecord
<1>2. /\ IsOpen(p.stream) /\ IsStarted(p.stream)
      /\ Tail(p.responses) = <<>> /\ p.requests = <<>>
  BY <1>1, FirstAnswer
<1>3. up /\ p.pipeline # <<>>
  BY <1>1, <1>2 DEF PipelineInv, Sound
<1>4. /\ a \in WriteRecord /\ a.ok /\ a.stream = p.stream
      /\ a.pipeline = p.pipeline /\ a.token \in Tokens
      /\ a.responses = <<>> /\ a.requests = <<>>
  BY <1>1, <1>2, ReadSound
<1>5. OnWriteStreamHandshakeComplete(p) = r
  BY DEF OnWriteStreamHandshakeComplete
<1> HIDE DEF a
<1>6. /\ h \in WriteRecord /\ h.ok /\ h.stream = p.stream /\ h.handshake
      /\ h.pipeline = p.pipeline /\ h.token \in Tokens
      /\ h.responses = <<>> /\ h.requests = <<>>
  BY <1>4 DEF WriteRecord
<1> HIDE DEF h
<1>7. p.pipeline \in Seq(BatchIds \cup {Handshake})
  BY <1>1, SeqMonotonic
<1>8. GoodStream(h.stream) /\ IsOpen(h.stream)
  BY <1>1, <1>2, <1>6 DEF Sound
<1>9. /\ r \in WriteRecord /\ GoodStream(r.stream) /\ IsOpen(r.stream)
      /\ r.stream.idle => p.pipeline = <<>>
      /\ r.requests = <<>> \o p.pipeline /\ r.pipeline = p.pipeline
      /\ r.handshake /\ r.token \in Tokens /\ r.responses = <<>> /\ r.ok
  <2>1. r = Send(h, p.pipeline)
    BY <1>6
  <2>3. h \in WriteRecord /\ GoodStream(h.stream) /\ IsOpen(h.stream)
    BY <1>6, <1>8
  <2> HIDE DEF r
  <2>2. /\ r \in WriteRecord /\ GoodStream(r.stream) /\ IsOpen(r.stream)
        /\ r.stream.idle => p.pipeline = <<>> /\ h.stream.idle
        /\ r.requests = h.requests \o p.pipeline /\ r.pipeline = h.pipeline
        /\ r.handshake = h.handshake /\ r.token = h.token
        /\ r.responses = h.responses /\ r.ok = h.ok
    BY <1>7, <2>1, <2>3, SendOpen
  <2> QED
    BY <1>6, <2>2
<1> HIDE DEF r
<1>10. r.requests = p.pipeline
  BY <1>7, <1>9, ConcatEmptySeq
<1>11. InFlight(<<>>, p.pipeline, p.pipeline)
  BY <1>1 DEF InFlight
<1>12. CallInv(r)
  BY <1>9, <1>10, <1>11 DEF CallInv
<1>13. PipelineInv(r, up)
  BY <1>3, <1>9, <1>12 DEF PipelineInv, Sound, IsStarted
<1> QED
  BY <1>5, <1>9, <1>13 DEF h

\* What is owed once the first answer is read.
LEMMA InFlightTail ==
  ASSUME NEW S, NEW responses \in Seq(S), responses # <<>>, Len(responses) \in Nat,
         NEW requests, Len(requests) \in Nat,
         NEW U, NEW owed \in Seq(U), InFlight(responses, requests, owed)
  PROVE  InFlight(Tail(responses), requests, Tail(owed))
<1> DEFINE n == Len(responses)
           m == Len(requests)
<1>1. /\ n \in Nat /\ m \in Nat /\ n + m = Len(owed)
      /\ \A i \in 1..n : responses[i].for = owed[i]
      /\ \A i \in 1..m : requests[i] = owed[n + i]
  BY DEF InFlight
<1>2. /\ n > 0 /\ Len(Tail(responses)) = n - 1
      /\ \A i \in 1..Len(Tail(responses)) : Tail(responses)[i] = responses[i + 1]
  BY HeadTailProperties, EmptySeq
<1>3. owed # <<>>
  <2>1. owed = <<>> => Len(owed) = 0
    OBVIOUS
  <2> HIDE DEF n, m
  <2> QED
    BY <1>1, <1>2, <2>1
<1>4. /\ Len(Tail(owed)) = Len(owed) - 1
      /\ \A i \in 1..Len(Tail(owed)) : Tail(owed)[i] = owed[i + 1]
  BY <1>3, HeadTailProperties
<1> HIDE DEF n, m
<1>5. Len(Tail(responses)) + m = Len(Tail(owed))
  <2>1. (n - 1) + m = (n + m) - 1
    BY <1>1
  <2> QED
    BY <1>1, <1>2, <1>4, <2>1
<1>6. ASSUME NEW i \in 1..Len(Tail(responses))
      PROVE  Tail(responses)[i].for = Tail(owed)[i]
  <2>1. i + 1 \in 1..n /\ i \in 1..Len(Tail(owed))
    BY <1>1, <1>2, <1>4
  <2> QED
    BY <1>1, <1>2, <1>4, <2>1
<1>7. ASSUME NEW i \in 1..m
      PROVE  requests[i] = Tail(owed)[Len(Tail(responses)) + i]
  <2>1. /\ (n - 1) + i \in 1..Len(Tail(owed)) /\ ((n - 1) + i) + 1 = n + i
    BY <1>1, <1>2, <1>4
  <2> QED
    BY <1>1, <1>2, <1>4, <2>1
<1> QED
  BY <1>5, <1>6, <1>7 DEF InFlight, m

\* The first answer is taken for the first write of the pipeline, which leaves.
LEMMA PopSound ==
  ASSUME NEW p, Sound(p), p.responses # <<>>, p.handshake
  PROVE  LET r == PopResult(p)
         IN  /\ Sound(r) /\ r.handshake /\ IsOpen(r.stream)
             /\ p.pipeline # <<>> /\ r.pipeline = Tail(p.pipeline)
             /\ r.token \in Tokens /\ r.responses = Tail(p.responses)
<1> DEFINE a == ReadResponse(p)
           t == ResetBackoff(p.stream)
           r == PopResult(p)
<1>1. IsOpen(p.stream) /\ IsStarted(p.stream) /\ p.pipeline # <<>>
  BY FirstAnswer
<1>2. /\ a \in WriteRecord /\ a.ok /\ a.stream = p.stream
      /\ a.pipeline = p.pipeline /\ a.handshake /\ a.token \in Tokens
      /\ a.responses = Tail(p.responses) /\ a.requests = p.requests
  BY ReadSound
<1>3. GoodStream(t) /\ t.idle = p.stream.idle /\ t.state = p.stream.state
  BY ResetGood DEF Sound
<1>4. t \in StreamRecord /\ IsOpen(t) /\ IsStarted(t)
  BY <1>1, <1>3 DEF GoodStream, IsOpen, IsStarted
<1>5. ~t.idle
  BY <1>1, <1>3 DEF Sound
<1> HIDE DEF a
<1>6. r = [a EXCEPT !.ok = @ /\ p.pipeline # <<>>, !.stream = ResetBackoff(@),
                    !.pipeline = Tail(@)]
  BY DEF PopResult, a
<1>7. Tail(p.pipeline) \in Seq(BatchIds) /\ p.pipeline \in Seq(BatchIds)
  BY <1>1, HeadTailProperties DEF Sound, WriteRecord
<1> HIDE DEF r
<1>8. r = [a EXCEPT !.ok = TRUE, !.stream = t, !.pipeline = Tail(p.pipeline)]
  BY <1>1, <1>2, <1>6
<1> HIDE DEF t
<1>9. /\ r \in WriteRecord /\ r.ok /\ r.stream = t /\ r.handshake
      /\ r.pipeline = Tail(p.pipeline) /\ r.token \in Tokens
      /\ r.responses = Tail(p.responses) /\ r.requests = p.requests
  BY <1>2, <1>4, <1>7, <1>8 DEF WriteRecord
<1>10. InFlight(Tail(p.responses), p.requests, Tail(p.pipeline))
  <2>1. /\ p.responses \in Seq(Responses) /\ Len(p.responses) \in Nat
        /\ Len(p.requests) \in Nat
    BY DEF Sound, WriteRecord
  <2>2. InFlight(p.responses, p.requests, p.pipeline)
    BY <1>1 DEF Sound, CallInv
  <2> QED
    BY <1>7, <2>1, <2>2, InFlightTail
<1>11. CallInv(r)
  BY <1>4, <1>9, <1>10 DEF CallInv
<1> QED
  BY <1>1, <1>3, <1>4, <1>5, <1>9, <1>11 DEF Sound, r

\* A result resolves the oldest batch of the queue; the pipeline is refilled.
LEMMA ResultInv ==
  ASSUME NEW p, NEW up \in BOOLEAN, PipelineInv(p, up),
         NEW q, Ascends(q), Loaded(p, q, up), p.responses # <<>>, p.handshake
  PROVE  LET r == FillWritePipeline(PopResult(p), up, Tail(q))
         IN  /\ PipelineInv(r, up) /\ Loaded(r, Tail(q), up)
             /\ r.responses = Tail(p.responses) /\ PopResult(p).token \in Tokens
             /\ q # <<>> /\ Ascends(Tail(q))
             /\ Head(p.pipeline) = Head(q) /\ Head(p.responses).for = Head(q)
<1> DEFINE a == PopResult(p)
           r == FillWritePipeline(a, up, Tail(q))
<1>1. Sound(p)
  BY DEF PipelineInv
<1>2. /\ Sound(a) /\ a.handshake /\ IsOpen(a.stream)
      /\ p.pipeline # <<>> /\ a.pipeline = Tail(p.pipeline)
      /\ a.token \in Tokens /\ a.responses = Tail(p.responses)
  BY <1>1, PopSound
<1> HIDE DEF a
<1>3. /\ up /\ q # <<>> /\ Head(p.pipeline) = Head(q) /\ Ascends(Tail(q))
      /\ \E k \in 0..Len(Tail(q)) : /\ Tail(p.pipeline) = SubSeq(Tail(q), 1, k)
                                    /\ k <= MaxPendingWrites
  BY <1>2, LoadedTail
<1>4. PICK k \in 0..Len(Tail(q)) : /\ a.pipeline = SubSeq(Tail(q), 1, k)
                                   /\ k <= MaxPendingWrites
  BY <1>2, <1>3
<1>5. PipelineInv(r, up) /\ Loaded(r, Tail(q), up) /\ r.responses = a.responses
  BY <1>2, <1>3, <1>4, FillInv
<1>6. Head(p.responses).for = Head(p.pipeline)
  BY <1>1, FirstAnswer
<1> HIDE DEF r
<1> QED
  BY <1>2, <1>3, <1>5, <1>6 DEF r, a

\* The answers, and the next message to be answered, are for the batches at the
\* front of the queue, in its order.
LEMMA AnswersInOrder ==
  ASSUME NEW p, NEW up \in BOOLEAN, PipelineInv(p, up),
         NEW q, Ascends(q), Loaded(p, q, up), p.requests # <<>>,
         Head(p.requests) # Handshake
  PROVE  LET n == Len(p.responses)
         IN  /\ n \in Nat /\ n + 1 \in 1..Len(q) /\ Head(p.requests) = q[n + 1]
             /\ \A i \in 1..n : p.responses[i].for = q[i]
<1> DEFINE n == Len(p.responses)
           m == Len(p.requests)
<1>1. IsOpen(p.stream)
  BY DEF PipelineInv, Sound, CallInv
<1>2. /\ p.requests \in Seq(BatchIds \cup {Handshake}) /\ p.responses \in Seq(Responses)
      /\ n \in Nat /\ m \in Nat
  BY DEF PipelineInv, Sound, WriteRecord
<1>3. m > 0 /\ Head(p.requests) = p.requests[1]
  BY <1>2, EmptySeq
<1>4. p.handshake
  <2> SUFFICES ASSUME ~p.handshake PROVE FALSE
    OBVIOUS
  <2> DEFINE owed == <<Handshake>>
  <2>1. InFlight(p.responses, p.requests, owed)
    BY <1>1 DEF PipelineInv, Sound, CallInv
  <2>2. Len(owed) = 1 /\ owed[1] = Handshake
    OBVIOUS
  <2> HIDE DEF owed
  <2>3. n + m = 1 /\ \A i \in 1..m : p.requests[i] = owed[n + i]
    BY <2>1, <2>2 DEF InFlight
  <2> HIDE DEF n, m
  <2>4. n = 0 /\ m = 1 /\ n + 1 = 1
    BY <1>2, <1>3, <2>3
  <2>5. 1 \in 1..m
    BY <2>4
  <2>6. p.requests[1] = owed[1]
    BY <2>3, <2>4, <2>5
  <2> QED
    BY <1>3, <2>2, <2>6
<1>5. InFlight(p.responses, p.requests, p.pipeline)
  BY <1>1, <1>4 DEF PipelineInv, Sound, CallInv
<1>6. /\ n + m = Len(p.pipeline)
      /\ \A i \in 1..n : p.responses[i].for = p.pipeline[i]
      /\ \A i \in 1..m : p.requests[i] = p.pipeline[n + i]
  BY <1>5 DEF InFlight
<1>7. PICK k \in 0..Len(q) : p.pipeline = SubSeq(q, 1, k)
  BY LoadedPrefix
<1>8. /\ Len(p.pipeline) = k /\ \A i \in 1..k : p.pipeline[i] = q[i]
      /\ Len(q) \in Nat
  BY <1>7, PrefixOf DEF Ascends
<1> HIDE DEF n, m
<1>9. n + 1 \in 1..k /\ 1 \in 1..m /\ \A i \in 1..n : i \in 1..k
  BY <1>2, <1>3, <1>6, <1>8
<1>10. Head(p.requests) = q[n + 1]
  BY <1>3, <1>6, <1>8, <1>9
<1>11. n + 1 \in 1..Len(q)
  BY <1>8, <1>9
<1> QED
  BY <1>2, <1>6, <1>8, <1>9, <1>10, <1>11 DEF n

-----------------------------------------------------------------------------
(* Pacing: as in the watch half, the operations but the backoff timer leave  *)
(* a stream that owes no delay when it is about to be started.               *)

\* p has the fields of a write half, and its stream is Rested.
PacedWrite(p) ==
  /\ p = [stream |-> p.stream, handshake |-> p.handshake, token |-> p.token,
          pipeline |-> p.pipeline, requests |-> p.requests,
          responses |-> p.responses, ok |-> p.ok]
  /\ Rested(p.stream)

\* A typed write half with a rested stream is paced.
LEMMA WritePaced ==
  ASSUME NEW p \in WriteRecord, Rested(p.stream) PROVE PacedWrite(p)
BY DEF PacedWrite, WriteRecord

\* The start of the stream, when it is needed.
LEMMA MaybeStartPaced ==
  ASSUME NEW p, PacedWrite(p), NEW up PROVE PacedWrite(MaybeStartWriteStream(p, up))
<1>1. ASSUME ShouldStartWriteStream(p, up) PROVE PacedWrite(StartWriteStream(p, up))
  <2> DEFINE k == p.ok /\ ShouldStartWriteStream(p, up)
             x == StartStream(p.stream)
             v == StartWriteStream(p, up)
  <2>1. Rested(x)
    BY <1>1, StartRested DEF PacedWrite, ShouldStartWriteStream
  <2>2. v = [p EXCEPT !.ok = k, !.stream = x]
    BY DEF StartWriteStream
  <2> HIDE DEF k, x, v
  <2>3. PacedWrite(v)
    BY <2>1, <2>2 DEF PacedWrite
  <2> QED
    BY <2>3 DEF v
<1> QED
  BY <1>1 DEF MaybeStartWriteStream

\* Messages written to the stream.
LEMMA SendsPaced ==
  ASSUME NEW p, PacedWrite(p), NEW msgs PROVE PacedWrite(Send(p, msgs))
<1> DEFINE x == Write(p.stream)
           v == [p EXCEPT !.requests = @ \o msgs, !.stream = x]
<1>1. Rested(x)
  BY WriteRested DEF PacedWrite
<1>2. Send(p, msgs) = IF msgs = <<>> THEN p ELSE v
  BY DEF Send
<1>3. v = [p EXCEPT !.requests = @ \o msgs, !.stream = x]
  OBVIOUS
<1> HIDE DEF x, v
<1>4. PacedWrite(v)
  BY <1>1, <1>3 DEF PacedWrite
<1> QED
  BY <1>2, <1>4

\* The pipeline takes batches of the queue, and starts its stream.
LEMMA FillPaced ==
  ASSUME NEW p, PacedWrite(p), NEW up, NEW queue
  PROVE  PacedWrite(FillWritePipeline(p, up, queue))
<1> DEFINE b == NextBatches(p, up, queue)
           q == [p EXCEPT !.pipeline = @ \o b]
           f == AddToWritePipeline(p, b)
           g == [f EXCEPT !.stream = MarkIdle(@)]
           h == IF up /\ f.pipeline = <<>> THEN g ELSE f
<1>1. FillWritePipeline(p, up, queue) = MaybeStartWriteStream(h, up)
  BY DEF FillWritePipeline
<1>2. PacedWrite(q)
  <2>1. q = [p EXCEPT !.pipeline = @ \o b]
    OBVIOUS
  <2> HIDE DEF b, q
  <2> QED
    BY <2>1 DEF PacedWrite
<1> HIDE DEF b
<1>3. f = IF IsOpen(p.stream) /\ p.handshake THEN Send(q, b) ELSE q
  BY DEF AddToWritePipeline
<1> HIDE DEF q, f
<1>4. PacedWrite(f)
  BY <1>2, <1>3, SendsPaced
<1>5. PacedWrite(g)
  BY <1>4, MarkIdleRested DEF PacedWrite
<1> HIDE DEF g
<1>6. PacedWrite(h)
  BY <1>4, <1>5
<1> HIDE DEF h
<1> QED
  BY <1>1, <1>6, MaybeStartPaced

\* The stream closes, for whatever reason (OnWriteStreamClose).
LEMMA CloseWritePaced ==
  ASSUME NEW p, PacedWrite(p), NEW up, NEW queue, NEW status
  PROVE  PacedWrite(CloseWrite(p, up, queue, status))
<1> DEFINE w == CloseWriteStream(p, status)
           k == w.ok /\ (status = "ok" => ~ShouldStartWriteStream(w, up))
           c == [w EXCEPT !.ok = k]
           d == [c EXCEPT !.pipeline = Tail(@), !.stream = InhibitBackoff(@)]
           h == [c EXCEPT !.token = NoToken]
           e == IF RejectsHead(p, status) THEN FillWritePipeline(d, up, queue)
                ELSE IF FailsHandshake(p, status) THEN HandleHandshakeError(c, status)
                ELSE c
           m == MaybeStartWriteStream(e, up)
           x == CloseStream(p.stream, status)
<1>1. CloseWrite(p, up, queue, status) = [m EXCEPT !.handshake = FALSE]
  BY DEF CloseWrite, DropHead
<1>2. Rested(x)
  BY CloseRested DEF PacedWrite
<1>3. w = [p EXCEPT !.stream = x, !.requests = <<>>, !.responses = <<>>]
  BY DEF CloseWriteStream
<1> HIDE DEF x, w
<1>4. PacedWrite(w)
  BY <1>2, <1>3 DEF PacedWrite
<1>5. PacedWrite(c)
  <2>1. c = [w EXCEPT !.ok = k]
    OBVIOUS
  <2> HIDE DEF k, c
  <2> QED
    BY <1>4, <2>1 DEF PacedWrite
<1> HIDE DEF c
<1>6. Rested(InhibitBackoff(c.stream))
  BY <1>5, InhibitRested DEF PacedWrite
<1>7. PacedWrite(d) /\ PacedWrite(h)
  <2>1. /\ d = [c EXCEPT !.pipeline = Tail(@), !.stream = InhibitBackoff(@)]
        /\ h = [c EXCEPT !.token = NoToken]
    OBVIOUS
  <2> HIDE DEF d, h
  <2>2. PacedWrite(d)
    BY <1>5, <1>6, <2>1 DEF PacedWrite
  <2>3. PacedWrite(h)
    BY <1>5, <2>1 DEF PacedWrite
  <2> QED
    BY <2>2, <2>3
<1>8. HandleHandshakeError(c, status) = IF IsPermanentError(status) THEN h ELSE c
  BY DEF HandleHandshakeError
<1> HIDE DEF d, h
<1>9. PacedWrite(e)
  BY <1>5, <1>7, <1>8, FillPaced
<1> HIDE DEF e
<1>10. PacedWrite(m)
  BY <1>9, MaybeStartPaced
<1> HIDE DEF m
<1> QED
  BY <1>1, <1>10 DEF PacedWrite

\* A stale or failed answer of the credentials provider is forgotten.
LEMMA ForgottenPaced ==
  ASSUME NEW p, PacedWrite(p), NEW n
  PROVE  PacedWrite([p EXCEPT !.stream.auth = @ \ {n}])
<1> DEFINE s == [p.stream EXCEPT !.auth = @ \ {n}]
           v == [p EXCEPT !.stream.auth = @ \ {n}]
<1>1. Rested(s)
  BY ForgetRested DEF PacedWrite
<1>2. v = [p EXCEPT !.stream = s]
  BY DEF PacedWrite
<1> HIDE DEF s, v
<1>3. PacedWrite(v)
  BY <1>1, <1>2 DEF PacedWrite
<1> QED
  BY <1>3 DEF v

\* The stream opens, and sends its handshake.
LEMMA WriteCredentialsPaced ==
  ASSUME NEW p, PacedWrite(p), NEW n PROVE PacedWrite(WriteCredentials(p, n))
<1> DEFINE s == [p.stream EXCEPT !.auth = @ \ {n}]
           x == ResumeStartWithCredentials(s)
           v == [p EXCEPT !.stream = x]
           k == Send(v, <<Handshake>>).ok /\ ~v.handshake
           y == Send(v, <<Handshake>>)
<1>1. Rested(x)
  BY ForgetRested, ResumeRested DEF PacedWrite
<1>2. WriteCredentials(p, n) = [y EXCEPT !.ok = k]
  BY DEF WriteCredentials, OnWriteStreamOpen
<1> HIDE DEF x
<1>3. PacedWrite(v)
  BY <1>1 DEF PacedWrite
<1> HIDE DEF v
<1>4. PacedWrite(y)
  BY <1>3, SendsPaced
<1> HIDE DEF y, k
<1> QED
  BY <1>2, <1>4 DEF PacedWrite

\* A response is read: the first one completes the handshake, a later one is the
\* result of a write and resets the backoff.
LEMMA ReadPaced ==
  ASSUME NEW p, PacedWrite(p)
  PROVE  PacedWrite(OnWriteStreamHandshakeComplete(p)) /\ PacedWrite(PopResult(p))
<1> DEFINE r == ReadResponse(p)
           k == p.ok /\ IsStarted(p.stream)
           h == [r EXCEPT !.handshake = TRUE]
           x == ResetBackoff(r.stream)
           j == r.ok /\ p.pipeline # <<>>
           o == PopResult(p)
<1>1. r = [p EXCEPT !.ok = k, !.responses = Tail(@), !.token = Head(p.responses).token]
  BY DEF ReadResponse
<1>2. OnWriteStreamHandshakeComplete(p) = Send(h, h.pipeline)
  BY DEF OnWriteStreamHandshakeComplete
<1>3. o = [r EXCEPT !.ok = j, !.stream = x, !.pipeline = Tail(@)]
  BY DEF PopResult
<1> HIDE DEF k, r
<1>4. PacedWrite(r)
  BY <1>1 DEF PacedWrite
<1>5. Rested(x)
  BY <1>4, ResetRested DEF PacedWrite
<1>6. PacedWrite(h)
  <2>1. h = [r EXCEPT !.handshake = TRUE]
    OBVIOUS
  <2> HIDE DEF h
  <2> QED
    BY <1>4, <2>1 DEF PacedWrite
<1> HIDE DEF h, j, x, o
<1>7. PacedWrite(o)
  BY <1>3, <1>4, <1>5 DEF PacedWrite
<1> QED
  BY <1>2, <1>6, <1>7, SendsPaced DEF o

\* EnableNetwork.
LEMMA EnableWritePaced ==
  ASSUME NEW p, PacedWrite(p), NEW queue, NEW token
  PROVE  PacedWrite(EnableWrite(p, queue, token))
<1> DEFINE v == [p EXCEPT !.token = token]
<1>1. PacedWrite(v)
  BY DEF PacedWrite
<1>2. EnableWrite(p, queue, token) = FillWritePipeline(v, TRUE, queue)
  BY DEF EnableWrite
<1> HIDE DEF v
<1> QED
  BY <1>1, <1>2, FillPaced

\* DisableNetwork and Shutdown.
LEMMA DisableWritePaced ==
  ASSUME NEW p, PacedWrite(p) PROVE PacedWrite(DisableWrite(p))
<1> DEFINE d == StopWrite(p, FALSE)
<1>1. PacedWrite(d)
  BY CloseWritePaced DEF StopWrite
<1>2. DisableWrite(p) = [d EXCEPT !.pipeline = <<>>]
  BY DEF DisableWrite
<1> HIDE DEF d
<1> QED
  BY <1>1, <1>2 DEF PacedWrite

\* RestartNetwork.
LEMMA RestartWritePaced ==
  ASSUME NEW p, PacedWrite(p), NEW queue, NEW token
  PROVE  PacedWrite(RestartWrite(p, queue, token))
<1> DEFINE d == DisableWrite(p)
           i == [d EXCEPT !.stream = InhibitBackoff(@)]
<1>1. PacedWrite(d)
  BY DisableWritePaced
<1>2. RestartWrite(p, queue, token) = EnableWrite(i, queue, token)
  BY DEF RestartWrite
<1> HIDE DEF d
<1>3. Rested(InhibitBackoff(d.stream))
  BY <1>1, InhibitRested DEF PacedWrite
<1>4. PacedWrite(i)
  BY <1>1, <1>3 DEF PacedWrite
<1> HIDE DEF i
<1> QED
  BY <1>2, <1>4, EnableWritePaced

-----------------------------------------------------------------------------
(* The engine: the watch half *)

Inv == net \in BOOLEAN /\ WatchInv(watch, net)

-----------------------------------------------------------------------------
(* The actions *)

\* What the write path, the user's calls for it and its timers do leaves the
\* watch half and the network flag alone.
LEMMA WritesKeepWatch ==
  ASSUME \/ WriteMutations \/ RegisterPendingWritesCallback
         \/ \E n \in write.stream.auth : WriteCredentialsFail(n)
         \/ BackendReject \/ ReadUndecodable
         \/ \E status \in Errors : WriteStreamError(status)
         \/ WriteReactions
  PROVE  UNCHANGED <<net, watch>>
BY DEF WriteMutations, RegisterPendingWritesCallback, WriteCredentialsFail,
       BackendReject, ReadUndecodable, WriteStreamError, WriteReactions,
       WriteCredentialsArrive,
       BackendAnswer, ReadHandshakeResponse, ReadMutationResult, ReadRejection,
       WriteBackoffElapsed, WriteHealthElapsed, WriteIdleElapsed, remote

\* Calls of the sync engine, the connectivity monitor and the credential
\* providers, and a restart of the process.
LEMMA CallsKeepInv == Inv /\ Calls => Inv'
<1> SUFFICES ASSUME Inv, Calls PROVE Inv'
  OBVIOUS
<1> USE DEF Inv
<1>1. ASSUME NEW t \in Targets, Listen(t) PROVE Inv'
  BY <1>1, ListenInv DEF Listen
<1>2. ASSUME NEW t \in Targets, StopListening(t) PROVE Inv'
  BY <1>2, StopListeningInv DEF StopListening
<1>3. CASE EnableNetwork
  BY <1>3, EnableInv DEF EnableNetwork, WatchInv
<1>4. CASE DisableNetwork
  BY <1>4, DisableInv DEF DisableNetwork
<1>5. CASE Shutdown
  BY <1>5, DisableInv DEF Shutdown
<1>6. CASE ConnectivityChange
  BY <1>6, RestartInv DEF ConnectivityChange
<1>7. CASE Restart
  BY <1>7, NewWatchInv DEF Restart
<1>8. ASSUME NEW u \in Users, CredentialChange(u) PROVE Inv'
  <2>1. CASE net
    BY <1>8, <2>1, RestartInv DEF CredentialChange
  <2>2. CASE ~net
    BY <1>8, <2>2 DEF CredentialChange
  <2> QED
    BY <2>1, <2>2
<1>9. CASE WriteMutations \/ RegisterPendingWritesCallback
  BY <1>9, WritesKeepWatch
<1> QED
  BY <1>1, <1>2, <1>3, <1>4, <1>5, <1>6, <1>7, <1>8, <1>9 DEF Calls

\* Failures: refused credentials, errors of the calls, removed targets and
\* existence filters that do not match.
LEMMA FailuresKeepInv == Inv /\ Failures => Inv'
<1> SUFFICES ASSUME Inv, Failures PROVE Inv'
  OBVIOUS
<1> USE DEF Inv
<1>1. ASSUME NEW n \in watch.stream.auth, WatchCredentialsFail(n) PROVE Inv'
  <2>1. "transient" \in Statuses
    BY DEF Statuses, Errors
  <2> QED
    BY <1>1, <2>1, CredentialsInv DEF WatchCredentialsFail
<1>2. ASSUME NEW status \in Errors, WatchStreamError(status) PROVE Inv'
  BY <1>2, ErrorInv DEF WatchStreamError, Errors, Statuses
<1>3. ASSUME NEW t \in Targets, WatchTargetError(t) PROVE Inv'
  BY <1>3, TargetErrorInv DEF WatchTargetError
<1>4. ASSUME NEW t \in Targets, WatchMismatch(t) PROVE Inv'
  BY <1>4, MismatchInv DEF WatchMismatch
<1>5. CASE \/ \E n \in write.stream.auth : WriteCredentialsFail(n)
           \/ BackendReject \/ ReadUndecodable
           \/ \E status \in Errors : WriteStreamError(status)
  BY <1>5, WritesKeepWatch
<1>6. CASE WatchUndecodable
  BY <1>6, UndecodableInv DEF WatchUndecodable
<1> QED
  BY <1>1, <1>2, <1>3, <1>4, <1>5, <1>6 DEF Failures

\* Answers and timers of the watch stream, and the online state timer.
LEMMA ReactionsKeepInv == Inv /\ WatchReactions => Inv'
<1> SUFFICES ASSUME Inv, WatchReactions PROVE Inv'
  OBVIOUS
<1> USE DEF Inv
<1>1. ASSUME NEW n \in watch.stream.auth, WatchCredentialsArrive(n) PROVE Inv'
  <2>1. "ok" \in Statuses
    BY DEF Statuses
  <2> QED
    BY <1>1, <2>1, CredentialsInv DEF WatchCredentialsArrive
<1>2. CASE WatchMessage
  BY <1>2, MessageInv DEF WatchMessage
<1>3. CASE WatchBackoffElapsed
  BY <1>3, BackoffTimerInv DEF WatchBackoffElapsed
<1>4. CASE WatchHealthElapsed
  BY <1>4, HealthTimerInv DEF WatchHealthElapsed
<1>5. CASE WatchIdleElapsed
  BY <1>5, IdleTimerInv DEF WatchIdleElapsed
<1>6. CASE OnlineStateTimeout
  BY <1>6, OnlineTimerInv DEF OnlineStateTimeout
<1> QED
  BY <1>1, <1>2, <1>3, <1>4, <1>5, <1>6 DEF WatchReactions, WatchTimers

-----------------------------------------------------------------------------
(* The theorems *)

\* Inv is an invariant of the remote store.
THEOREM WatchInvariant == Spec => []Inv
<1>1. Init => Inv
  BY NewWatchInv DEF Init, Inv
<1>2. Inv /\ [Next]_vars => Inv'
  <2> SUFFICES ASSUME Inv, [Next]_vars PROVE Inv'
    OBVIOUS
  <2>1. CASE Calls
    BY <2>1, CallsKeepInv
  <2>2. CASE Failures
    BY <2>2, FailuresKeepInv
  <2>3. CASE WriteReactions
    BY <2>3, WritesKeepWatch DEF Inv
  <2>4. CASE WatchReactions
    BY <2>4, ReactionsKeepInv
  <2>5. CASE UNCHANGED vars
    BY <2>5 DEF Inv, vars
  <2> QED
    BY <2>1, <2>2, <2>3, <2>4, <2>5 DEF Next
<1> QED
  BY <1>1, <1>2, PTL DEF Spec

\* The client counts as Online only while a watch stream is open, whichever of
\* OnWatchStreamClose, DisableNetwork or HandleCredentialChange closed it.
THEOREM OnlineOnlyWhenOpen == Spec => []OnlineMeansOpen
<1>1. Inv => OnlineMeansOpen
  BY DEF Inv, WatchInv, OnlineMeansOpen
<1> QED
  BY <1>1, WatchInvariant, PTL

\* While the network is enabled, no target is left without a stream that is
\* running or on its way (ShouldStartWatchStream after every change).
THEOREM NoTargetForgotten == Spec => []TargetsAreWatched
<1>1. Inv => TargetsAreWatched
  BY DEF Inv, WatchInv, TargetsAreWatched
<1> QED
  BY <1>1, WatchInvariant, PTL

\* No HARD_ASSERT of the watch stream, of the online state tracker or of the
\* watch half of the remote store ever fails, and watch_change_aggregator_ is
\* never used while it is null.
THEOREM NoWatchAssertFails == Spec => []WatchAssertsHold
<1>1. Inv => WatchAssertsHold
  BY DEF Inv, WatchInv, GoodParts, GoodStream, StreamInv, GoodTracker,
         WatchAssertsHold
<1> QED
  BY <1>1, WatchInvariant, PTL

-----------------------------------------------------------------------------
(* Pacing *)

\* Every step but the backoff timer keeps the watch stream rested.
LEMMA WatchStepPaced ==
  ASSUME PacedWatch(watch), [Next]_vars, ~watch.stream.waiting
  PROVE  PacedWatch(watch')
<1>1. ASSUME NEW t \in Targets, Listen(t) \/ StopListening(t) PROVE PacedWatch(watch')
  BY <1>1, ListenPaced, StopListeningPaced DEF Listen, StopListening
<1>2. CASE EnableNetwork \/ DisableNetwork \/ Shutdown
  BY <1>2, EnablePaced, DisablePaced DEF EnableNetwork, DisableNetwork, Shutdown
<1>3. CASE ConnectivityChange \/ \E u \in Users : CredentialChange(u)
  BY <1>3, RestartPaced DEF ConnectivityChange, CredentialChange
<1>4. CASE Restart
  <2>1. PacedWatch(NewWatch)
    BY NewStreamRested DEF PacedWatch, NewWatch
  <2> QED
    BY <1>4, <2>1 DEF Restart
<1>5. CASE \E n \in watch.stream.auth : WatchCredentialsFail(n) \/ WatchCredentialsArrive(n)
  BY <1>5, CredentialsPaced DEF WatchCredentialsFail, WatchCredentialsArrive
<1>6. CASE \E status \in Errors : WatchStreamError(status)
  BY <1>6, ClosePaced DEF WatchStreamError
<1>7. CASE WatchMessage \/ \E t \in Targets : WatchTargetError(t) \/ WatchMismatch(t)
  BY <1>7, MessagePaced DEF WatchMessage, WatchTargetError, WatchMismatch
<1>8. CASE WatchHealthElapsed
  <2>1. Rested(HealthElapsed(watch.stream))
    BY HealthRested DEF PacedWatch
  <2> QED
    BY <1>8, <2>1 DEF WatchHealthElapsed, PacedWatch
<1>9. CASE WatchIdleElapsed
  BY <1>9, StopPaced DEF WatchIdleElapsed
<1>10. CASE OnlineStateTimeout
  BY <1>10 DEF OnlineStateTimeout, PacedWatch
<1>11. CASE \/ WriteMutations \/ RegisterPendingWritesCallback
            \/ \E n \in write.stream.auth : WriteCredentialsFail(n)
            \/ BackendReject \/ ReadUndecodable
            \/ \E status \in Errors : WriteStreamError(status)
            \/ WriteReactions
  BY <1>11, WritesKeepWatch
<1>12. CASE UNCHANGED vars
  BY <1>12 DEF vars
<1>13. ~WatchBackoffElapsed
  BY DEF WatchBackoffElapsed
<1>14. CASE WatchUndecodable
  <2>1. PICK s \in {watch.stream, ResetBackoff(watch.stream)} :
          watch' = CloseWatch([watch EXCEPT !.stream = s], net, "dataloss")
    BY <1>14 DEF WatchUndecodable
  <2>2. Rested(s)
    BY ResetRested DEF PacedWatch
  <2>3. PacedWatch([watch EXCEPT !.stream = s])
    BY <2>2 DEF PacedWatch
  <2> QED
    BY <2>1, <2>3, ClosePaced
<1> QED
  BY <1>1, <1>2, <1>3, <1>4, <1>5, <1>6, <1>7, <1>8, <1>9, <1>10, <1>11, <1>12,
     <1>13, <1>14
     DEF Next, Calls, Failures, WatchReactions, WatchTimers

\* The watch stream asks for credentials again when its backoff timer fires, or
\* when it owes no delay.
LEMMA WatchRetriesPaced ==
  Inv /\ [Next]_vars /\ Retries(watch.stream, watch'.stream)
    => watch.stream.waiting \/ watch'.stream.delay = 0
<1> SUFFICES ASSUME Inv, [Next]_vars, Retries(watch.stream, watch'.stream),
                    ~watch.stream.waiting
             PROVE  watch'.stream.delay = 0
  OBVIOUS
<1>1. watch \in WatchRecord /\ IsStream(watch.stream)
  BY GoodIsStream DEF Inv, WatchInv, GoodParts
<1>2. PacedWatch(watch)
  BY <1>1, WatchPaced DEF Rested, Retries
<1> QED
  BY <1>2, WatchStepPaced DEF PacedWatch, Rested, Retries

-----------------------------------------------------------------------------
(* The engine: the write half *)

\* A user's mutation queue, the batches with a callback and those the backend
\* has committed: they are queued, and committed in the order of the queue. next
\* is the next batch id, and left how many events are to come.
UserInv(q, waiting, done, next, left) ==
  /\ Ascends(q)
  /\ \A b \in Range(q) : b < next /\ b + left <= MaxEvents
  /\ waiting \subseteq Range(q)
  /\ done \subseteq Range(q)
  /\ \A i, j \in 1..Len(q) : i < j /\ q[j] \in done => q[i] \in done

\* The backend rejects writes only, ends the call with it, and has committed
\* what it acknowledged.
AnswersInv(responses, done) ==
  \A i \in 1..Len(responses) :
    /\ responses[i].rejected => responses[i].for # Handshake /\ i = Len(responses)
    /\ ~responses[i].rejected /\ responses[i].for # Handshake =>
         responses[i].for \in done

-----------------------------------------------------------------------------
(* One user *)

\* The ids of a queue without its first batch.
LEMMA RangeOfTail ==
  ASSUME NEW q, Ascends(q), q # <<>>
  PROVE  Range(Tail(q)) = Range(q) \ {Head(q)}
<1>1. /\ q \in Seq(BatchIds) /\ Len(q) \in Nat /\ Len(q) > 0
      /\ Head(q) = q[1] /\ Len(Tail(q)) = Len(q) - 1
      /\ Tail(q) \in Seq(BatchIds)
      /\ \A i \in 1..Len(Tail(q)) : Tail(q)[i] = q[i + 1]
  BY HeadTailProperties, EmptySeq DEF Ascends
<1>2. DOMAIN q = 1..Len(q) /\ DOMAIN Tail(q) = 1..(Len(q) - 1)
  BY <1>1
<1>3. ASSUME NEW b \in Range(Tail(q)) PROVE b \in Range(q) \ {Head(q)}
  <2>1. PICK i \in 1..(Len(q) - 1) : b = Tail(q)[i]
    BY <1>2 DEF Range
  <2>2. b = q[i + 1] /\ i + 1 \in 1..Len(q) /\ 1 \in 1..Len(q) /\ 1 < i + 1
    BY <1>1, <2>1
  <2>3. q[1] < q[i + 1] /\ q[1] \in Nat /\ q[i + 1] \in Nat
    BY <1>1, <2>2 DEF Ascends, BatchIds
  <2>4. b # q[1]
    BY <2>2, <2>3
  <2> QED
    BY <1>1, <1>2, <2>2, <2>4 DEF Range
<1>4. ASSUME NEW b \in Range(q), b # Head(q) PROVE b \in Range(Tail(q))
  <2>1. PICK i \in 1..Len(q) : b = q[i]
    BY <1>2 DEF Range
  <2>2. i # 1
    BY <1>1, <1>4, <2>1
  <2>3. i - 1 \in 1..(Len(q) - 1) /\ (i - 1) + 1 = i
    BY <1>1, <2>2
  <2>4. Tail(q)[i - 1] = b
    BY <1>1, <2>1, <2>3
  <2> QED
    BY <1>2, <2>3, <2>4 DEF Range
<1> QED
  BY <1>3, <1>4

\* Less may still happen, callbacks may be forgotten, and the next id be another
\* one that is higher than the queue.
LEMMA UserLater ==
  ASSUME NEW q, NEW waiting, NEW done, NEW next, NEW left \in Nat,
         UserInv(q, waiting, done, next, left),
         NEW w \in SUBSET waiting, NEW n, \A b \in Range(q) : b < n,
         NEW l \in Nat, l <= left
  PROVE  UserInv(q, w, done, n, l)
<1>1. \A b \in Range(q) : b \in Nat
  BY DEF UserInv, Ascends, BatchIds, Range
<1>2. \A b \in Range(q) : b + l <= MaxEvents
  BY <1>1, SettingsAssumption DEF UserInv
<1> QED
  BY <1>2 DEF UserInv

\* A batch is accepted.
LEMMA UserAppend ==
  ASSUME NEW q, NEW waiting, NEW done, NEW next \in BatchIds, NEW left \in Nat,
         UserInv(q, waiting, done, next, left),
         left > 0, next + left <= MaxEvents + 1
  PROVE  UserInv(Append(q, next), waiting \cup {next}, done, next + 1, left - 1)
<1> DEFINE a == Append(q, next)
           k == Len(q)
<1>1. /\ q \in Seq(BatchIds) /\ k \in Nat /\ next \in Nat
      /\ \A i \in 1..k : q[i] \in Nat
  BY DEF UserInv, Ascends, BatchIds
<1>2. /\ a \in Seq(BatchIds) /\ Len(a) = k + 1 /\ a[k + 1] = next
      /\ \A i \in 1..k : a[i] = q[i]
  BY <1>1, AppendProperties
<1>3. DOMAIN q = 1..k /\ DOMAIN a = 1..(k + 1)
  BY <1>1, <1>2
<1> HIDE DEF a
<1>4. \A i \in 1..k : q[i] \in Range(q)
  BY <1>3 DEF Range
<1> HIDE DEF k
<1>5. \A i \in 1..(k + 1) : i \in 1..k \/ i = k + 1
  BY <1>1
<1>6. Range(a) = Range(q) \cup {next}
  <2>1. Range(a) \subseteq Range(q) \cup {next}
    BY <1>2, <1>3, <1>4, <1>5 DEF Range
  <2>2. k + 1 \in 1..(k + 1) /\ \A i \in 1..k : i \in 1..(k + 1)
    BY <1>1
  <2>3. next \in Range(a)
    BY <1>2, <1>3, <2>2 DEF Range
  <2>4. Range(q) \subseteq Range(a)
    BY <1>2, <1>3, <2>2 DEF Range
  <2> QED
    BY <2>1, <2>3, <2>4
<1>7. \A i \in 1..k : q[i] < next
  BY <1>4 DEF UserInv
<1>8. Ascends(a)
  <2>1. ASSUME NEW i \in 1..(k + 1), NEW j \in 1..(k + 1), i < j
        PROVE  a[i] < a[j]
    <3>1. i \in 1..k
      BY <1>1, <2>1
    <3>2. CASE j \in 1..k
      BY <1>2, <2>1, <3>1, <3>2 DEF UserInv, Ascends, k
    <3>3. CASE j = k + 1
      BY <1>2, <1>7, <3>1, <3>3
    <3> QED
      BY <1>5, <3>2, <3>3
  <2> QED
    BY <1>2, <2>1 DEF Ascends
<1>9. \A b \in Range(a) : b < next + 1 /\ b + (left - 1) <= MaxEvents
  <2>1. \A b \in Range(q) : b \in Nat /\ b < next /\ b + left <= MaxEvents
    BY <1>1, <1>3 DEF UserInv, Range
  <2>2. next < next + 1 /\ next + (left - 1) <= MaxEvents
    BY <1>1, SettingsAssumption
  <2>3. \A b \in Range(q) : b < next + 1 /\ b + (left - 1) <= MaxEvents
    BY <1>1, <2>1, SettingsAssumption
  <2> QED
    BY <1>6, <2>2, <2>3
<1>10. \A i, j \in 1..(k + 1) : i < j /\ a[j] \in done => a[i] \in done
  <2>1. next \notin done
    BY <1>1 DEF UserInv
  <2> SUFFICES ASSUME NEW i \in 1..(k + 1), NEW j \in 1..(k + 1), i < j, a[j] \in done
               PROVE  a[i] \in done
    OBVIOUS
  <2>2. j \in 1..k
    BY <1>2, <1>5, <2>1
  <2>3. i \in 1..k
    BY <1>1, <2>2
  <2> QED
    BY <1>2, <2>2, <2>3 DEF UserInv, k
<1> QED
  BY <1>2, <1>6, <1>8, <1>9, <1>10 DEF UserInv, a

\* The first batch is resolved.
LEMMA UserTail ==
  ASSUME NEW q, NEW waiting, NEW done, NEW next, NEW left \in Nat,
         UserInv(q, waiting, done, next, left), q # <<>>
  PROVE  UserInv(Tail(q), waiting \ {Head(q)}, done \ {Head(q)}, next, left)
<1>1. Ascends(q) /\ Ascends(Tail(q)) /\ Len(Tail(q)) = Len(q) - 1
  BY TailAscends DEF UserInv
<1>2. Range(Tail(q)) = Range(q) \ {Head(q)}
  BY <1>1, RangeOfTail
<1>3. /\ Len(q) \in Nat /\ Len(q) > 0 /\ Head(q) = q[1] /\ Len(Tail(q)) = Len(q) - 1
      /\ \A i \in 1..Len(Tail(q)) : Tail(q)[i] = q[i + 1] /\ Tail(q)[i] \in Range(Tail(q))
  <2>1. /\ q \in Seq(BatchIds) /\ Len(q) \in Nat /\ Len(q) > 0 /\ Head(q) = q[1]
        /\ Len(Tail(q)) = Len(q) - 1 /\ Tail(q) \in Seq(BatchIds)
        /\ \A i \in 1..Len(Tail(q)) : Tail(q)[i] = q[i + 1]
    BY <1>1, HeadTailProperties, EmptySeq DEF Ascends
  <2> DEFINE t == Tail(q)
  <2> HIDE DEF t
  <2>2. DOMAIN t = 1..Len(t)
    BY <2>1 DEF t
  <2>3. \A i \in 1..Len(t) : t[i] \in Range(t)
    BY <2>2 DEF Range
  <2> QED
    BY <2>1, <2>3 DEF t
<1>4. ASSUME NEW i \in 1..Len(Tail(q)), NEW j \in 1..Len(Tail(q)), i < j,
             Tail(q)[j] \in done \ {Head(q)}
      PROVE  Tail(q)[i] \in done \ {Head(q)}
  <2>1. i + 1 \in 1..Len(q) /\ j + 1 \in 1..Len(q) /\ i + 1 < j + 1
    BY <1>3, <1>4
  <2>2. q[i + 1] \in done
    BY <1>3, <1>4, <2>1 DEF UserInv
  <2> QED
    BY <1>2, <1>3, <2>2
<1> QED
  BY <1>1, <1>2, <1>4 DEF UserInv

\* The backend commits the next batch, or one it committed before.
LEMMA UserCommit ==
  ASSUME NEW q, NEW waiting, NEW done, NEW next, NEW left,
         UserInv(q, waiting, done, next, left),
         NEW i \in 1..Len(q), \A j \in 1..(i - 1) : q[j] \in done
  PROVE  UserInv(q, waiting, done \cup {q[i]}, next, left)
<1>1. q \in Seq(BatchIds) /\ Len(q) \in Nat /\ q[i] \in Range(q)
  BY DEF UserInv, Ascends, Range
<1>2. ASSUME NEW k \in 1..Len(q), NEW j \in 1..Len(q), k < j, q[j] \in done \cup {q[i]}
      PROVE  q[k] \in done \cup {q[i]}
  <2>1. CASE q[j] \in done
    BY <1>2, <2>1 DEF UserInv
  <2>2. CASE q[j] = q[i]
    <3>1. ~(i < j)
      <4> SUFFICES ASSUME i < j PROVE FALSE
        OBVIOUS
      <4>1. q[i] < q[j] /\ q[i] \in Nat
        BY <1>1 DEF UserInv, Ascends, BatchIds
      <4> QED
        BY <2>2, <4>1
    <3>2. k \in 1..(i - 1)
      BY <1>1, <1>2, <3>1
    <3> QED
      BY <3>2
  <2> QED
    BY <1>2, <2>1, <2>2
<1> QED
  BY <1>1, <1>2 DEF UserInv

-----------------------------------------------------------------------------
(* Answers *)

\* The answers are for the batches at the front of the queue.
LEMMA AnswersAreFront ==
  ASSUME NEW p, NEW n \in BOOLEAN, PipelineInv(p, n),
         NEW q, Ascends(q), Loaded(p, q, n), p.handshake, p.responses # <<>>
  PROVE  \A i \in 1..Len(p.responses) : i \in 1..Len(q) /\ p.responses[i].for = q[i]
<1>1. IsOpen(p.stream)
  BY DEF PipelineInv, Sound, CallInv
<1>2. /\ Len(p.responses) \in Nat /\ Len(p.requests) \in Nat
      /\ Len(p.responses) + Len(p.requests) = Len(p.pipeline)
      /\ \A i \in 1..Len(p.responses) : p.responses[i].for = p.pipeline[i]
  BY <1>1 DEF PipelineInv, Sound, CallInv, InFlight, WriteRecord
<1>3. PICK k \in 0..Len(q) : p.pipeline = SubSeq(q, 1, k)
  BY LoadedPrefix
<1>4. /\ Len(p.pipeline) = k /\ \A i \in 1..k : p.pipeline[i] = q[i]
      /\ Len(q) \in Nat
  BY <1>3, PrefixOf DEF Ascends
<1> DEFINE a == Len(p.responses)
           b == Len(p.requests)
<1>5. a \in Nat /\ b \in Nat /\ a + b = k
  BY <1>2, <1>4
<1> HIDE DEF a, b
<1>6. \A i \in 1..a : i \in 1..k /\ i \in 1..Len(q)
  BY <1>4, <1>5
<1> QED
  BY <1>2, <1>4, <1>6 DEF a

\* A result is read: the answers left are for other batches.
LEMMA AnswersLeft ==
  ASSUME NEW p, NEW n \in BOOLEAN, PipelineInv(p, n),
         NEW q, Ascends(q), Loaded(p, q, n), p.handshake, p.responses # <<>>,
         NEW done, AnswersInv(p.responses, done)
  PROVE  AnswersInv(Tail(p.responses), done \ {Head(q)})
<1> DEFINE s == p.responses
<1>1. s \in Seq(Responses) /\ s # <<>>
  BY DEF PipelineInv, Sound, WriteRecord
<1>2. \A i \in 1..Len(s) : i \in 1..Len(q) /\ s[i].for = q[i]
  BY AnswersAreFront
<1>3. \A i \in 1..Len(s) :
        /\ s[i].rejected => s[i].for # Handshake /\ i = Len(s)
        /\ ~s[i].rejected /\ s[i].for # Handshake => s[i].for \in done
  BY DEF AnswersInv
<1> HIDE DEF s
<1>4. /\ Len(s) \in Nat /\ Len(s) > 0 /\ Len(Tail(s)) = Len(s) - 1
      /\ \A i \in 1..Len(Tail(s)) : Tail(s)[i] = s[i + 1]
  BY <1>1, HeadTailProperties, EmptySeq
<1>5. 1 \in 1..Len(s) /\ 1 \in 1..Len(q)
  BY <1>2, <1>4
<1>6. Head(q) = q[1]
  BY <1>5 DEF Ascends
<1>7. ASSUME NEW i \in 1..Len(Tail(s))
      PROVE  /\ Tail(s)[i].rejected =>
                  Tail(s)[i].for # Handshake /\ i = Len(Tail(s))
             /\ ~Tail(s)[i].rejected /\ Tail(s)[i].for # Handshake =>
                  Tail(s)[i].for \in done \ {Head(q)}
  <2>1. i + 1 \in 1..Len(s) /\ (i + 1 = Len(s) <=> i = Len(s) - 1) /\ 1 < i + 1
    BY <1>4
  <2>2. Tail(s)[i] = s[i + 1]
    BY <1>4
  <2>3. i + 1 \in 1..Len(q) /\ s[i + 1].for = q[i + 1]
    BY <1>2, <2>1
  <2>4. q[1] < q[i + 1] /\ q[1] \in Nat
    BY <1>5, <2>1, <2>3 DEF Ascends, BatchIds
  <2>5. s[i + 1].for # Head(q)
    BY <1>6, <2>3, <2>4
  <2> QED
    BY <1>3, <1>4, <2>1, <2>2, <2>5
<1> QED
  BY <1>7 DEF AnswersInv, s

\* The backend answers, or rejects, the next message.
LEMMA AnswersMore ==
  ASSUME NEW s, s \in Seq(Responses), NEW done, AnswersInv(s, done),
         \A i \in 1..Len(s) : ~s[i].rejected,
         NEW r \in Responses, NEW more, done \subseteq more,
         r.rejected => r.for # Handshake,
         ~r.rejected /\ r.for # Handshake => r.for \in more
  PROVE  AnswersInv(Append(s, r), more)
<1>1. /\ Len(s) \in Nat /\ Len(Append(s, r)) = Len(s) + 1
      /\ \A i \in 1..Len(s) : Append(s, r)[i] = s[i]
      /\ Append(s, r)[Len(s) + 1] = r
  BY AppendProperties
<1>2. ASSUME NEW i \in 1..Len(Append(s, r))
      PROVE  /\ Append(s, r)[i].rejected =>
                  Append(s, r)[i].for # Handshake /\ i = Len(Append(s, r))
             /\ ~Append(s, r)[i].rejected /\ Append(s, r)[i].for # Handshake =>
                  Append(s, r)[i].for \in more
  <2>1. CASE i = Len(s) + 1
    BY <1>1, <2>1
  <2>2. CASE i # Len(s) + 1
    <3>1. i \in 1..Len(s)
      BY <1>1, <2>2
    <3> QED
      BY <1>1, <3>1 DEF AnswersInv
  <2> QED
    BY <2>1, <2>2
<1> QED
  BY <1>2 DEF AnswersInv

\* What was rejected is the last thing on the call, and a write.
LEMMA RejectedFirst ==
  ASSUME NEW p, NEW n \in BOOLEAN, PipelineInv(p, n), NEW done,
         AnswersInv(p.responses, done), p.responses # <<>>,
         Head(p.responses).rejected
  PROVE  /\ RejectsHead(p, "permanent") /\ IsStarted(p.stream)
         /\ Head(p.responses).for = Head(p.pipeline)
<1>1. Sound(p) /\ p.responses \in Seq(Responses)
  BY DEF PipelineInv, Sound, WriteRecord
<1>2. Len(p.responses) \in Nat /\ Len(p.responses) > 0
      /\ Head(p.responses) = p.responses[1]
  BY <1>1, EmptySeq
<1>3. 1 \in 1..Len(p.responses)
  BY <1>2
<1>4. Head(p.responses).for # Handshake
  BY <1>2, <1>3 DEF AnswersInv
<1>5. /\ IsStarted(p.stream)
      /\ p.handshake => p.pipeline # <<>> /\ Head(p.responses).for = Head(p.pipeline)
      /\ ~p.handshake => Head(p.responses).for = Handshake
  BY <1>1, FirstAnswer
<1>6. p.handshake
  BY <1>1, <1>4, <1>5 DEF Sound, WriteRecord
<1> QED
  BY <1>5, <1>6 DEF RejectsHead, IsPermanentWriteError

-----------------------------------------------------------------------------
(* The invariant *)

SettingType == [targets : SUBSET Targets, users : SUBSET Users, events : 0..MaxEvents]
StoreType   == [queues : [Users -> Seq(BatchIds)],
                tokens : [Users -> Tokens \cup {NoToken}], ok : BOOLEAN]

\* What is persisted, and what the sync engine and the backend know of it.
EngineInv ==
  /\ user \in Users
  /\ setting \in SettingType
  /\ nextBatch \in BatchIds /\ nextBatch + setting.events <= MaxEvents + 1
  /\ store \in StoreType /\ store.ok
  /\ callbacks \in [Users -> SUBSET BatchIds]
  /\ committed \in [Users -> SUBSET BatchIds]
  /\ \A u \in Users : UserInv(store.queues[u], callbacks[u], committed[u],
                              nextBatch, setting.events)
  /\ waits \subseteq Range(Queue)

\* The write half, loaded from the queue of the user who is signed in.
ConnectionInv ==
  /\ net \in BOOLEAN
  /\ PipelineInv(write, net)
  /\ Loaded(write, Queue, net)
  /\ AnswersInv(write.responses, committed[user])

WriteInv == EngineInv /\ ConnectionInv

-----------------------------------------------------------------------------
(* The engine *)

\* Calls and failures use up the events, everything else leaves them alone.
Later == setting' = setting \/ Event \/ setting' = [setting EXCEPT !.events = 0]

LEMMA LaterIsLess ==
  ASSUME EngineInv, Later
  PROVE  /\ setting' \in SettingType /\ setting.events \in Nat
         /\ setting'.events \in 0..setting.events
         /\ Event => setting.events > 0 /\ setting'.events = setting.events - 1
<1>1. setting.events \in 0..MaxEvents /\ MaxEvents \in Nat
  BY SettingsAssumption DEF EngineInv, SettingType
<1>2. setting.events \in Nat
  BY <1>1
<1>3. CASE setting' = setting
  <2>1. ~Event
    <3> SUFFICES ASSUME Event PROVE FALSE
      OBVIOUS
    <3>1. setting'.events = setting.events - 1
      BY DEF Event, EngineInv, SettingType
    <3> QED
      BY <1>2, <1>3, <3>1
  <2> QED
    BY <1>1, <1>2, <1>3, <2>1 DEF EngineInv
<1>4. CASE Event
  <2>1. setting.events > 0 /\ setting' = [setting EXCEPT !.events = setting.events - 1]
    BY <1>4 DEF Event
  <2>2. setting.events - 1 \in 0..MaxEvents /\ setting.events - 1 \in 0..setting.events
    BY <1>1, <2>1
  <2> QED
    BY <1>2, <2>1, <2>2 DEF EngineInv, SettingType
<1>5. CASE setting' = [setting EXCEPT !.events = 0]
  <2>1. 0 \in 0..MaxEvents /\ 0 \in 0..setting.events
    BY <1>1, <1>2
  <2>2. setting' \in SettingType /\ setting'.events = 0
    BY <1>5, <2>1 DEF EngineInv, SettingType
  <2>3. Event => setting.events > 0 /\ setting'.events = setting.events - 1
    BY DEF Event, EngineInv, SettingType
  <2> QED
    BY <1>2, <2>1, <2>2, <2>3
<1> QED
  BY <1>3, <1>4, <1>5 DEF Later

\* Another batch id, if it is above what is queued; callbacks may be forgotten.
LEMMA EngineLater ==
  ASSUME EngineInv, Later, store'.queues = store.queues, committed' = committed,
         store' \in StoreType, store'.ok, user' \in Users,
         nextBatch' \in BatchIds, nextBatch' + setting'.events <= MaxEvents + 1,
         \A u \in Users : \A b \in Range(store.queues[u]) : b < nextBatch',
         callbacks' \in [Users -> SUBSET BatchIds],
         \A u \in Users : callbacks'[u] \subseteq callbacks[u],
         waits' \subseteq Range(store.queues[user'])
  PROVE  EngineInv'
<1>1. /\ setting' \in SettingType /\ setting.events \in Nat
      /\ setting'.events \in 0..setting.events
  BY LaterIsLess
<1>2. setting'.events \in Nat /\ setting'.events <= setting.events
  BY <1>1
<1>3. ASSUME NEW u \in Users
      PROVE  UserInv(store'.queues[u], callbacks'[u], committed'[u],
                     nextBatch', setting'.events)
  <2> DEFINE q == store.queues[u]
             w == callbacks[u]
             v == callbacks'[u]
             d == committed[u]
             n == nextBatch'
             k == setting.events
             l == setting'.events
  <2>1. UserInv(q, w, d, nextBatch, k) /\ v \in SUBSET w
    BY DEF EngineInv
  <2>2. \A b \in Range(q) : b < n
    OBVIOUS
  <2>3. l \in Nat /\ k \in Nat /\ l <= k
    BY <1>1, <1>2
  <2> HIDE DEF q, w, v, d, n, k, l
  <2>4. UserInv(q, v, d, n, l)
    BY <2>1, <2>2, <2>3, UserLater
  <2> QED
    BY <2>4 DEF q, v, d, n, l
<1> QED
  BY <1>1, <1>3 DEF EngineInv, Queue

\* Nothing changes but the token of the current user and the events left.
LEMMA EngineKept ==
  ASSUME EngineInv, Later, store'.queues = store.queues,
         store' \in StoreType, store'.ok,
         UNCHANGED <<user, nextBatch, callbacks, waits, committed>>
  PROVE  EngineInv'
<1>1. setting.events \in Nat /\ setting'.events \in 0..setting.events
  BY LaterIsLess
<1>2. nextBatch' + setting'.events <= MaxEvents + 1
  BY <1>1, SettingsAssumption DEF EngineInv, BatchIds
<1>3. \A u \in Users : \A b \in Range(store.queues[u]) : b < nextBatch'
  BY DEF EngineInv, UserInv
<1> QED
  BY <1>2, <1>3, EngineLater DEF EngineInv, Queue

\* The id that a starting client takes is above every queued one.
LEMMA IdAfterIsAbove ==
  ASSUME EngineInv, Later, NEW n \in IdAfter(store.queues)
  PROVE  /\ n \in BatchIds /\ n + setting'.events <= MaxEvents + 1
         /\ \A u \in Users : \A b \in Range(store.queues[u]) : b < n
<1> DEFINE ids == UNION {Range(store.queues[u]) : u \in Users}
<1>1. /\ n \in 1..(MaxEvents + 1) /\ \A b \in ids : b < n
      /\ n = 1 \/ n - 1 \in ids
  BY DEF IdAfter
<1>2. /\ setting' \in SettingType /\ setting.events \in Nat
      /\ setting'.events \in 0..setting.events
  BY LaterIsLess
<1>3. \A b \in ids : b + setting.events <= MaxEvents
  BY DEF EngineInv, UserInv
<1>4. setting'.events \in 0..MaxEvents /\ MaxEvents \in Nat
  BY <1>2, SettingsAssumption DEF SettingType
<1>5. n + setting'.events <= MaxEvents + 1
  <2>1. CASE n = 1
    BY <1>4, <2>1
  <2>2. CASE n - 1 \in ids
    <3>1. (n - 1) + setting.events <= MaxEvents
      BY <1>3, <2>2
    <3> HIDE DEF ids
    <3> QED
      BY <1>1, <1>2, <1>4, <3>1
  <2> QED
    BY <1>1, <2>1, <2>2
<1>6. n \in BatchIds
  BY <1>1, <1>4 DEF BatchIds
<1> QED
  BY <1>1, <1>5, <1>6

\* A batch is written under the next id.
LEMMA EngineWrites == EngineInv /\ WriteMutations => EngineInv'
<1> SUFFICES ASSUME EngineInv, WriteMutations PROVE EngineInv'
  OBVIOUS
<1> DEFINE l == setting.events
           q == Append(Queue, nextBatch)
<1>1. /\ setting' \in SettingType /\ l \in Nat /\ l > 0 /\ setting'.events = l - 1
  BY LaterIsLess DEF WriteMutations, Later
<1>2. /\ nextBatch \in BatchIds /\ nextBatch + l <= MaxEvents + 1
      /\ user \in Users /\ store \in StoreType /\ store.ok
      /\ callbacks \in [Users -> SUBSET BatchIds]
  BY DEF EngineInv
<1>3. /\ store' = [store EXCEPT !.queues[user] = q]
      /\ callbacks' = [callbacks EXCEPT ![user] = callbacks[user] \cup {nextBatch}]
      /\ nextBatch' = nextBatch + 1
      /\ UNCHANGED <<user, waits, committed>>
  BY <1>2 DEF WriteMutations, Queue, StoreType
<1>4. UserInv(Queue, callbacks[user], committed[user], nextBatch, l)
  BY <1>2 DEF EngineInv, Queue
<1>5. UserInv(q, callbacks[user] \cup {nextBatch}, committed[user], nextBatch + 1, l - 1)
  BY <1>1, <1>2, <1>4, UserAppend
<1>6. q \in Seq(BatchIds) /\ Range(Queue) \subseteq Range(q)
  <2> DEFINE s == Queue
  <2>1. s \in Seq(BatchIds) /\ nextBatch \in BatchIds /\ Len(s) \in Nat
    BY <1>2, <1>4 DEF UserInv, Ascends
  <2> HIDE DEF s
  <2> DEFINE a == Append(s, nextBatch)
  <2>2. /\ a \in Seq(BatchIds) /\ Len(a) = Len(s) + 1
        /\ \A i \in 1..Len(s) : a[i] = s[i]
    BY <2>1, AppendProperties
  <2> HIDE DEF a
  <2>3. /\ DOMAIN s = 1..Len(s) /\ DOMAIN a = 1..Len(a)
        /\ \A i \in 1..Len(s) : i \in 1..Len(a)
    BY <2>1, <2>2
  <2>4. Range(s) \subseteq Range(a)
    BY <2>2, <2>3 DEF Range
  <2> QED
    BY <2>2, <2>4 DEF a, s
<1> HIDE DEF q
<1>7. /\ store' \in StoreType /\ store'.ok /\ store'.queues[user] = q
      /\ \A u \in Users : u # user => store'.queues[u] = store.queues[u]
  BY <1>2, <1>3, <1>6 DEF StoreType
<1>8. /\ callbacks' \in [Users -> SUBSET BatchIds]
      /\ callbacks'[user] = callbacks[user] \cup {nextBatch}
      /\ \A u \in Users : u # user => callbacks'[u] = callbacks[u]
  BY <1>2, <1>3
<1>9. /\ nextBatch' \in BatchIds /\ nextBatch' + setting'.events <= MaxEvents + 1
  BY <1>1, <1>2, <1>3, SettingsAssumption DEF BatchIds
<1>10. ASSUME NEW u \in Users
       PROVE  UserInv(store'.queues[u], callbacks'[u], committed'[u],
                      nextBatch', setting'.events)
  <2>1. CASE u = user
    BY <1>1, <1>3, <1>5, <1>7, <1>8, <2>1
  <2>2. CASE u # user
    <3> DEFINE s == store.queues[u]
               w == callbacks[u]
               d == committed[u]
    <3>1. UserInv(s, w, d, nextBatch, l)
      BY DEF EngineInv
    <3>2. \A b \in Range(s) : b \in Nat /\ b < nextBatch
      BY <3>1 DEF UserInv, Ascends, BatchIds, Range
    <3> HIDE DEF s, w, d, l
    <3>3. \A b \in Range(s) : b < nextBatch + 1
      BY <1>2, <3>2 DEF BatchIds
    <3>4. l - 1 \in Nat /\ l - 1 <= l
      BY <1>1
    <3>5. UserInv(s, w, d, nextBatch + 1, l - 1)
      BY <1>1, <3>1, <3>3, <3>4, UserLater
    <3> QED
      BY <1>1, <1>3, <1>7, <1>8, <2>2, <3>5 DEF s, w, d
  <2> QED
    BY <2>1, <2>2
<1>11. waits' \subseteq Range(Queue')
  BY <1>3, <1>6, <1>7 DEF EngineInv, Queue
<1> QED
  BY <1>1, <1>2, <1>3, <1>7, <1>8, <1>9, <1>10, <1>11 DEF EngineInv

\* The backend commits the batch it reads next.
LEMMA EngineCommits ==
  ASSUME EngineInv, UNCHANGED <<engine, setting>>,
         NEW i \in 1..Len(Queue), \A j \in 1..(i - 1) : Queue[j] \in committed[user],
         committed' = [committed EXCEPT ![user] = @ \cup {Queue[i]}]
  PROVE  EngineInv'
<1>1. /\ user \in Users /\ committed \in [Users -> SUBSET BatchIds]
      /\ UserInv(Queue, callbacks[user], committed[user], nextBatch, setting.events)
  BY DEF EngineInv, Queue
<1>2. UserInv(Queue, callbacks[user], committed[user] \cup {Queue[i]},
              nextBatch, setting.events)
  BY <1>1, UserCommit
<1>3. Queue[i] \in BatchIds
  BY <1>1 DEF UserInv, Ascends
<1> DEFINE b == Queue[i]
<1>4. /\ committed' \in [Users -> SUBSET BatchIds]
      /\ committed'[user] = committed[user] \cup {b}
      /\ \A u \in Users : u # user => committed'[u] = committed[u]
  <2>1. b \in BatchIds /\ committed' = [committed EXCEPT ![user] = committed[user] \cup {b}]
    BY <1>3
  <2> HIDE DEF b
  <2> QED
    BY <1>1, <2>1
<1>5. ASSUME NEW u \in Users
      PROVE  UserInv(store.queues[u], callbacks[u], committed'[u],
                     nextBatch, setting.events)
  <2>1. CASE u = user
    BY <1>2, <1>4, <2>1 DEF Queue
  <2>2. CASE u # user
    BY <1>4, <2>2 DEF EngineInv
  <2> QED
    BY <2>1, <2>2
<1>6. Queue' = Queue
  BY DEF engine, Queue
<1> QED
  BY <1>4, <1>5, <1>6 DEF EngineInv, engine

\* The oldest batch is resolved and leaves its queue.
LEMMA EngineResolves ==
  ASSUME EngineInv, Later, UNCHANGED <<user, nextBatch>>, Queue # <<>>,
         NEW queues, queues \in StoreType, queues.queues = store.queues, queues.ok,
         NEW how, Resolve(Head(Queue), how, queues)
  PROVE  /\ EngineInv'
         /\ Queue' = Tail(Queue) /\ store'.queues[user] = Tail(Queue)
         /\ committed'[user] = committed[user] \ {Head(Queue)}
         /\ \A u \in Users : u # user => store'.queues[u] = store.queues[u]
         /\ store'.queues = [store.queues EXCEPT ![user] = Tail(Queue)]
         /\ committed' = [committed EXCEPT ![user] = @ \ {Head(Queue)}]
         /\ resolved' = [user |-> user, batch |-> Head(Queue), how |-> how]
<1> DEFINE b == Head(Queue)
           t == Tail(Queue)
           l == setting.events
<1>1. /\ setting' \in SettingType /\ l \in Nat /\ setting'.events \in 0..l
  BY LaterIsLess
<1>2. /\ user \in Users /\ nextBatch \in BatchIds /\ nextBatch + l <= MaxEvents + 1
      /\ callbacks \in [Users -> SUBSET BatchIds]
      /\ committed \in [Users -> SUBSET BatchIds]
      /\ waits \subseteq Range(Queue)
      /\ UserInv(Queue, callbacks[user], committed[user], nextBatch, l)
  BY DEF EngineInv, Queue
<1>3. /\ UserInv(t, callbacks[user] \ {b}, committed[user] \ {b}, nextBatch, l)
      /\ t \in Seq(BatchIds) /\ Range(t) = Range(Queue) \ {b}
  <2>1. UserInv(t, callbacks[user] \ {b}, committed[user] \ {b}, nextBatch, l)
    BY <1>1, <1>2, UserTail
  <2>2. Range(t) = Range(Queue) \ {b}
    BY <1>2, RangeOfTail DEF UserInv
  <2> HIDE DEF t
  <2> QED
    BY <2>1, <2>2 DEF UserInv, Ascends
<1>4. /\ callbacks' = [callbacks EXCEPT ![user] = callbacks[user] \ {b}]
      /\ waits' = waits \ {b}
      /\ committed' = [committed EXCEPT ![user] = committed[user] \ {b}]
      /\ resolved' = [user |-> user, batch |-> b, how |-> how]
  BY <1>2 DEF Resolve
<1>5. store' = [queues EXCEPT !.queues = [store.queues EXCEPT ![user] = t],
                              !.ok = TRUE]
  <2>1. store' = [queues EXCEPT !.queues[user] = Tail(@),
                                !.ok = @ /\ Queue # <<>> /\ Head(Queue) = b]
    BY DEF Resolve
  <2>2. Tail(queues.queues[user]) = t
    BY DEF Queue
  <2> QED
    BY <2>1, <2>2 DEF StoreType
<1> HIDE DEF b, t
<1>6. /\ store' \in StoreType /\ store'.ok
      /\ store'.queues = [store.queues EXCEPT ![user] = t]
      /\ store'.queues[user] = t
      /\ \A u \in Users : u # user => store'.queues[u] = store.queues[u]
  BY <1>2, <1>3, <1>5 DEF StoreType, EngineInv
<1>7. /\ callbacks' \in [Users -> SUBSET BatchIds]
      /\ callbacks'[user] = callbacks[user] \ {b}
      /\ \A u \in Users : u # user => callbacks'[u] = callbacks[u]
  BY <1>2, <1>4
<1>8. /\ committed' \in [Users -> SUBSET BatchIds]
      /\ committed'[user] = committed[user] \ {b}
      /\ \A u \in Users : u # user => committed'[u] = committed[u]
  BY <1>2, <1>4
<1>9. /\ setting'.events \in Nat /\ setting'.events <= l
      /\ nextBatch + setting'.events <= MaxEvents + 1
  BY <1>1, <1>2, SettingsAssumption DEF BatchIds
<1>10. ASSUME NEW u \in Users
       PROVE  UserInv(store'.queues[u], callbacks'[u], committed'[u],
                      nextBatch, setting'.events)
  <2> DEFINE q == store'.queues[u]
             w == callbacks'[u]
             d == committed'[u]
             m == setting'.events
  <2>1. UserInv(q, w, d, nextBatch, l)
    <3>1. CASE u = user
      BY <1>3, <1>6, <1>7, <1>8, <3>1
    <3>2. CASE u # user
      BY <1>6, <1>7, <1>8, <3>2 DEF EngineInv
    <3> QED
      BY <3>1, <3>2
  <2>2. w \in SUBSET w /\ m \in Nat /\ m <= l /\ l \in Nat
    BY <1>1, <1>9
  <2> HIDE DEF q, w, d, m, l
  <2>3. \A c \in Range(q) : c < nextBatch
    BY <2>1 DEF UserInv
  <2>4. UserInv(q, w, d, nextBatch, m)
    BY <2>1, <2>2, <2>3, UserLater
  <2> QED
    BY <2>4 DEF q, w, d, m
<1>11. Queue' = t
  BY <1>6 DEF Queue
<1>12. waits' \subseteq Range(Queue')
  BY <1>2, <1>3, <1>4, <1>11
<1>13. EngineInv'
  BY <1>1, <1>2, <1>6, <1>7, <1>8, <1>9, <1>10, <1>12 DEF EngineInv
<1> QED
  BY <1>4, <1>6, <1>8, <1>11, <1>13 DEF b, t

-----------------------------------------------------------------------------
(* The write stream *)

LEMMA NoAnswers == \A done : AnswersInv(<<>>, done)
BY DEF AnswersInv

\* The stored token may be replaced by any token, or reset.
LEMMA StoredToken ==
  ASSUME EngineInv, NEW t \in Tokens \cup {NoToken}
  PROVE  LET s == [store EXCEPT !.tokens[user] = t]
         IN  s \in StoreType /\ s.queues = store.queues /\ s.ok
BY DEF EngineInv, StoreType

\* What EngineInv says of the queue of the user who is signed in.
LEMMA CurrentQueue ==
  ASSUME EngineInv
  PROVE  /\ Ascends(Queue) /\ user \in Users
         /\ store.tokens[user] \in Tokens \cup {NoToken}
         /\ \A u \in Users : Ascends(store.queues[u])
         /\ \A u \in Users : store.tokens[u] \in Tokens \cup {NoToken}
BY DEF EngineInv, UserInv, Queue, StoreType

\* The write half changes and keeps its pipeline, and answers are added or lost.
LEMMA SamePipeline ==
  ASSUME WriteInv, UNCHANGED <<net, user, store>>, PipelineInv(write', net),
         write'.pipeline = write.pipeline, AnswersInv(write'.responses, committed'[user])
  PROVE  ConnectionInv'
BY DEF WriteInv, ConnectionInv, Loaded, Queue

\* The stream closes, from whatever was left of the write half.
LEMMA ClosesKeepsInv ==
  ASSUME WriteInv, Later, UNCHANGED <<net, user, nextBatch>>,
         NEW p, PipelineInv(p, net), Loaded(p, Queue, net), IsStarted(p.stream),
         NEW status \in Statuses, status = "ok" => p.pipeline = <<>>,
         WriteStreamCloses(p, status)
  PROVE  WriteInv'
<1> DEFINE q2 == IF RejectsHead(p, status) THEN Tail(Queue) ELSE Queue
           r  == CloseWrite(p, net, q2, status)
<1>1. net \in BOOLEAN /\ Ascends(Queue)
  BY CurrentQueue DEF WriteInv, ConnectionInv
<1>2. PipelineInv(r, net) /\ Loaded(r, q2, net) /\ r.responses = <<>>
  BY <1>1, CloseWriteInv
<1>3. AnswersInv(r.responses, committed'[user])
  BY <1>2, NoAnswers
<1> HIDE DEF r
<1>4. CASE RejectsHead(p, status)
  <2>1. p.pipeline # <<>>
    BY <1>4 DEF RejectsHead
  <2>2. Queue # <<>> /\ Head(p.pipeline) = Head(Queue)
    BY <1>1, <2>1, LoadedTail
  <2>3. /\ Resolve(Head(Queue), status, store)
        /\ write' = CloseWrite(p, net, store'.queues[user], status)
    BY <1>4, <2>2 DEF WriteStreamCloses
  <2>4. store \in StoreType /\ store.queues = store.queues /\ store.ok
    BY DEF WriteInv, EngineInv
  <2>5. EngineInv' /\ Queue' = Tail(Queue) /\ store'.queues[user] = Tail(Queue)
    BY <2>2, <2>3, <2>4, EngineResolves DEF WriteInv
  <2>6. write' = r /\ Queue' = q2
    BY <1>4, <2>3, <2>5 DEF r
  <2>7. ConnectionInv'
    BY <1>1, <1>2, <1>3, <2>6 DEF ConnectionInv
  <2> QED
    BY <2>5, <2>7 DEF WriteInv
<1>5. CASE ~RejectsHead(p, status)
  <2>1. /\ write' = CloseWrite(p, net, Queue, status)
        /\ store' = [store EXCEPT !.tokens[user] =
                       IF ResetsToken(p, status) THEN NoToken ELSE @]
        /\ UNCHANGED <<callbacks, waits, committed, resolved>>
    BY <1>5 DEF WriteStreamCloses
  <2>2. PICK t \in Tokens \cup {NoToken} : store' = [store EXCEPT !.tokens[user] = t]
    <3>1. store.tokens[user] \in Tokens \cup {NoToken}
      BY CurrentQueue DEF WriteInv
    <3>2. CASE ResetsToken(p, status)
      BY <2>1, <3>2
    <3>3. CASE ~ResetsToken(p, status)
      BY <2>1, <3>1, <3>3
    <3> QED
      BY <3>2, <3>3
  <2>3. store' \in StoreType /\ store'.queues = store.queues /\ store'.ok
    BY <2>2, StoredToken DEF WriteInv
  <2>4. EngineInv'
    BY <2>1, <2>3, EngineKept DEF WriteInv
  <2>5. write' = r /\ Queue' = q2
    BY <1>5, <2>1, <2>3 DEF r, Queue
  <2>6. ConnectionInv'
    BY <1>1, <1>2, <1>3, <2>5 DEF ConnectionInv
  <2> QED
    BY <2>4, <2>6 DEF WriteInv
<1> QED
  BY <1>4, <1>5

\* A credential answer is forgotten.
LEMMA ForgetInv ==
  ASSUME NEW p, NEW b \in BOOLEAN, PipelineInv(p, b), NEW n
  PROVE  LET r == [p EXCEPT !.stream.auth = @ \ {n}]
         IN  /\ PipelineInv(r, b) /\ r.pipeline = p.pipeline
             /\ r.responses = p.responses
             /\ IsStarted(r.stream) <=> IsStarted(p.stream)
<1> DEFINE t == [p.stream EXCEPT !.auth = @ \ {n}]
           r == [p EXCEPT !.stream.auth = @ \ {n}]
<1>1. GoodStream(t) /\ t.state = p.stream.state /\ t.idle = p.stream.idle
  BY ForgetGood DEF PipelineInv, Sound
<1>2. r = [p EXCEPT !.stream = t]
  BY DEF PipelineInv, Sound, WriteRecord
<1>3. (IsOpen(t) <=> IsOpen(p.stream)) /\ (IsStarted(t) <=> IsStarted(p.stream))
  BY <1>1 DEF IsOpen, IsStarted
<1> HIDE DEF t, r
<1>4. /\ PipelineInv(r, b) /\ r.pipeline = p.pipeline
      /\ r.responses = p.responses
  BY <1>1, <1>2, <1>3, StreamOnly
<1>5. r.stream = t
  BY <1>2 DEF PipelineInv, Sound, WriteRecord
<1> QED
  BY <1>3, <1>4, <1>5 DEF r

\* The credentials arrive, or answer an attempt that was given up.
LEMMA CredentialsKeepInv ==
  ASSUME WriteInv, NEW n \in write.stream.auth, WriteCredentialsArrive(n)
  PROVE  WriteInv'
<1>1. /\ UNCHANGED <<net, user, store, nextBatch, callbacks, waits, committed, setting>>
      /\ write' = IF IsStale(write.stream, n)
                  THEN [write EXCEPT !.stream.auth = @ \ {n}]
                  ELSE WriteCredentials(write, n)
  BY DEF WriteCredentialsArrive, engine
<1>2. EngineInv'
  BY <1>1, EngineKept DEF WriteInv, Later, EngineInv
<1>3. net \in BOOLEAN /\ PipelineInv(write, net)
  BY DEF WriteInv, ConnectionInv
<1>4. CASE IsStale(write.stream, n)
  <2> DEFINE r == [write EXCEPT !.stream.auth = @ \ {n}]
  <2>1. write' = r
    BY <1>1, <1>4
  <2>2. /\ PipelineInv(r, net) /\ r.pipeline = write.pipeline
        /\ r.responses = write.responses
    BY <1>3, ForgetInv
  <2> HIDE DEF r
  <2>3. ConnectionInv'
    BY <1>1, <2>1, <2>2, SamePipeline DEF WriteInv, ConnectionInv
  <2> QED
    BY <1>2, <2>3 DEF WriteInv
<1>5. CASE ~IsStale(write.stream, n)
  <2>1. n = write.stream.closes
    BY <1>5 DEF IsStale
  <2>2. write' = WriteCredentials(write, write.stream.closes)
    BY <1>1, <1>5, <2>1
  <2>3. /\ PipelineInv(write', net) /\ write'.pipeline = write.pipeline
        /\ write'.responses = <<>>
    BY <1>3, <2>1, <2>2, WriteCredentialsInv
  <2>4. ConnectionInv'
    BY <1>1, <2>3, NoAnswers, SamePipeline
  <2> QED
    BY <1>2, <2>4 DEF WriteInv
<1> QED
  BY <1>4, <1>5

LEMMA CredentialsFailKeepsInv ==
  ASSUME WriteInv, NEW n \in write.stream.auth, WriteCredentialsFail(n)
  PROVE  WriteInv'
<1> DEFINE p == [write EXCEPT !.stream.auth = @ \ {n}]
<1>1. Event /\ ~IsStale(write.stream, n) /\ UNCHANGED <<net, user, nextBatch>>
      /\ WriteStreamCloses(p, "transient")
  BY DEF WriteCredentialsFail
<1>2. net \in BOOLEAN /\ PipelineInv(write, net) /\ Loaded(write, Queue, net)
  BY DEF WriteInv, ConnectionInv
<1>3. IsStarted(write.stream)
  BY <1>1, <1>2 DEF IsStale, PipelineInv, Sound, GoodStream, StreamInv, IsStarted
<1>4. PipelineInv(p, net) /\ IsStarted(p.stream) /\ p.pipeline = write.pipeline
  BY <1>2, <1>3, ForgetInv
<1> HIDE DEF p
<1>5. Loaded(p, Queue, net)
  BY <1>2, <1>4 DEF Loaded
<1>6. "transient" \in Statuses /\ "transient" # "ok" /\ Later
  BY <1>1 DEF Statuses, Errors, Later
<1> QED
  BY <1>1, <1>4, <1>5, <1>6, ClosesKeepsInv

\* The message the backend reads next, when it is a write.
LEMMA NextOnTheWire ==
  ASSUME WriteInv, BackendAccepts, Head(write.requests) # Handshake
  PROVE  \E i \in 1..Len(Queue) : /\ Head(write.requests) = Queue[i]
                                  /\ \A j \in 1..(i - 1) : Queue[j] \in committed[user]
<1> DEFINE n == Len(write.responses)
<1>1. net \in BOOLEAN /\ PipelineInv(write, net) /\ Loaded(write, Queue, net)
      /\ AnswersInv(write.responses, committed[user])
  BY DEF WriteInv, ConnectionInv
<1>2. Ascends(Queue) /\ write.requests # <<>>
      /\ \A i \in 1..n : ~write.responses[i].rejected
  BY CurrentQueue DEF WriteInv, BackendAccepts
<1>3. /\ n \in Nat /\ n + 1 \in 1..Len(Queue) /\ Head(write.requests) = Queue[n + 1]
      /\ \A i \in 1..n : write.responses[i].for = Queue[i]
  BY <1>1, <1>2, AnswersInOrder
<1>4. ASSUME NEW j \in 1..n PROVE Queue[j] \in committed[user]
  <2>1. j \in 1..Len(Queue)
    BY <1>3
  <2>2. Queue[j] # Handshake
    BY <1>2, <2>1 DEF Ascends, BatchIds, Handshake
  <2> QED
    BY <1>1, <1>2, <1>3, <2>2 DEF AnswersInv
<1> HIDE DEF n
<1>5. (n + 1) - 1 = n
  BY <1>3
<1> QED
  BY <1>3, <1>4, <1>5

\* The backend answers the next message.
LEMMA AnswerKeepsInv == WriteInv /\ BackendAnswer => WriteInv'
<1> SUFFICES ASSUME WriteInv, BackendAnswer PROVE WriteInv'
  OBVIOUS
<1> DEFINE m == Head(write.requests)
           r == [for |-> m, token |-> user, rejected |-> FALSE]
<1>1. /\ BackendAccepts /\ write.requests # <<>>
      /\ write' = [write EXCEPT !.requests = Tail(@), !.responses = Append(@, r)]
      /\ committed' = [committed EXCEPT ![user] = IF m = Handshake THEN @ ELSE @ \cup {m}]
      /\ UNCHANGED <<net, user, store, nextBatch, callbacks, waits, setting>>
  BY DEF BackendAnswer, BackendAccepts, engine
<1>2. net \in BOOLEAN /\ PipelineInv(write, net)
      /\ AnswersInv(write.responses, committed[user])
      /\ write.responses \in Seq(Responses)
  BY DEF WriteInv, ConnectionInv, PipelineInv, Sound, WriteRecord
<1>3. m \in BatchIds \cup {Handshake}
  BY <1>1, <1>2, HeadTailProperties DEF PipelineInv, Sound, WriteRecord
<1>4. user \in Tokens /\ user \in Users /\ committed \in [Users -> SUBSET BatchIds]
  BY UsersAssumption DEF WriteInv, EngineInv
<1>5. r \in Responses /\ r.for = m /\ ~r.rejected
  BY <1>3, <1>4 DEF Responses
<1>6. PipelineInv(write', net) /\ write'.pipeline = write.pipeline
  BY <1>1, <1>2, <1>5, AnswerSound
<1>7. write'.responses = Append(write.responses, r)
  BY <1>1, <1>2 DEF PipelineInv, Sound, WriteRecord
<1>8. /\ EngineInv' /\ committed[user] \subseteq committed'[user]
      /\ m # Handshake => m \in committed'[user]
  <2>1. CASE m = Handshake
    <3>1. committed' = committed
      BY <1>1, <1>4, <2>1
    <3>2. EngineInv'
      BY <1>1, <3>1, EngineKept DEF WriteInv, Later, EngineInv
    <3> QED
      BY <2>1, <3>1, <3>2
  <2>2. CASE m # Handshake
    <3>1. PICK i \in 1..Len(Queue) : /\ m = Queue[i]
                                     /\ \A j \in 1..(i - 1) : Queue[j] \in committed[user]
      BY <1>1, <2>2, NextOnTheWire
    <3>2. committed' = [committed EXCEPT ![user] = @ \cup {m}]
      BY <1>1, <2>2
    <3>3. EngineInv'
      BY <1>1, <3>1, <3>2, EngineCommits DEF WriteInv, engine
    <3>4. committed'[user] = committed[user] \cup {m}
      BY <1>4, <3>2
    <3> QED
      BY <3>3, <3>4
  <2> QED
    BY <2>1, <2>2
<1> HIDE DEF m, r
<1>9. AnswersInv(write'.responses, committed'[user])
  BY <1>1, <1>2, <1>5, <1>7, <1>8, AnswersMore DEF BackendAccepts
<1>10. ConnectionInv'
  BY <1>1, <1>6, <1>9, SamePipeline
<1> QED
  BY <1>8, <1>10 DEF WriteInv

\* The backend rejects the next write.
LEMMA RejectKeepsInv == WriteInv /\ BackendReject => WriteInv'
<1> SUFFICES ASSUME WriteInv, BackendReject PROVE WriteInv'
  OBVIOUS
<1> DEFINE m == Head(write.requests)
           r == [for |-> m, token |-> user, rejected |-> TRUE]
<1>1. /\ Event /\ BackendAccepts /\ write.requests # <<>> /\ m # Handshake
      /\ write' = [write EXCEPT !.requests = Tail(@), !.responses = Append(@, r)]
      /\ UNCHANGED <<net, user, store, nextBatch, callbacks, waits, committed>>
  BY DEF BackendReject, BackendAccepts, engine
<1>2. net \in BOOLEAN /\ PipelineInv(write, net)
      /\ AnswersInv(write.responses, committed[user])
      /\ write.responses \in Seq(Responses)
  BY DEF WriteInv, ConnectionInv, PipelineInv, Sound, WriteRecord
<1>3. m \in BatchIds \cup {Handshake}
  BY <1>1, <1>2, HeadTailProperties DEF PipelineInv, Sound, WriteRecord
<1>4. user \in Tokens
  BY UsersAssumption DEF WriteInv, EngineInv
<1>5. r \in Responses /\ r.for = m /\ r.rejected
  BY <1>3, <1>4 DEF Responses
<1>6. PipelineInv(write', net) /\ write'.pipeline = write.pipeline
  BY <1>1, <1>2, <1>5, AnswerSound
<1>7. write'.responses = Append(write.responses, r)
  BY <1>1, <1>2 DEF PipelineInv, Sound, WriteRecord
<1>8. EngineInv'
  BY <1>1, EngineKept DEF WriteInv, Later, EngineInv
<1> HIDE DEF m, r
<1>9. AnswersInv(write'.responses, committed'[user])
  BY <1>1, <1>2, <1>5, <1>7, AnswersMore DEF BackendAccepts
<1>10. ConnectionInv'
  BY <1>1, <1>6, <1>9, SamePipeline
<1> QED
  BY <1>8, <1>10 DEF WriteInv

\* The first response completes the handshake; its token is stored.
LEMMA HandshakeKeepsInv == WriteInv /\ ReadHandshakeResponse => WriteInv'
<1> SUFFICES ASSUME WriteInv, ReadHandshakeResponse PROVE WriteInv'
  OBVIOUS
<1>1. /\ write.responses # <<>> /\ ~write.handshake
      /\ write' = OnWriteStreamHandshakeComplete(write)
      /\ store' = [store EXCEPT !.tokens[user] = write'.token]
      /\ UNCHANGED <<net, user, nextBatch, callbacks, waits, committed, setting>>
  BY DEF ReadHandshakeResponse
<1>2. net \in BOOLEAN /\ PipelineInv(write, net) /\ Loaded(write, Queue, net)
  BY DEF WriteInv, ConnectionInv
<1>3. /\ PipelineInv(write', net) /\ write'.pipeline = write.pipeline
      /\ write'.token \in Tokens /\ write'.responses = <<>>
  BY <1>1, <1>2, HandshakeInv
<1>4. store' \in StoreType /\ store'.queues = store.queues /\ store'.ok
  BY <1>1, <1>3, StoredToken DEF WriteInv
<1>5. EngineInv'
  BY <1>1, <1>4, EngineKept DEF WriteInv, Later
<1>6. Queue' = Queue /\ AnswersInv(write'.responses, committed'[user])
  BY <1>1, <1>3, <1>4, NoAnswers DEF Queue
<1>7. ConnectionInv'
  BY <1>1, <1>2, <1>3, <1>6 DEF ConnectionInv, Loaded
<1> QED
  BY <1>5, <1>7 DEF WriteInv

\* What reading a result does: the oldest batch, which was committed, leaves.
LEMMA ResultResolves ==
  ASSUME WriteInv, ReadMutationResult
  PROVE  /\ WriteInv' /\ UNCHANGED <<user, nextBatch>> /\ Queue # <<>>
         /\ Head(Queue) \in committed[user]
         /\ write.responses # <<>> /\ Head(write.responses).for = Head(Queue)
         /\ store'.queues = [store.queues EXCEPT ![user] = Tail(Queue)]
         /\ committed' = [committed EXCEPT ![user] = @ \ {Head(Queue)}]
         /\ resolved' = [user |-> user, batch |-> Head(Queue), how |-> "acked"]
<1> DEFINE p == PopResult(write)
           r == FillWritePipeline(p, net, Tail(Queue))
           queues == [store EXCEPT !.tokens[user] = p.token]
<1>1. /\ write.responses # <<>> /\ write.handshake /\ ~Head(write.responses).rejected
      /\ Resolve(Head(write.pipeline), "acked", queues)
      /\ write' = FillWritePipeline(p, net, store'.queues[user])
      /\ UNCHANGED <<net, user, nextBatch, setting>>
  BY DEF ReadMutationResult
<1>2. /\ net \in BOOLEAN /\ PipelineInv(write, net) /\ Loaded(write, Queue, net)
      /\ AnswersInv(write.responses, committed[user]) /\ Ascends(Queue)
  BY CurrentQueue DEF WriteInv, ConnectionInv
<1>3. /\ PipelineInv(r, net) /\ Loaded(r, Tail(Queue), net)
      /\ r.responses = Tail(write.responses) /\ p.token \in Tokens
      /\ Queue # <<>> /\ Head(write.pipeline) = Head(Queue)
      /\ Head(write.responses).for = Head(Queue)
  BY <1>1, <1>2, ResultInv
<1>4. Head(Queue) \in committed[user]
  <2>1. write.responses \in Seq(Responses) /\ Queue \in Seq(BatchIds)
    BY <1>2 DEF PipelineInv, Sound, WriteRecord, Ascends
  <2>2. Head(write.responses) = write.responses[1] /\ 1 \in 1..Len(write.responses)
    BY <1>1, <2>1, EmptySeq
  <2>3. Head(Queue) \in BatchIds
    BY <1>3, <2>1
  <2>4. Head(Queue) # Handshake
    BY <2>3 DEF BatchIds, Handshake
  <2> QED
    BY <1>1, <1>2, <1>3, <2>2, <2>4 DEF AnswersInv
<1>5. queues \in StoreType /\ queues.queues = store.queues /\ queues.ok
  BY <1>3, StoredToken DEF WriteInv
<1>6. AnswersInv(Tail(write.responses), committed[user] \ {Head(Queue)})
  BY <1>1, <1>2, AnswersLeft
<1> HIDE DEF r, p, queues
<1>7. /\ EngineInv' /\ Queue' = Tail(Queue) /\ store'.queues[user] = Tail(Queue)
      /\ committed'[user] = committed[user] \ {Head(Queue)}
      /\ store'.queues = [store.queues EXCEPT ![user] = Tail(Queue)]
      /\ committed' = [committed EXCEPT ![user] = @ \ {Head(Queue)}]
      /\ resolved' = [user |-> user, batch |-> Head(Queue), how |-> "acked"]
  BY <1>1, <1>3, <1>5, EngineResolves DEF WriteInv, Later
<1>8. write' = r
  BY <1>1, <1>7 DEF r
<1>9. ConnectionInv'
  BY <1>1, <1>2, <1>3, <1>6, <1>7, <1>8 DEF ConnectionInv
<1> QED
  BY <1>1, <1>3, <1>4, <1>7, <1>9 DEF WriteInv

\* What reading a rejection does: the batch it is for leaves.
LEMMA RejectionResolves ==
  ASSUME WriteInv, ReadRejection
  PROVE  /\ WriteInv' /\ UNCHANGED <<user, nextBatch>> /\ Queue # <<>>
         /\ Head(write.responses).for = Head(Queue)
         /\ store'.queues = [store.queues EXCEPT ![user] = Tail(Queue)]
         /\ committed' = [committed EXCEPT ![user] = @ \ {Head(Queue)}]
         /\ resolved' = [user |-> user, batch |-> Head(Queue), how |-> "permanent"]
<1>1. /\ write.responses # <<>> /\ Head(write.responses).rejected
      /\ WriteStreamCloses(write, "permanent")
      /\ UNCHANGED <<net, user, nextBatch, setting>>
  BY DEF ReadRejection
<1>2. /\ net \in BOOLEAN /\ PipelineInv(write, net) /\ Loaded(write, Queue, net)
      /\ AnswersInv(write.responses, committed[user]) /\ Ascends(Queue)
  BY CurrentQueue DEF WriteInv, ConnectionInv
<1>3. /\ RejectsHead(write, "permanent") /\ IsStarted(write.stream)
      /\ Head(write.responses).for = Head(write.pipeline)
  BY <1>1, <1>2, RejectedFirst
<1>4. Queue # <<>> /\ Head(write.pipeline) = Head(Queue)
  BY <1>2, <1>3, LoadedTail DEF RejectsHead
<1>5. "permanent" \in Statuses /\ "permanent" # "ok" /\ Later
  BY <1>1 DEF Statuses, Errors, Later
<1>6. WriteInv'
  BY <1>1, <1>2, <1>3, <1>5, ClosesKeepsInv
<1>7. Resolve(Head(Queue), "permanent", store)
  BY <1>1, <1>3, <1>4 DEF WriteStreamCloses
<1>8. store \in StoreType /\ store.queues = store.queues /\ store.ok
  BY DEF WriteInv, EngineInv
<1>9. /\ store'.queues = [store.queues EXCEPT ![user] = Tail(Queue)]
      /\ committed' = [committed EXCEPT ![user] = @ \ {Head(Queue)}]
      /\ resolved' = [user |-> user, batch |-> Head(Queue), how |-> "permanent"]
  BY <1>1, <1>4, <1>5, <1>7, <1>8, EngineResolves DEF WriteInv
<1> QED
  BY <1>1, <1>3, <1>4, <1>6, <1>9

\* A close that resolves nothing leaves the queues, and what the backend decided
\* about their batches, alone.
LEMMA CloseKeepsQueues ==
  ASSUME EngineInv, NEW p, NEW status, WriteStreamCloses(p, status),
         ~RejectsHead(p, status)
  PROVE  store'.queues = store.queues /\ UNCHANGED <<committed, resolved>>
BY DEF WriteStreamCloses, EngineInv, StoreType

\* A response that cannot be decoded may have replaced the token and reset the
\* backoff before that shows; the pipeline and what is in flight are as before.
LEMMA UndecodedInv ==
  ASSUME NEW p, NEW up \in BOOLEAN, PipelineInv(p, up), p.responses # <<>>,
         NEW r \in Undecoded(p)
  PROVE  /\ PipelineInv(r, up) /\ r.pipeline = p.pipeline
         /\ r.handshake = p.handshake /\ IsStarted(r.stream)
<1>1. Sound(p) /\ GoodStream(p.stream) /\ IsStarted(p.stream)
      /\ Head(p.responses) \in Responses
  BY FirstAnswer DEF PipelineInv, Sound
<1>2. CASE r = p
  BY <1>1, <1>2
<1>3. CASE r # p
  <2> DEFINE t == ResetBackoff(p.stream)
             v == [p EXCEPT !.stream = t]
             x == Head(p.responses).token
  <2>1. r = [p EXCEPT !.token = x, !.stream = t]
    BY <1>3 DEF Undecoded
  <2>2. GoodStream(t) /\ t.idle = p.stream.idle /\ t.state = p.stream.state
    BY <1>1, ResetGood
  <2>3. (IsOpen(t) <=> IsOpen(p.stream)) /\ (IsStarted(t) <=> IsStarted(p.stream))
    BY <2>2 DEF IsOpen, IsStarted
  <2>4. x \in Tokens
    BY <1>1 DEF Responses
  <2> HIDE DEF t, x
  <2>5. /\ r \in WriteRecord /\ r.stream = t /\ r.pipeline = p.pipeline
        /\ r.handshake = p.handshake /\ r.ok = p.ok
        /\ r.responses = p.responses /\ r.requests = p.requests
    BY <1>1, <2>1, <2>2, <2>4 DEF Sound, WriteRecord, GoodStream
  <2>6. CallInv(r)
    BY <1>1, <2>3, <2>5 DEF Sound, CallInv
  <2>7. Sound(r)
    BY <1>1, <2>2, <2>3, <2>5, <2>6 DEF Sound
  <2> QED
    BY <1>1, <2>3, <2>5, <2>7 DEF PipelineInv
<1> QED
  BY <1>2, <1>3

\* What the close finds after an undecodable response. A handshake fails; after it
\* the head of the pipeline is rejected, and it is the batch of that response.
LEMMA UndecodableCloses ==
  ASSUME WriteInv, ReadUndecodable
  PROVE  \E p : /\ WriteStreamCloses(p, "dataloss") /\ WriteInv'
                /\ UNCHANGED <<net, user, nextBatch>> /\ Later
                /\ ~write.handshake => ~RejectsHead(p, "dataloss")
                /\ write.handshake =>
                     /\ RejectsHead(p, "dataloss") /\ Queue # <<>>
                     /\ Head(p.pipeline) = Head(Queue)
                     /\ Head(write.responses).for = Head(Queue)
<1>1. PICK p \in Undecoded(write) : WriteStreamCloses(p, "dataloss")
  BY DEF ReadUndecodable
<1>2. write.responses # <<>> /\ Event /\ UNCHANGED <<net, user, nextBatch>>
  BY DEF ReadUndecodable
<1>3. /\ net \in BOOLEAN /\ PipelineInv(write, net) /\ Loaded(write, Queue, net)
      /\ Ascends(Queue)
  BY CurrentQueue DEF WriteInv, ConnectionInv
<1>4. /\ PipelineInv(p, net) /\ p.pipeline = write.pipeline
      /\ p.handshake = write.handshake /\ IsStarted(p.stream)
  BY <1>2, <1>3, UndecodedInv
<1>5. Loaded(p, Queue, net)
  BY <1>3, <1>4 DEF Loaded
<1>6. "dataloss" \in Statuses /\ "dataloss" # "ok" /\ Later
  BY <1>2 DEF Statuses, Later
<1>7. WriteInv'
  BY <1>1, <1>2, <1>4, <1>5, <1>6, ClosesKeepsInv
<1>8. ASSUME write.handshake
      PROVE  /\ RejectsHead(p, "dataloss") /\ Queue # <<>>
             /\ Head(p.pipeline) = Head(Queue)
             /\ Head(write.responses).for = Head(Queue)
  <2>1. write.pipeline # <<>> /\ Head(write.responses).for = Head(write.pipeline)
    BY <1>2, <1>3, <1>8, FirstAnswer DEF PipelineInv
  <2>2. Queue # <<>> /\ Head(write.pipeline) = Head(Queue)
    BY <1>3, <2>1, LoadedTail
  <2> QED
    BY <1>4, <1>8, <2>1, <2>2 DEF RejectsHead, IsPermanentWriteError
<1>9. ~write.handshake => ~RejectsHead(p, "dataloss")
  BY <1>4 DEF RejectsHead
<1> QED
  BY <1>1, <1>2, <1>6, <1>7, <1>8, <1>9

\* What an undecodable response after the handshake does: the batch it is for
\* leaves, committed or not.
UnreadableResult == ReadUndecodable /\ write.handshake

LEMMA UnreadableResolves ==
  ASSUME WriteInv, UnreadableResult
  PROVE  /\ WriteInv' /\ UNCHANGED <<user, nextBatch>> /\ Queue # <<>>
         /\ write.responses # <<>> /\ ~Head(write.responses).rejected
         /\ Head(write.responses).for = Head(Queue)
         /\ store'.queues = [store.queues EXCEPT ![user] = Tail(Queue)]
         /\ committed' = [committed EXCEPT ![user] = @ \ {Head(Queue)}]
         /\ resolved' = [user |-> user, batch |-> Head(Queue), how |-> "dataloss"]
<1>1. /\ ReadUndecodable /\ write.handshake /\ write.responses # <<>>
      /\ ~Head(write.responses).rejected
  BY DEF UnreadableResult, ReadUndecodable
<1>2. PICK p : /\ WriteStreamCloses(p, "dataloss") /\ WriteInv'
               /\ UNCHANGED <<net, user, nextBatch>> /\ Later
               /\ RejectsHead(p, "dataloss") /\ Queue # <<>>
               /\ Head(p.pipeline) = Head(Queue)
               /\ Head(write.responses).for = Head(Queue)
  BY <1>1, UndecodableCloses
<1>3. Resolve(Head(Queue), "dataloss", store)
  BY <1>2 DEF WriteStreamCloses
<1>4. store \in StoreType /\ store.queues = store.queues /\ store.ok
  BY DEF WriteInv, EngineInv
<1>5. /\ store'.queues = [store.queues EXCEPT ![user] = Tail(Queue)]
      /\ committed' = [committed EXCEPT ![user] = @ \ {Head(Queue)}]
      /\ resolved' = [user |-> user, batch |-> Head(Queue), how |-> "dataloss"]
  BY <1>2, <1>3, <1>4, EngineResolves DEF WriteInv
<1> QED
  BY <1>1, <1>2, <1>5

\* An undecodable answer to the handshake resolves nothing.
LEMMA UnreadableHandshakeKeepsInv ==
  ASSUME WriteInv, ReadUndecodable, ~write.handshake
  PROVE  WriteInv' /\ store'.queues = store.queues /\ UNCHANGED <<committed, resolved>>
<1>1. PICK p : /\ WriteStreamCloses(p, "dataloss") /\ WriteInv'
               /\ ~RejectsHead(p, "dataloss")
  BY UndecodableCloses
<1> QED
  BY <1>1, CloseKeepsQueues DEF WriteInv

\* gRPC ends the call; the idle timer closes it.
LEMMA ErrorKeepsInv ==
  ASSUME WriteInv, NEW status \in Errors, WriteStreamError(status)
  PROVE  WriteInv' /\ store'.queues = store.queues /\ UNCHANGED <<committed, resolved>>
<1>1. /\ Event /\ IsOpen(write.stream) /\ (write.handshake => status # "permanent")
      /\ WriteStreamCloses(write, status) /\ UNCHANGED <<net, user, nextBatch>>
  BY DEF WriteStreamError
<1>2. PipelineInv(write, net) /\ Loaded(write, Queue, net) /\ IsStarted(write.stream)
  BY <1>1 DEF WriteInv, ConnectionInv, IsStarted
<1>3. status \in Statuses /\ status # "ok" /\ Later
  BY <1>1 DEF Statuses, Errors, Later
<1>4. ~RejectsHead(write, status)
  BY <1>1 DEF RejectsHead, IsPermanentWriteError, Errors
<1>5. WriteInv'
  BY <1>1, <1>2, <1>3, ClosesKeepsInv
<1> QED
  BY <1>1, <1>4, <1>5, CloseKeepsQueues DEF WriteInv

LEMMA IdleKeepsInv ==
  ASSUME WriteInv, WriteIdleElapsed
  PROVE  WriteInv' /\ store'.queues = store.queues /\ UNCHANGED <<committed, resolved>>
<1>1. /\ write.stream.idle /\ WriteStreamCloses(write, "ok")
      /\ UNCHANGED <<net, user, nextBatch, setting>>
  BY DEF WriteIdleElapsed
<1>2. PipelineInv(write, net) /\ Loaded(write, Queue, net)
  BY DEF WriteInv, ConnectionInv
<1>3. write.pipeline = <<>> /\ IsStarted(write.stream)
  BY <1>1, <1>2 DEF PipelineInv, Sound, GoodStream, StreamInv, IsStarted
<1>4. "ok" \in Statuses /\ Later /\ ~RejectsHead(write, "ok")
  BY <1>1 DEF Statuses, Later, RejectsHead
<1>5. WriteInv'
  BY <1>1, <1>2, <1>3, <1>4, ClosesKeepsInv
<1> QED
  BY <1>1, <1>4, <1>5, CloseKeepsQueues DEF WriteInv

\* Refused credentials close the stream before a handshake.
LEMMA RefusalKeepsQueues ==
  ASSUME WriteInv, NEW n \in write.stream.auth, WriteCredentialsFail(n)
  PROVE  store'.queues = store.queues /\ UNCHANGED <<committed, resolved>>
<1> DEFINE p == [write EXCEPT !.stream.auth = @ \ {n}]
<1>1. WriteStreamCloses(p, "transient") /\ ~RejectsHead(p, "transient")
  BY DEF WriteCredentialsFail, RejectsHead, IsPermanentWriteError
<1> HIDE DEF p
<1> QED
  BY <1>1, CloseKeepsQueues DEF WriteInv

\* The backoff timer and the health check.
LEMMA TimersKeepInv == WriteInv /\ (WriteBackoffElapsed \/ WriteHealthElapsed) => WriteInv'
<1> SUFFICES ASSUME WriteInv, WriteBackoffElapsed \/ WriteHealthElapsed PROVE WriteInv'
  OBVIOUS
<1>1. UNCHANGED <<net, user, store, nextBatch, callbacks, waits, committed, setting>>
  BY DEF WriteBackoffElapsed, WriteHealthElapsed, engine
<1>2. EngineInv'
  BY <1>1, EngineKept DEF WriteInv, Later, EngineInv
<1>3. net \in BOOLEAN /\ PipelineInv(write, net) /\ GoodStream(write.stream)
      /\ AnswersInv(write.responses, committed[user])
  BY DEF WriteInv, ConnectionInv, PipelineInv, Sound
<1>4. PICK t : /\ write' = [write EXCEPT !.stream = t]
               /\ GoodStream(t) /\ (t.idle => write.stream.idle)
               /\ IsOpen(t) <=> IsOpen(write.stream)
               /\ IsStarted(t) <=> IsStarted(write.stream)
  <2>1. CASE WriteBackoffElapsed
    <3> DEFINE t == BackoffElapsed(write.stream)
    <3>1. write.stream.waiting /\ write' = [write EXCEPT !.stream = t]
      BY <2>1 DEF WriteBackoffElapsed
    <3>2. GoodStream(t) /\ IsStarted(t) /\ ~IsOpen(t) /\ ~t.idle
      BY <1>3, <3>1, BackoffElapsedGood
    <3>3. IsStarted(write.stream) /\ ~IsOpen(write.stream)
      BY <1>3, <3>1 DEF GoodStream, StreamInv, IsStarted, IsOpen
    <3> HIDE DEF t
    <3> QED
      BY <3>1, <3>2, <3>3
  <2>2. CASE WriteHealthElapsed
    <3> DEFINE t == HealthElapsed(write.stream)
    <3>1. write' = [write EXCEPT !.stream = t]
      BY <2>2 DEF WriteHealthElapsed
    <3>2. /\ GoodStream(t) /\ t.idle = write.stream.idle
          /\ IsOpen(t) <=> IsOpen(write.stream)
          /\ IsStarted(t) <=> IsStarted(write.stream)
      BY <1>3, HealthGood
    <3> HIDE DEF t
    <3> QED
      BY <3>1, <3>2
  <2> QED
    BY <2>1, <2>2
<1>5. /\ PipelineInv(write', net) /\ write'.pipeline = write.pipeline
      /\ write'.responses = write.responses
  BY <1>3, <1>4, StreamOnly
<1>6. ConnectionInv'
  BY <1>1, <1>3, <1>5, SamePipeline
<1> QED
  BY <1>2, <1>6 DEF WriteInv

-----------------------------------------------------------------------------
(* Calls *)

\* The network is enabled, disabled or restarted, and the client shut down.
LEMMA NetworkKeepsInv ==
  ASSUME WriteInv, EnableNetwork \/ DisableNetwork \/ Shutdown \/ ConnectivityChange
  PROVE  WriteInv' /\ store'.queues = store.queues /\ UNCHANGED <<committed, resolved>>
<1>1. /\ Later
      /\ UNCHANGED <<user, store, nextBatch, callbacks, waits, committed, resolved>>
  BY DEF EnableNetwork, DisableNetwork, Shutdown, ConnectivityChange, engine, Later
<1>2. EngineInv' /\ Queue' = Queue
  BY <1>1, EngineKept DEF WriteInv, EngineInv, Queue
<1>3. /\ net \in BOOLEAN /\ PipelineInv(write, net) /\ Loaded(write, Queue, net)
      /\ AnswersInv(write.responses, committed[user])
      /\ Ascends(Queue) /\ store.tokens[user] \in Tokens \cup {NoToken}
  BY CurrentQueue DEF WriteInv, ConnectionInv
<1>4. /\ net' \in BOOLEAN /\ PipelineInv(write', net') /\ Loaded(write', Queue, net')
      /\ AnswersInv(write'.responses, committed[user])
  <2>1. CASE EnableNetwork
    <3>1. net' = TRUE /\ write' = EnableWrite(write, Queue, store.tokens[user])
      BY <2>1 DEF EnableNetwork
    <3>2. /\ PipelineInv(write', TRUE) /\ Loaded(write', Queue, TRUE)
          /\ write'.responses = write.responses
      BY <1>3, <3>1, EnableWriteInv
    <3> QED
      BY <1>3, <3>1, <3>2
  <2>2. CASE DisableNetwork \/ Shutdown
    <3>1. net' = FALSE /\ write' = DisableWrite(write)
      BY <2>2 DEF DisableNetwork, Shutdown
    <3>2. PipelineInv(write', FALSE) /\ write'.pipeline = <<>> /\ write'.responses = <<>>
      BY <1>3, <3>1, DisableWriteInv
    <3>3. Loaded(write', Queue, FALSE)
      BY <1>3, <3>2, EmptyIsLoaded
    <3> QED
      BY <3>1, <3>2, <3>3, NoAnswers
  <2>3. CASE ConnectivityChange
    <3>1. net /\ net' = net /\ write' = RestartWrite(write, Queue, store.tokens[user])
      BY <2>3 DEF ConnectivityChange
    <3>2. /\ PipelineInv(write', TRUE) /\ Loaded(write', Queue, TRUE)
          /\ write'.responses = <<>>
      BY <1>3, <3>1, RestartWriteInv
    <3>3. net' = TRUE
      BY <1>3, <3>1
    <3> QED
      BY <3>2, <3>3, NoAnswers
  <2> QED
    BY <2>1, <2>2, <2>3
<1>5. ConnectionInv'
  BY <1>1, <1>2, <1>4 DEF ConnectionInv
<1> QED
  BY <1>1, <1>2, <1>5 DEF WriteInv

\* Another user, or the same one with a new token.
LEMMA UserChangeKeepsInv ==
  ASSUME WriteInv, NEW u \in Users, CredentialChange(u)
  PROVE  WriteInv' /\ store'.queues = store.queues /\ UNCHANGED <<committed, resolved>>
<1>1. /\ Event /\ user' = u
      /\ UNCHANGED <<net, store, callbacks, committed, resolved>>
      /\ IF u = user
         THEN UNCHANGED <<waits, nextBatch>>
         ELSE waits' = {} /\ nextBatch' \in IdAfter(store.queues)
      /\ IF net
         THEN write' = RestartWrite(write, store.queues[u], store.tokens[u])
         ELSE write' = write
  BY DEF CredentialChange
<1>2. /\ net \in BOOLEAN /\ PipelineInv(write, net) /\ Loaded(write, Queue, net)
      /\ AnswersInv(write.responses, committed[user])
      /\ Ascends(store.queues[u]) /\ store.tokens[u] \in Tokens \cup {NoToken}
  BY CurrentQueue DEF WriteInv, ConnectionInv
<1>3. Later
  BY <1>1 DEF Later
<1>4. EngineInv'
  <2>1. CASE u = user
    BY <1>1, <1>3, <2>1, EngineKept DEF WriteInv, EngineInv
  <2>2. CASE u # user
    <3>1. waits' = {} /\ nextBatch' \in IdAfter(store.queues)
      BY <1>1, <2>2
    <3>2. /\ nextBatch' \in BatchIds /\ nextBatch' + setting'.events <= MaxEvents + 1
          /\ \A v \in Users : \A b \in Range(store.queues[v]) : b < nextBatch'
      BY <1>3, <3>1, IdAfterIsAbove DEF WriteInv
    <3> QED
      BY <1>1, <1>3, <3>1, <3>2, EngineLater DEF WriteInv, EngineInv
  <2> QED
    BY <2>1, <2>2
<1>5. Queue' = store.queues[u]
  BY <1>1 DEF Queue
<1>6. /\ PipelineInv(write', net) /\ Loaded(write', store.queues[u], net)
      /\ AnswersInv(write'.responses, committed[u])
  <2>1. CASE net
    <3>1. write' = RestartWrite(write, store.queues[u], store.tokens[u])
      BY <1>1, <2>1
    <3>2. /\ PipelineInv(write', TRUE) /\ Loaded(write', store.queues[u], TRUE)
          /\ write'.responses = <<>>
      BY <1>2, <3>1, RestartWriteInv
    <3>3. net = TRUE
      BY <1>2, <2>1
    <3> QED
      BY <3>2, <3>3, NoAnswers
  <2>2. CASE ~net
    <3>1. write' = write /\ net = FALSE
      BY <1>1, <1>2, <2>2
    <3>2. write.pipeline = SubSeq(Queue, 1, 0)
      BY <1>2, <3>1 DEF Loaded, Room
    <3>3. SubSeq(Queue, 1, 0) = <<>>
      <4>1. Queue \in Seq(BatchIds) /\ Len(Queue) \in Nat
        BY CurrentQueue DEF WriteInv, Ascends
      <4>2. SubSeq(Queue, 1, 0) \in Seq(BatchIds) /\ Len(SubSeq(Queue, 1, 0)) = 0
        BY <4>1, PrefixOf
      <4> QED
        BY <4>2, EmptySeq
    <3>4. Loaded(write, store.queues[u], FALSE)
      BY <1>2, <3>2, <3>3, EmptyIsLoaded
    <3>5. write.responses = <<>>
      <4>1. ~IsStarted(write.stream)
        BY <1>2, <3>1 DEF PipelineInv
      <4> QED
        BY <1>2, <4>1, RestingIsClosed DEF PipelineInv, Sound, CallInv
    <3> QED
      BY <1>2, <3>1, <3>4, <3>5, NoAnswers
  <2> QED
    BY <2>1, <2>2
<1>7. ConnectionInv'
  BY <1>1, <1>2, <1>5, <1>6 DEF ConnectionInv
<1> QED
  BY <1>1, <1>4, <1>7 DEF WriteInv

\* The process starts again on what was persisted.
LEMMA RestartKeepsInv ==
  ASSUME WriteInv, Restart
  PROVE  WriteInv' /\ store'.queues = store.queues /\ UNCHANGED <<committed, resolved>>
<1>1. /\ Event /\ net' = TRUE /\ nextBatch' \in IdAfter(store.queues)
      /\ write' = EnableWrite(NewWrite, Queue, store.tokens[user])
      /\ callbacks' = [u \in Users |-> {}] /\ waits' = {}
      /\ UNCHANGED <<user, store, committed, resolved>>
  BY DEF Restart
<1>2. Ascends(Queue) /\ store.tokens[user] \in Tokens \cup {NoToken}
  BY CurrentQueue DEF WriteInv
<1>3. Later
  BY <1>1 DEF Later
<1>4. /\ nextBatch' \in BatchIds /\ nextBatch' + setting'.events <= MaxEvents + 1
      /\ \A v \in Users : \A b \in Range(store.queues[v]) : b < nextBatch'
  BY <1>1, <1>3, IdAfterIsAbove DEF WriteInv
<1>5. EngineInv'
  BY <1>1, <1>3, <1>4, EngineLater DEF WriteInv, EngineInv
<1> DEFINE p == NewWrite
<1>6. PipelineInv(p, FALSE) /\ p.pipeline = <<>> /\ p.responses = <<>>
  BY NewWriteInv DEF NewWrite
<1> HIDE DEF p
<1>7. Loaded(p, Queue, FALSE)
  BY <1>2, <1>6, EmptyIsLoaded
<1>8. write' = EnableWrite(p, Queue, store.tokens[user])
  BY <1>1 DEF p
<1>9. /\ PipelineInv(write', TRUE) /\ Loaded(write', Queue, TRUE)
      /\ write'.responses = <<>>
  BY <1>2, <1>6, <1>7, <1>8, EnableWriteInv
<1>10. Queue' = Queue
  BY <1>1 DEF Queue
<1>11. ConnectionInv'
  BY <1>1, <1>9, <1>10, NoAnswers DEF ConnectionInv
<1> QED
  BY <1>1, <1>5, <1>11 DEF WriteInv

\* A write is queued and, if there is room, sent.
LEMMA WriteKeepsInv == WriteInv /\ WriteMutations => WriteInv'
<1> SUFFICES ASSUME WriteInv, WriteMutations PROVE WriteInv'
  OBVIOUS
<1>1. /\ UNCHANGED <<net, user, committed>>
      /\ store' = [store EXCEPT !.queues[user] = Append(@, nextBatch)]
      /\ write' = FillWritePipeline(write, net, store'.queues[user])
  BY DEF WriteMutations
<1>2. EngineInv'
  BY EngineWrites DEF WriteInv
<1>3. /\ net \in BOOLEAN /\ PipelineInv(write, net) /\ Loaded(write, Queue, net)
      /\ AnswersInv(write.responses, committed[user]) /\ Ascends(Queue)
      /\ user \in Users /\ store \in StoreType /\ nextBatch \in BatchIds
  BY CurrentQueue DEF WriteInv, ConnectionInv, EngineInv
<1> DEFINE q == Append(Queue, nextBatch)
<1>4. store'.queues[user] = q /\ Queue' = q
  BY <1>1, <1>3 DEF Queue, StoreType
<1>5. Ascends(q)
  BY <1>1, <1>2, <1>4 DEF EngineInv, UserInv
<1>6. PICK k \in 0..Len(Queue) : /\ write.pipeline = SubSeq(Queue, 1, k)
                                 /\ k <= MaxPendingWrites /\ (~net => k = 0)
  BY <1>3, LoadedPrefix
<1>7. SubSeq(Queue, 1, k) = SubSeq(q, 1, k) /\ k \in 0..Len(q)
  <2> DEFINE s == Queue
             a == SubSeq(s, 1, k)
             b == SubSeq(q, 1, k)
  <2>1. /\ s \in Seq(BatchIds) /\ Len(s) \in Nat /\ k \in 0..Len(s)
    BY <1>3 DEF Ascends
  <2>2. /\ q \in Seq(BatchIds) /\ Len(q) = Len(s) + 1
        /\ \A i \in 1..Len(s) : q[i] = s[i]
    BY <1>3, <2>1, AppendProperties
  <2> HIDE DEF s, q
  <2>3. k \in 0..Len(q) /\ \A i \in 1..k : i \in 1..Len(s)
    BY <2>1, <2>2
  <2>4. /\ a \in Seq(BatchIds) /\ Len(a) = k /\ \A i \in 1..k : a[i] = s[i]
    BY <2>1, PrefixOf
  <2>5. /\ b \in Seq(BatchIds) /\ Len(b) = k /\ \A i \in 1..k : b[i] = q[i]
    BY <2>2, <2>3, PrefixOf
  <2> HIDE DEF a, b
  <2>6. a = b
    BY <2>2, <2>3, <2>4, <2>5, SeqEqual
  <2> QED
    BY <2>3, <2>6 DEF a, b, s
<1> HIDE DEF q
<1>8. Sound(write) /\ (write.handshake => IsOpen(write.stream))
      /\ (IsStarted(write.stream) => net)
  BY <1>3 DEF PipelineInv
<1> DEFINE r == FillWritePipeline(write, net, q)
<1>9. write.pipeline = SubSeq(q, 1, k)
  BY <1>6, <1>7
<1>10. PipelineInv(r, net) /\ Loaded(r, q, net) /\ r.responses = write.responses
  BY <1>3, <1>5, <1>6, <1>7, <1>8, <1>9, FillInv
<1>11. write' = r
  BY <1>1, <1>4
<1> HIDE DEF r
<1>12. ConnectionInv'
  BY <1>1, <1>3, <1>4, <1>10, <1>11 DEF ConnectionInv
<1> QED
  BY <1>2, <1>12 DEF WriteInv

\* A callback waits for the batch that is now the last one.
LEMMA WaitKeepsInv == WriteInv /\ RegisterPendingWritesCallback => WriteInv'
<1> SUFFICES ASSUME WriteInv, RegisterPendingWritesCallback PROVE WriteInv'
  OBVIOUS
<1>1. /\ Event /\ waits' = IF Queue = <<>> THEN waits ELSE waits \cup {Last(Queue)}
      /\ UNCHANGED <<net, write, user, store, nextBatch, callbacks, committed>>
  BY DEF RegisterPendingWritesCallback, remote
<1>2. Queue # <<>> => Last(Queue) \in Range(Queue)
  <2> SUFFICES ASSUME Queue # <<>> PROVE Last(Queue) \in Range(Queue)
    OBVIOUS
  <2>1. Queue \in Seq(BatchIds)
    BY CurrentQueue DEF WriteInv, Ascends
  <2> DEFINE s == Queue
  <2> HIDE DEF s
  <2>2. s \in Seq(BatchIds) /\ s # <<>> /\ Len(s) \in Nat
    BY <2>1 DEF s
  <2>3. Len(s) \in 1..Len(s) /\ DOMAIN s = 1..Len(s)
    BY <2>2, EmptySeq
  <2> QED
    BY <2>3 DEF Last, Range, s
<1>3. waits' \subseteq Range(Queue)
  BY <1>1, <1>2 DEF WriteInv, EngineInv
<1>4. Later
  BY <1>1 DEF Later
<1>5. setting.events \in Nat /\ setting'.events \in 0..setting.events
  BY <1>4, LaterIsLess DEF WriteInv
<1>6. nextBatch' + setting'.events <= MaxEvents + 1
  BY <1>1, <1>5, SettingsAssumption DEF WriteInv, EngineInv, BatchIds
<1>7. \A u \in Users : \A b \in Range(store.queues[u]) : b < nextBatch'
  BY <1>1 DEF WriteInv, EngineInv, UserInv
<1>8. EngineInv'
  BY <1>1, <1>3, <1>4, <1>6, <1>7, EngineLater DEF WriteInv, EngineInv, Queue
<1>9. ConnectionInv'
  BY <1>1 DEF WriteInv, ConnectionInv, Queue
<1> QED
  BY <1>8, <1>9 DEF WriteInv

-----------------------------------------------------------------------------
(* Every step *)

\* Listens, the watch stream and the online state leave the write half alone.
WatchOnly ==
  \/ \E t \in Targets : \/ Listen(t) \/ StopListening(t)
                        \/ WatchTargetError(t) \/ WatchMismatch(t)
  \/ \E n \in watch.stream.auth : WatchCredentialsFail(n)
  \/ \E status \in Errors : WatchStreamError(status)
  \/ WatchUndecodable
  \/ WatchReactions

LEMMA WatchKeepsWrite ==
  ASSUME WatchOnly \/ UNCHANGED vars PROVE UNCHANGED write
BY DEF WatchOnly, Listen, StopListening, WatchTargetError, WatchMismatch,
       WatchCredentialsFail, WatchStreamError, WatchUndecodable, WatchReactions,
       WatchTimers, WatchCredentialsArrive, WatchMessage, WatchBackoffElapsed,
       WatchHealthElapsed, WatchIdleElapsed, OnlineStateTimeout, vars

LEMMA WatchKeepsInv ==
  ASSUME WriteInv, WatchOnly \/ UNCHANGED vars
  PROVE  WriteInv' /\ store'.queues = store.queues /\ UNCHANGED <<committed, resolved>>
<1>1. /\ Later
      /\ UNCHANGED <<net, write, user, store, nextBatch, callbacks, waits,
                     committed, resolved>>
  BY DEF WatchOnly, Listen, StopListening, WatchTargetError, WatchMismatch,
         WatchCredentialsFail, WatchStreamError, WatchUndecodable, WatchReactions,
         WatchTimers, WatchCredentialsArrive, WatchMessage, WatchBackoffElapsed,
         WatchHealthElapsed, WatchIdleElapsed, OnlineStateTimeout, Later, engine, vars
<1>2. EngineInv'
  BY <1>1, EngineKept DEF WriteInv, EngineInv
<1>3. ConnectionInv'
  BY <1>1 DEF WriteInv, ConnectionInv, Queue
<1> QED
  BY <1>1, <1>2, <1>3 DEF WriteInv

\* The steps that neither change a mutation queue nor commit or resolve a batch.
Quiet ==
  \/ WatchOnly \/ UNCHANGED vars
  \/ EnableNetwork \/ DisableNetwork \/ Shutdown \/ ConnectivityChange
  \/ \E u \in Users : CredentialChange(u)
  \/ Restart \/ RegisterPendingWritesCallback
  \/ \E n \in write.stream.auth : WriteCredentialsArrive(n) \/ WriteCredentialsFail(n)
  \/ \E status \in Errors : WriteStreamError(status)
  \/ BackendReject \/ ReadHandshakeResponse
  \/ ReadUndecodable /\ ~write.handshake
  \/ WriteBackoffElapsed \/ WriteHealthElapsed \/ WriteIdleElapsed

LEMMA QuietKeepsInv ==
  ASSUME WriteInv, Quiet
  PROVE  WriteInv' /\ store'.queues = store.queues /\ UNCHANGED <<committed, resolved>>
<1>1. CASE WatchOnly \/ UNCHANGED vars
  BY <1>1, WatchKeepsInv
<1>2. CASE EnableNetwork \/ DisableNetwork \/ Shutdown \/ ConnectivityChange
  BY <1>2, NetworkKeepsInv
<1>3. ASSUME NEW u \in Users, CredentialChange(u)
      PROVE  WriteInv' /\ store'.queues = store.queues /\ UNCHANGED <<committed, resolved>>
  BY <1>3, UserChangeKeepsInv
<1>4. CASE Restart
  BY <1>4, RestartKeepsInv
<1>5. CASE RegisterPendingWritesCallback
  BY <1>5, WaitKeepsInv DEF RegisterPendingWritesCallback
<1>6. ASSUME NEW n \in write.stream.auth, WriteCredentialsArrive(n)
      PROVE  WriteInv' /\ store'.queues = store.queues /\ UNCHANGED <<committed, resolved>>
  BY <1>6, CredentialsKeepInv DEF WriteCredentialsArrive, engine
<1>7. ASSUME NEW n \in write.stream.auth, WriteCredentialsFail(n)
      PROVE  WriteInv' /\ store'.queues = store.queues /\ UNCHANGED <<committed, resolved>>
  BY <1>7, CredentialsFailKeepsInv, RefusalKeepsQueues
<1>8. ASSUME NEW status \in Errors, WriteStreamError(status)
      PROVE  WriteInv' /\ store'.queues = store.queues /\ UNCHANGED <<committed, resolved>>
  BY <1>8, ErrorKeepsInv
<1>9. CASE BackendReject
  BY <1>9, RejectKeepsInv DEF BackendReject, engine
<1>10. CASE ReadHandshakeResponse
  <2>1. /\ store' = [store EXCEPT !.tokens[user] = write'.token]
        /\ UNCHANGED <<committed, resolved>>
    BY <1>10 DEF ReadHandshakeResponse
  <2> QED
    BY <1>10, <2>1, HandshakeKeepsInv DEF WriteInv, EngineInv, StoreType
<1>11. CASE WriteBackoffElapsed \/ WriteHealthElapsed
  BY <1>11, TimersKeepInv DEF WriteBackoffElapsed, WriteHealthElapsed, engine
<1>12. CASE WriteIdleElapsed
  BY <1>12, IdleKeepsInv
<1>13. CASE ReadUndecodable /\ ~write.handshake
  BY <1>13, UnreadableHandshakeKeepsInv
<1> QED
  BY <1>1, <1>2, <1>3, <1>4, <1>5, <1>6, <1>7, <1>8, <1>9, <1>10, <1>11, <1>12, <1>13
     DEF Quiet

\* Every step is quiet, or one of the five that the log of writes is about.
LEMMA StepIsOneOf ==
  ASSUME [Next]_vars
  PROVE  \/ Quiet \/ WriteMutations \/ BackendAnswer
         \/ ReadMutationResult \/ ReadRejection \/ UnreadableResult
BY DEF Next, Calls, Failures, WriteReactions, Quiet, WatchOnly, UnreadableResult

LEMMA NextInv == WriteInv /\ [Next]_vars => WriteInv'
<1> SUFFICES ASSUME WriteInv, [Next]_vars PROVE WriteInv'
  OBVIOUS
<1>1. CASE Quiet
  BY <1>1, QuietKeepsInv
<1>2. CASE WriteMutations
  BY <1>2, WriteKeepsInv
<1>3. CASE BackendAnswer
  BY <1>3, AnswerKeepsInv
<1>4. CASE ReadMutationResult
  BY <1>4, ResultResolves
<1>5. CASE ReadRejection
  BY <1>5, RejectionResolves
<1>6. CASE UnreadableResult
  BY <1>6, UnreadableResolves
<1> QED
  BY <1>1, <1>2, <1>3, <1>4, <1>5, <1>6, StepIsOneOf

LEMMA InitInv == Init => WriteInv
<1> SUFFICES ASSUME Init PROVE WriteInv
  OBVIOUS
<1>1. /\ net = TRUE /\ write = NewWrite /\ user = FirstUser /\ nextBatch = 1
      /\ store = [queues |-> [u \in Users |-> <<>>],
                  tokens |-> [u \in Users |-> NoToken], ok |-> TRUE]
      /\ callbacks = [u \in Users |-> {}] /\ waits = {}
      /\ committed = [u \in Users |-> {}] /\ setting \in Settings
  BY DEF Init
<1>2. setting \in SettingType /\ setting.events \in 0..MaxEvents /\ MaxEvents \in Nat
  BY <1>1, SettingsAssumption DEF SettingType
<1>3. user \in Users
  BY <1>1, UsersAssumption
<1>4. nextBatch \in BatchIds /\ nextBatch + setting.events <= MaxEvents + 1
  BY <1>1, <1>2 DEF BatchIds
<1> DEFINE e == <<>>
<1>5. e \in Seq(BatchIds) /\ Len(e) = 0 /\ Range(e) = {}
  BY DEF Range
<1> HIDE DEF e
<1>6. Ascends(e)
  BY <1>5 DEF Ascends
<1>7. store \in StoreType /\ store.ok /\ \A u \in Users : store.queues[u] = e
  BY <1>1, <1>5 DEF StoreType, e
<1>8. ASSUME NEW u \in Users
      PROVE  UserInv(store.queues[u], callbacks[u], committed[u], nextBatch, setting.events)
  <2>1. callbacks[u] = {} /\ committed[u] = {}
    BY <1>1
  <2>2. UserInv(e, {}, {}, nextBatch, setting.events)
    BY <1>5, <1>6 DEF UserInv
  <2> QED
    BY <1>7, <2>1, <2>2
<1>9. EngineInv
  BY <1>1, <1>2, <1>3, <1>4, <1>7, <1>8 DEF EngineInv
<1>10. PipelineInv(write, net) /\ write.pipeline = <<>> /\ write.responses = <<>>
  BY <1>1, NewWriteInv DEF NewWrite
<1>11. Loaded(write, Queue, net)
  <2>1. Queue = e
    BY <1>3, <1>7 DEF Queue
  <2>2. TRUE \in BOOLEAN
    OBVIOUS
  <2>3. Room(e, TRUE) = 0
    <3>1. Room(e, TRUE) \in 0..Len(e)
      BY <1>6, <2>2, RoomIsNat
    <3> DEFINE k == Room(e, TRUE)
    <3> HIDE DEF k
    <3>2. k \in 0..0
      BY <1>5, <3>1 DEF k
    <3>3. k = 0
      BY <3>2
    <3> QED
      BY <3>3 DEF k
  <2>4. Loaded(write, e, FALSE)
    BY <1>6, <1>10, EmptyIsLoaded
  <2> QED
    BY <1>1, <2>1, <2>3, <2>4 DEF Loaded, Room
<1>12. AnswersInv(write.responses, committed[user])
  BY <1>10, NoAnswers
<1> QED
  BY <1>1, <1>9, <1>10, <1>11, <1>12 DEF WriteInv, ConnectionInv

-----------------------------------------------------------------------------
(* The theorems *)

\* WriteInv is an invariant of the remote store.
THEOREM WriteInvariant == Spec => []WriteInv
<1>1. Init => WriteInv
  BY InitInv
<1>2. WriteInv /\ [Next]_vars => WriteInv'
  BY NextInv
<1> QED
  BY <1>1, <1>2, PTL DEF Spec

\* The history variable that names the last resolved batch has its type.
ResolvedType ==
  resolved \in [user : Users, batch : Nat, how : {"none", "acked"} \cup Statuses]

LEMMA ResolvedKept == ResolvedType /\ WriteInv /\ [Next]_vars => ResolvedType'
<1> SUFFICES ASSUME ResolvedType, WriteInv, [Next]_vars PROVE ResolvedType'
  OBVIOUS
<1>1. ASSUME Queue # <<>> PROVE user \in Users /\ Head(Queue) \in Nat
  <2>1. Queue \in Seq(BatchIds)
    BY CurrentQueue DEF WriteInv, Ascends
  <2>2. Head(Queue) \in BatchIds
    BY <1>1, <2>1
  <2> QED
    BY <2>2 DEF WriteInv, EngineInv, BatchIds
<1>2. CASE UNCHANGED resolved
  BY <1>2 DEF ResolvedType
<1>3. CASE ReadMutationResult
  BY <1>1, <1>3, ResultResolves DEF ResolvedType
<1>4. CASE ReadRejection
  BY <1>1, <1>4, RejectionResolves DEF ResolvedType, Statuses, Errors
<1>5. CASE WriteMutations \/ BackendAnswer
  BY <1>2, <1>5 DEF WriteMutations, BackendAnswer
<1>6. CASE Quiet
  BY <1>2, <1>6, QuietKeepsInv
<1>7. CASE UnreadableResult
  BY <1>1, <1>7, UnreadableResolves DEF ResolvedType, Statuses
<1> QED
  BY <1>3, <1>4, <1>5, <1>6, <1>7, StepIsOneOf

\* Every variable keeps its type: both halves, the store, and what is remembered.
THEOREM TypesHold == Spec => []TypeOK
<1>1. Init => ResolvedType
  BY UsersAssumption DEF Init, NotResolved, ResolvedType
<1>2. ResolvedType /\ WriteInv /\ [Next]_vars => ResolvedType'
  BY ResolvedKept
<1>3. Spec => []ResolvedType
  BY <1>1, <1>2, WriteInvariant, PTL DEF Spec
<1>4. Inv /\ WriteInv /\ ResolvedType => TypeOK
  <2> SUFFICES ASSUME Inv, WriteInv, ResolvedType PROVE TypeOK
    OBVIOUS
  <2>1. watch \in WatchRecord
    BY DEF Inv, WatchInv, GoodParts
  <2>2. write \in WriteRecord /\ net \in BOOLEAN
    BY DEF WriteInv, ConnectionInv, PipelineInv, Sound
  <2>3. waits \in SUBSET BatchIds
    <3>1. Queue \in Seq(BatchIds)
      BY CurrentQueue DEF WriteInv, Ascends
    <3>2. Range(Queue) \subseteq BatchIds
      BY <3>1 DEF Range
    <3> QED
      BY <3>2 DEF WriteInv, EngineInv
  <2>4. /\ user \in Users /\ setting \in SettingType /\ nextBatch \in BatchIds
        /\ store \in StoreType /\ callbacks \in [Users -> SUBSET BatchIds]
        /\ committed \in [Users -> SUBSET BatchIds]
    BY DEF WriteInv, EngineInv
  <2> QED
    BY <2>1, <2>2, <2>3, <2>4 DEF TypeOK, ResolvedType, SettingType, StoreType
<1> QED
  BY <1>3, <1>4, WatchInvariant, WriteInvariant, PTL

\* No HARD_ASSERT of the write stream, of the write pipeline or of the mutation
\* queue ever fails; in particular a resolved batch is always the oldest one.
THEOREM NoWriteAssertFails == Spec => []WriteAssertsHold
<1>1. WriteInv => WriteAssertsHold
  BY DEF WriteInv, EngineInv, ConnectionInv, PipelineInv, Sound, GoodStream, StreamInv,
         WriteAssertsHold
<1> QED
  BY <1>1, WriteInvariant, PTL

\* The pipeline is the beginning of the current user's queue, as long as there is
\* room, and a queued write has a stream that is running or on its way
\* (FillWritePipeline and ShouldStartWriteStream after every change).
THEOREM NoWriteForgotten == Spec => []WritesAreOnTheirWay
<1>1. WriteInv => WritesAreOnTheirWay
  <2> SUFFICES ASSUME WriteInv PROVE WritesAreOnTheirWay
    OBVIOUS
  <2>1. /\ net \in BOOLEAN /\ PipelineInv(write, net) /\ Loaded(write, Queue, net)
        /\ Ascends(Queue)
    BY CurrentQueue DEF WriteInv, ConnectionInv
  <2>2. write.pipeline =
          SubSeq(Queue, 1, IF net THEN Min({Len(Queue), MaxPendingWrites}) ELSE 0)
    BY <2>1 DEF Loaded, Room
  <2>3. ASSUME net, Queue # <<>> PROVE IsStarted(write.stream)
    <3> DEFINE k == Room(Queue, net)
               s == SubSeq(Queue, 1, k)
    <3>1. k \in 0..Len(Queue) /\ k > 0
      BY <2>1, <2>3, RoomIsNat
    <3> HIDE DEF k
    <3>2. s \in Seq(BatchIds) /\ Len(s) = k
      BY <2>1, <3>1, PrefixOf DEF Ascends
    <3>3. write.pipeline = s
      BY <2>1 DEF Loaded, k
    <3> HIDE DEF s
    <3>4. s # <<>>
      BY <3>1, <3>2, EmptySeq
    <3> QED
      BY <2>1, <2>3, <3>3, <3>4 DEF PipelineInv
  <2> QED
    BY <2>2, <2>3 DEF WritesAreOnTheirWay
<1> QED
  BY <1>1, WriteInvariant, PTL

\* A callback of the user, and one of waitForPendingWrites, waits for a batch that
\* is still queued (NotifyUser and TriggerPendingWriteCallbacks with every batch
\* that leaves, across users and restarts).
THEOREM NoCallbackLeaks == Spec => []CallbacksAreQueued
<1>1. WriteInv => CallbacksAreQueued
  BY DEF WriteInv, EngineInv, UserInv, CallbacksAreQueued
<1> QED
  BY <1>1, WriteInvariant, PTL

\* ResolvedByItsResponse for one step and one user.
ResolvedRight(u) ==
  LET b == Head(store.queues[u])
  IN  /\ resolved'.user = u /\ resolved'.batch = b
      /\ write.responses # <<>> /\ Head(write.responses).for = b
      /\ resolved'.how \in {"acked", "permanent", "dataloss"}
      /\ resolved'.how = "acked" => b \in committed[u]
      /\ resolved'.how = "permanent" <=> Head(write.responses).rejected

ResolvedStep ==
  \A u \in Users :
    Len(store'.queues[u]) < Len(store.queues[u]) => ResolvedRight(u)

\* Only the queue of the current user changes.
LEMMA OthersKept ==
  ASSUME WriteInv, NEW s, store'.queues = [store.queues EXCEPT ![user] = s]
  PROVE  \A u \in Users : Len(store'.queues[u]) # Len(store.queues[u]) => u = user
BY DEF WriteInv, EngineInv, StoreType

LEMMA StepResolves == WriteInv /\ [Next]_vars => ResolvedStep
<1> SUFFICES ASSUME WriteInv, [Next]_vars, NEW u \in Users,
                    Len(store'.queues[u]) < Len(store.queues[u])
             PROVE  ResolvedRight(u)
  BY DEF ResolvedStep
<1>1. /\ store.queues[u] \in Seq(BatchIds) /\ Len(store.queues[u]) \in Nat
      /\ user \in Users /\ Queue \in Seq(BatchIds) /\ Len(Queue) \in Nat
      /\ nextBatch \in BatchIds
  BY DEF WriteInv, EngineInv, StoreType, Queue
<1>2. store'.queues # store.queues
  BY <1>1
<1>3. ~WriteMutations
  <2> SUFFICES ASSUME WriteMutations PROVE FALSE
    OBVIOUS
  <2> DEFINE q == Append(Queue, nextBatch)
  <2>1. Len(q) = Len(Queue) + 1
    BY <1>1, AppendProperties
  <2> HIDE DEF q
  <2>2. store'.queues = [store.queues EXCEPT ![user] = q]
    BY DEF WriteMutations, Queue, WriteInv, EngineInv, StoreType, q
  <2>3. u = user
    BY <1>1, <2>2, OthersKept
  <2>4. store'.queues[u] = q /\ store.queues[u] = Queue
    BY <1>1, <2>2, <2>3 DEF WriteInv, EngineInv, StoreType, Queue
  <2> QED
    BY <1>1, <2>1, <2>4
<1>4. ~BackendAnswer
  BY <1>2 DEF BackendAnswer, engine
<1>5. ~Quiet
  BY <1>2, QuietKeepsInv
<1>6. CASE ReadMutationResult
  <2>1. /\ Head(Queue) \in committed[user]
        /\ write.responses # <<>> /\ Head(write.responses).for = Head(Queue)
        /\ store'.queues = [store.queues EXCEPT ![user] = Tail(Queue)]
        /\ resolved' = [user |-> user, batch |-> Head(Queue), how |-> "acked"]
    BY <1>6, ResultResolves
  <2>2. u = user
    BY <1>1, <2>1, OthersKept
  <2>3. ~Head(write.responses).rejected
    BY <1>6 DEF ReadMutationResult
  <2> QED
    BY <2>1, <2>2, <2>3 DEF Queue, ResolvedRight
<1>7. CASE ReadRejection
  <2>1. /\ Head(write.responses).for = Head(Queue)
        /\ store'.queues = [store.queues EXCEPT ![user] = Tail(Queue)]
        /\ resolved' = [user |-> user, batch |-> Head(Queue), how |-> "permanent"]
    BY <1>7, RejectionResolves
  <2>2. u = user
    BY <1>1, <2>1, OthersKept
  <2>3. write.responses # <<>> /\ Head(write.responses).rejected
    BY <1>7 DEF ReadRejection
  <2> QED
    BY <2>1, <2>2, <2>3 DEF Queue, ResolvedRight
<1>8. CASE UnreadableResult
  <2>1. /\ write.responses # <<>> /\ ~Head(write.responses).rejected
        /\ Head(write.responses).for = Head(Queue)
        /\ store'.queues = [store.queues EXCEPT ![user] = Tail(Queue)]
        /\ resolved' = [user |-> user, batch |-> Head(Queue), how |-> "dataloss"]
    BY <1>8, UnreadableResolves
  <2>2. u = user
    BY <1>1, <2>1, OthersKept
  <2> QED
    BY <2>1, <2>2 DEF Queue, ResolvedRight
<1> QED
  BY <1>3, <1>4, <1>5, <1>6, <1>7, <1>8, StepIsOneOf

\* A batch leaves its queue as the current user's oldest, with the first response
\* of the call, which is for it: acknowledged after it was committed, rejected as
\* the backend rejected it, or dropped because the client cannot decode it.
\* Responses carry no batch id: the head of the pipeline is credited
\* (OnWriteStreamMutationResult, HandleWriteError).
THEOREM ResolvedOnlyByItsResponse == Spec => ResolvedByItsResponse
<1>1. WriteInv /\ [Next]_vars => ResolvedStep
  BY StepResolves
<1>2. Spec => [][ResolvedStep]_vars
  BY <1>1, WriteInvariant, PTL DEF Spec
<1> QED
  BY <1>2 DEF ResolvedByItsResponse, ResolvedStep, ResolvedRight

-----------------------------------------------------------------------------
(* Pacing *)

\* A close of the write stream, with whatever it resolves, leaves it rested.
LEMMA ClosesPaced ==
  ASSUME NEW p, PacedWrite(p), NEW status, WriteStreamCloses(p, status)
  PROVE  PacedWrite(write')
BY CloseWritePaced DEF WriteStreamCloses

\* Every step but the backoff timer keeps the write stream rested.
LEMMA WriteStepPaced ==
  ASSUME PacedWrite(write), [Next]_vars, ~write.stream.waiting
  PROVE  PacedWrite(write')
<1>1. CASE EnableNetwork \/ DisableNetwork \/ Shutdown
  BY <1>1, EnableWritePaced, DisableWritePaced
     DEF EnableNetwork, DisableNetwork, Shutdown
<1>2. CASE ConnectivityChange \/ \E u \in Users : CredentialChange(u)
  BY <1>2, RestartWritePaced DEF ConnectivityChange, CredentialChange
<1>3. CASE Restart
  <2>1. PacedWrite(NewWrite)
    BY NewStreamRested DEF PacedWrite, NewWrite
  <2> QED
    BY <1>3, <2>1, EnableWritePaced DEF Restart
<1>4. CASE WriteMutations
  BY <1>4, FillPaced DEF WriteMutations
<1>5. CASE \E n \in write.stream.auth : WriteCredentialsFail(n)
  BY <1>5, ForgottenPaced, ClosesPaced DEF WriteCredentialsFail
<1>6. CASE \E n \in write.stream.auth : WriteCredentialsArrive(n)
  BY <1>6, ForgottenPaced, WriteCredentialsPaced DEF WriteCredentialsArrive
<1>7. CASE BackendAnswer \/ BackendReject
  <2>1. PICK q, r : write' = [write EXCEPT !.requests = q, !.responses = r]
    BY <1>7 DEF BackendAnswer, BackendReject
  <2> QED
    BY <2>1 DEF PacedWrite
<1>8. CASE ReadHandshakeResponse
  BY <1>8, ReadPaced DEF ReadHandshakeResponse
<1>9. CASE ReadMutationResult
  <2>1. PICK q : write' = FillWritePipeline(PopResult(write), net, q)
    BY <1>9 DEF ReadMutationResult
  <2> QED
    BY <2>1, ReadPaced, FillPaced
<1>10. CASE ReadRejection
  BY <1>10, ClosesPaced DEF ReadRejection
<1>11. CASE \E status \in Errors : WriteStreamError(status)
  BY <1>11, ClosesPaced DEF WriteStreamError
<1>12. CASE WriteIdleElapsed
  BY <1>12, ClosesPaced DEF WriteIdleElapsed
<1>13. CASE WriteHealthElapsed
  <2>1. Rested(HealthElapsed(write.stream))
    BY HealthRested DEF PacedWrite
  <2> QED
    BY <1>13, <2>1 DEF WriteHealthElapsed, PacedWrite
<1>14. CASE WatchOnly \/ RegisterPendingWritesCallback \/ UNCHANGED vars
  BY <1>14, WatchKeepsWrite DEF RegisterPendingWritesCallback, remote, vars
<1>15. ~WriteBackoffElapsed
  BY DEF WriteBackoffElapsed
<1>16. CASE ReadUndecodable
  <2>1. PICK p \in Undecoded(write) : WriteStreamCloses(p, "dataloss")
    BY <1>16 DEF ReadUndecodable
  <2>2. Rested(ResetBackoff(write.stream))
    BY ResetRested DEF PacedWrite
  <2>3. PacedWrite(p)
    BY <2>2 DEF Undecoded, PacedWrite
  <2> QED
    BY <2>1, <2>3, ClosesPaced
<1> QED
  BY <1>1, <1>2, <1>3, <1>4, <1>5, <1>6, <1>7, <1>8, <1>9, <1>10, <1>11, <1>12,
     <1>13, <1>14, <1>15, <1>16
     DEF Next, Calls, Failures, WriteReactions, WatchOnly

\* The write stream asks for credentials again when its backoff timer fires, or
\* when it owes no delay.
LEMMA WriteRetriesPaced ==
  WriteInv /\ [Next]_vars /\ Retries(write.stream, write'.stream)
    => write.stream.waiting \/ write'.stream.delay = 0
<1> SUFFICES ASSUME WriteInv, [Next]_vars, Retries(write.stream, write'.stream),
                    ~write.stream.waiting
             PROVE  write'.stream.delay = 0
  OBVIOUS
<1>1. write \in WriteRecord /\ IsStream(write.stream)
  BY GoodIsStream DEF WriteInv, ConnectionInv, PipelineInv, Sound
<1>2. PacedWrite(write)
  BY <1>1, WritePaced DEF Rested, Retries
<1> QED
  BY <1>2, WriteStepPaced DEF PacedWrite, Rested, Retries

\* A stream that failed asks for credentials again only when its backoff timer
\* fires, unless no delay is due: whatever closes a stream with an error, its next
\* Start goes through BackoffAndTryRestarting, and only ResetBackoff,
\* InhibitBackoff and a graceful stop forgive the delay.
THEOREM RetriesArePaced == Spec => BackoffBeforeRetry
<1> DEFINE Step ==
      /\ Retries(watch.stream, watch'.stream) =>
           watch.stream.waiting \/ watch'.stream.delay = 0
      /\ Retries(write.stream, write'.stream) =>
           write.stream.waiting \/ write'.stream.delay = 0
<1>1. Inv /\ WriteInv /\ [Next]_vars => Step
  BY WatchRetriesPaced, WriteRetriesPaced
<1>2. Spec => [][Step]_vars
  BY <1>1, WatchInvariant, WriteInvariant, PTL DEF Spec
<1> QED
  BY <1>2 DEF BackoffBeforeRetry

-----------------------------------------------------------------------------
(* The refinement of WriteLog *)

LEMMA LogInit == Init => Log!Init
BY DEF Init, Log!Init

\* Every step of the remote store is a step of the log, or none.
LEMMA LogNext == WriteInv /\ [Next]_vars => [Log!Next]_(Log!vars)
<1> SUFFICES ASSUME WriteInv, [Next]_vars PROVE [Log!Next]_(Log!vars)
  OBVIOUS
<1> DEFINE log  == store.queues
           done == committed
<1>1. /\ user \in Users /\ Ascends(Queue) /\ Queue = log[user]
      /\ UserInv(Queue, callbacks[user], done[user], nextBatch, setting.events)
      /\ nextBatch \in BatchIds /\ nextBatch + setting.events <= MaxEvents + 1
      /\ done \in [Users -> SUBSET BatchIds] /\ store \in StoreType
  BY CurrentQueue DEF WriteInv, EngineInv, Queue
<1>2. CASE Quiet
  BY <1>2, QuietKeepsInv DEF Log!vars
<1>3. CASE WriteMutations
  <2>1. /\ store' = [store EXCEPT !.queues[user] = Append(@, nextBatch)]
        /\ committed' = committed /\ Event
    BY <1>3 DEF WriteMutations
  <2>2. store'.queues = [log EXCEPT ![user] = Append(@, nextBatch)]
    BY <1>1, <2>1 DEF StoreType
  <2>3. setting.events > 0 /\ setting.events \in Nat
    BY <2>1, LaterIsLess DEF WriteInv, Later
  <2>4. nextBatch \in 1..MaxEvents
    BY <1>1, <2>3, SettingsAssumption DEF BatchIds
  <2>5. \A i \in 1..Len(log[user]) : log[user][i] < nextBatch
    <3>1. DOMAIN Queue = 1..Len(Queue)
      BY <1>1 DEF Ascends
    <3>2. \A i \in 1..Len(Queue) : Queue[i] \in Range(Queue)
      BY <3>1 DEF Range
    <3> QED
      BY <1>1, <3>2 DEF UserInv
  <2>6. Log!Accept(user, nextBatch)
    BY <2>1, <2>2, <2>5 DEF Log!Accept
  <2> QED
    BY <1>1, <2>4, <2>6 DEF Log!Next
<1>4. CASE BackendAnswer
  <2> DEFINE m == Head(write.requests)
  <2>1. /\ BackendAccepts /\ store' = store
        /\ committed' = [committed EXCEPT ![user] = IF m = Handshake THEN @ ELSE @ \cup {m}]
    BY <1>4 DEF BackendAnswer, engine
  <2>2. CASE m = Handshake
    BY <1>1, <2>1, <2>2 DEF Log!vars
  <2>3. CASE m # Handshake
    <3>1. PICK i \in 1..Len(Queue) : /\ m = Queue[i]
                                     /\ \A j \in 1..(i - 1) : Queue[j] \in committed[user]
      BY <2>1, <2>3, NextOnTheWire
    <3>2. committed' = [committed EXCEPT ![user] = @ \cup {m}]
      BY <2>1, <2>3
    <3> HIDE DEF m
    <3>3. Log!Commit(user)
      BY <1>1, <2>1, <3>1, <3>2 DEF Log!Commit
    <3> QED
      BY <1>1, <3>3 DEF Log!Next
  <2> QED
    BY <2>2, <2>3
<1>5. CASE ReadMutationResult
  <2>1. /\ Queue # <<>> /\ Head(Queue) \in committed[user]
        /\ store'.queues = [store.queues EXCEPT ![user] = Tail(Queue)]
        /\ committed' = [committed EXCEPT ![user] = @ \ {Head(Queue)}]
    BY <1>5, ResultResolves
  <2>2. Log!Acknowledge(user)
    BY <1>1, <2>1 DEF Log!Acknowledge, Log!Leave
  <2> QED
    BY <1>1, <2>2 DEF Log!Next
<1>6. CASE ReadRejection \/ UnreadableResult
  <2>1. /\ Queue # <<>>
        /\ store'.queues = [store.queues EXCEPT ![user] = Tail(Queue)]
        /\ committed' = [committed EXCEPT ![user] = @ \ {Head(Queue)}]
    BY <1>6, RejectionResolves, UnreadableResolves
  <2>2. \A i \in 2..Len(Queue) : Head(Queue) \notin done[user] => Queue[i] \notin done[user]
    <3> SUFFICES ASSUME NEW i \in 2..Len(Queue), Queue[i] \in done[user]
                 PROVE  Head(Queue) \in done[user]
      OBVIOUS
    <3>1. 1 \in 1..Len(Queue) /\ i \in 1..Len(Queue) /\ 1 < i
      BY <1>1 DEF Ascends
    <3>2. Head(Queue) = Queue[1]
      BY <1>1, <2>1 DEF Ascends
    <3> QED
      BY <1>1, <3>1, <3>2 DEF UserInv
  <2>3. Log!Reject(user)
    BY <1>1, <2>1, <2>2 DEF Log!Reject, Log!Leave
  <2> QED
    BY <1>1, <2>3 DEF Log!Next
<1> QED
  BY <1>2, <1>3, <1>4, <1>5, <1>6, StepIsOneOf

\* The write path implements WriteLog, the ordered and durable log of accepted
\* writes, through every restart, lost connection and change of user.
THEOREM WritePathImplementsLog == Spec => ImplementsWriteLog
<1>1. Init => Log!Init
  BY LogInit
<1>2. WriteInv /\ [Next]_vars => [Log!Next]_(Log!vars)
  BY LogNext
<1> QED
  BY <1>1, <1>2, WriteInvariant, PTL DEF Spec, ImplementsWriteLog, Log!Spec
=============================================================================
