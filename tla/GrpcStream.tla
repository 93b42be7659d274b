----------------------------- MODULE GrpcStream -----------------------------
(***************************************************************************)
(* One bidirectional gRPC call of a stream, from its start to its          *)
(* destruction: GrpcStream and its BufferedWriter on the worker queue, the *)
(* GrpcCompletions that stand for its operations, the thread that polls    *)
(* the completion queue, and gRPC itself (external).                       *)
(*                                                                         *)
(* A method that waits for completions blocks the worker half way. What it *)
(* still has to do is its list of steps; between them only gRPC and the    *)
(* polling thread run.                                                     *)
(***************************************************************************)
EXTENDS Integers, Sequences, FiniteSets

CONSTANTS
  MaxWrites,   \* bound on the messages the client writes
  MaxReads     \* bound on the messages the server sends

ASSUME BoundsAssumption == MaxWrites \in Nat /\ MaxReads \in Nat

VARIABLES
  stream,      \* the GrpcStream with its BufferedWriter
  ops,         \* every GrpcCompletion, in the order of creation
  call,        \* the call at gRPC, and its operations not yet completed
  poller,      \* the completion the polling thread is completing, if any
  queue,       \* completions enqueued on the worker queue
  worker,      \* the steps the current operation still has to take
  log,         \* history: messages written, put on the wire, read; notifications
  failed       \* what must never happen and did

vars == <<stream, ops, call, poller, queue, worker, log, failed>>

NoOp == [op |-> 0, ok |-> FALSE]

Init ==
  /\ stream = [phase |-> "new", observer |-> TRUE, registered |-> TRUE,
               finished |-> FALSE, completions |-> {}, writes |-> <<>>, active |-> FALSE]
  /\ ops = <<>>
  /\ call = [state |-> "idle", pending |-> {}]
  /\ poller = NoOp
  /\ queue = <<>>
  /\ worker = <<>>
  /\ log = [written |-> 0, wire |-> <<>>, sent |-> 0, read |-> <<>>, finishes |-> 0]
  /\ failed = {}

Fail(broken, what) == IF broken THEN {what} ELSE {}

\* The completions of the operations of a kind that gRPC still has.
Pending(kind) == {i \in call.pending : ops[i].kind = kind}

-----------------------------------------------------------------------------
(* Issuing operations: a state of the stream, the call and the completions, *)
(* as one record.                                                            *)

Now == [s |-> stream, o |-> ops, c |-> call, f |-> failed]

Becomes(x) == /\ stream' = x.s
              /\ ops' = x.o
              /\ call' = x.c
              /\ failed' = x.f

\* NewCompletion, and the call into gRPC. gRPC admits one read and one write at a
\* time, and a finish once all others have come back.
Issue(x, kind, message) ==
  LET id == Len(x.o) + 1
      rivals == {i \in x.c.pending : kind = "finish" \/ x.o[i].kind = kind}
  IN  [x EXCEPT !.o = Append(@, [kind |-> kind, message |-> message,
                                 off |-> FALSE, callback |-> TRUE]),
                !.s.completions = @ \cup {id},
                !.c.pending = @ \cup {id},
                !.f = @ \cup Fail(rivals # {}, "two operations at once")]

ReadNext(x) == IF x.s.observer THEN Issue(x, "read", 0) ELSE x

\* TryStartWrite and MaybeWrite.
TryStartWrite(x) ==
  IF x.s.writes = <<>> \/ x.s.active THEN x
  ELSE Issue([x EXCEPT !.s.active = TRUE, !.s.writes = Tail(@)], "write", Head(x.s.writes))

EnqueueWrite(x, m) == TryStartWrite([x EXCEPT !.s.writes = Append(@, m)])

\* Mutant: the active write is never given up.
DequeueStaysActive(x) == TryStartWrite(x)

DequeueNextWrite(x) == TryStartWrite([x EXCEPT !.s.active = FALSE])

-----------------------------------------------------------------------------
(* The steps of the methods that block *)

FinishGrpcCall == <<"drain", "finish">>

MarkFinished(x) ==
  [x EXCEPT !.s.finished = TRUE,
            !.f = @ \cup Fail(x.s.finished, "FinishGrpcCall called twice")]

\* Mutant: the call is finished without being cancelled.
CancelNothing(x) == x

\* ClientContext::TryCancel: the call is over, its operations come back quickly.
TryCancel(x) == [x EXCEPT !.c.state = "broken"]

NeedsFinish(x) == x.s.completions # {} /\ ~x.s.finished

Unregister(x) == [x EXCEPT !.s.registered = FALSE]

\* Shutdown: its effects before it blocks, and its steps.
BeginShutdown(x) ==
  IF NeedsFinish(x) THEN MarkFinished(TryCancel(Unregister(x))) ELSE Unregister(x)

ShutdownSteps(x) ==
  IF NeedsFinish(x) THEN FinishGrpcCall \o <<"drain">> ELSE <<"drain">>

\* Mutant: the callbacks of the completions are left in place.
ForgetCompletions(x) == [x EXCEPT !.s.completions = {}]

\* FastFinishCompletionsBlocking cancels the callbacks first; the worker queue runs
\* none of them before the wait is over.
CancelCompletions(x) ==
  [x EXCEPT !.o = [i \in DOMAIN @ |->
                     IF i \in x.s.completions THEN [@[i] EXCEPT !.callback = FALSE] ELSE @[i]],
            !.s.completions = {}]

\* The wait until all completions are off the gRPC queue.
Drain ==
  /\ Head(worker) = "drain"
  /\ \A i \in stream.completions : ops[i].off
  /\ Becomes(CancelCompletions(Now))
  /\ worker' = Tail(worker)
  /\ UNCHANGED <<poller, queue, log>>

IssueFinish ==
  /\ Head(worker) = "finish"
  /\ Becomes(Issue(Now, "finish", 0))
  /\ worker' = Tail(worker)
  /\ UNCHANGED <<poller, queue, log>>

\* The last write is waited for, at most 500 ms.
LastWriteDoneOrTimeout ==
  /\ Head(worker) = "last_write"
  /\ worker' = Tail(worker)
  /\ UNCHANGED <<stream, ops, call, poller, queue, log, failed>>

Shutdown ==
  /\ Head(worker) = "shutdown"
  /\ Becomes(BeginShutdown(Now))
  /\ worker' = ShutdownSteps(Now) \o Tail(worker)
  /\ UNCHANGED <<poller, queue, log>>

\* The end of FinishImmediately.
UnsetObserver ==
  /\ Head(worker) = "unset"
  /\ stream' = [stream EXCEPT !.observer = FALSE]
  /\ worker' = Tail(worker)
  /\ UNCHANGED <<ops, call, poller, queue, log, failed>>

\* The end of FinishAndNotify.
Notify ==
  /\ Head(worker) = "notify"
  /\ stream' = [stream EXCEPT !.observer = FALSE]
  /\ log' = [log EXCEPT !.finishes = IF stream.observer THEN @ + 1 ELSE @]
  /\ worker' = Tail(worker)
  /\ UNCHANGED <<ops, call, poller, queue, failed>>

\* Stream::Close releases the stream.
Destroy ==
  /\ Head(worker) = "destroy"
  /\ stream' = [stream EXCEPT !.phase = "destroyed"]
  /\ failed' = failed \cup Fail(stream.completions # {}, "destroyed without shutdown")
                      \cup Fail(call.pending # {}, "gRPC uses a destroyed call")
  /\ worker' = Tail(worker)
  /\ UNCHANGED <<ops, call, poller, queue, log>>

Continue ==
  /\ worker # <<>>
  /\ \/ Drain \/ IssueFinish \/ LastWriteDoneOrTimeout \/ Shutdown
     \/ UnsetObserver \/ Notify \/ Destroy

-----------------------------------------------------------------------------
(* What the owner of the stream does, on the worker queue *)

InUse == stream.phase = "open" /\ worker = <<>>

Start ==
  /\ stream.phase = "new"
  /\ Becomes(ReadNext([Now EXCEPT !.s.phase = "open", !.c.state = "live"]))
  /\ UNCHANGED <<poller, queue, worker, log>>

\* Also after the call has failed, as long as the owner has not been told.
Write ==
  /\ InUse
  /\ log.written < MaxWrites
  /\ Becomes(EnqueueWrite(Now, log.written + 1))
  /\ log' = [log EXCEPT !.written = @ + 1]
  /\ UNCHANGED <<poller, queue, worker>>

\* FinishImmediately, and the end of the stream's life (Stream::Close).
Stop ==
  /\ InUse
  /\ worker' = <<"shutdown", "unset", "destroy">>
  /\ UNCHANGED <<stream, ops, call, poller, queue, log, failed>>

\* WriteAndFinish: the last message is written unless a write is active.
WriteAndFinish ==
  /\ InUse
  /\ log.written < MaxWrites
  /\ IF stream.finished
     THEN /\ UNCHANGED <<stream, ops, call, failed, log>>
          /\ worker' = <<"shutdown", "unset", "destroy">>
     ELSE /\ Becomes(EnqueueWrite(Now, log.written + 1))
          /\ log' = [log EXCEPT !.written = @ + 1]
          /\ worker' = (IF stream.active THEN <<>> ELSE <<"last_write">>)
                         \o <<"shutdown", "unset", "destroy">>
  /\ UNCHANGED <<poller, queue>>

\* The network changes: GrpcConnection finishes the calls registered with it.
ConnectivityChanges ==
  /\ InUse
  /\ stream.registered
  /\ worker' = <<"shutdown", "notify", "destroy">>
  /\ UNCHANGED <<stream, ops, call, poller, queue, log, failed>>

-----------------------------------------------------------------------------
(* Completions on the worker queue *)

\* RemoveCompletion.
Remove(x, id) ==
  [x EXCEPT !.s.completions = @ \ {id},
            !.f = @ \cup Fail(id \notin x.s.completions, "missing completion")
                    \cup Fail(x.s.phase = "destroyed", "callback of a destroyed stream")]

\* A completion comes up on the worker queue.
NextUp == Head(queue)
Runs(kind, ok) ==
  /\ worker = <<>>
  /\ queue # <<>>
  /\ ops[NextUp.op].callback
  /\ ops[NextUp.op].kind = kind /\ NextUp.ok = ok
  /\ queue' = Tail(queue)
  /\ UNCHANGED poller

SkipCancelled ==
  /\ worker = <<>>
  /\ queue # <<>>
  /\ ~ops[NextUp.op].callback
  /\ queue' = Tail(queue)
  /\ UNCHANGED <<stream, ops, call, poller, worker, log, failed>>

\* The next read is issued before the observer is told.
OnRead ==
  /\ Runs("read", TRUE)
  /\ Becomes(ReadNext(Remove(Now, NextUp.op)))
  /\ log' = IF stream.observer
            THEN [log EXCEPT !.read = Append(@, ops[NextUp.op].message)] ELSE log
  /\ UNCHANGED worker

OnWrite ==
  /\ Runs("write", TRUE)
  /\ Becomes(IF stream.observer THEN DequeueNextWrite(Remove(Now, NextUp.op))
             ELSE Remove(Now, NextUp.op))
  /\ UNCHANGED <<worker, log>>

OnOperationFailed ==
  /\ \E kind \in {"read", "write"} : Runs(kind, FALSE)
  /\ IF stream.finished
     THEN Becomes(Remove(Now, NextUp.op)) /\ UNCHANGED worker
     ELSE Becomes(MarkFinished(Remove(Now, NextUp.op))) /\ worker' = FinishGrpcCall
  /\ UNCHANGED log

\* The status has arrived: FinishAndNotify, and the observer closes the stream.
OnFinish ==
  /\ Runs("finish", TRUE)
  /\ Becomes(Remove(Now, NextUp.op))
  /\ worker' = <<"shutdown", "notify", "destroy">>
  /\ UNCHANGED log

-----------------------------------------------------------------------------
(* gRPC and the polling thread *)

\* The server ends the call, or the connection is lost.
Break ==
  /\ call.state = "live"
  /\ call' = [call EXCEPT !.state = "broken"]
  /\ UNCHANGED <<stream, ops, poller, queue, worker, log, failed>>

\* An operation can succeed while the call lives, and just before it broke; the
\* finish of a call succeeds once the call is over.
Succeeds(i) ==
  CASE ops[i].kind = "read"   -> log.sent < MaxReads
    [] ops[i].kind = "write"  -> TRUE
    [] ops[i].kind = "finish" -> call.state = "broken"

Fails(i) == call.state = "broken" /\ ops[i].kind # "finish"

\* CompletionQueue::Next gives the polling thread an operation, and Complete says
\* that it is off the queue.
TakeOff(i) ==
  /\ poller = NoOp
  /\ i \in call.pending
  /\ \E ok \in BOOLEAN :
       /\ IF ok THEN Succeeds(i) ELSE Fails(i)
       /\ poller' = [op |-> i, ok |-> ok]
       /\ ops' = [ops EXCEPT ![i].off = TRUE,
                             ![i].message = IF ops[i].kind = "read" /\ ok
                                            THEN log.sent + 1 ELSE @]
       /\ log' = IF ~ok THEN log
                 ELSE CASE ops[i].kind = "read"   -> [log EXCEPT !.sent = @ + 1]
                        [] ops[i].kind = "write"  -> [log EXCEPT !.wire =
                                                        Append(@, ops[i].message)]
                        [] ops[i].kind = "finish" -> log
  /\ call' = [call EXCEPT !.pending = @ \ {i}]
  /\ UNCHANGED <<stream, queue, worker, failed>>

\* The rest of Complete: the callback is enqueued on the worker queue.
Complete ==
  /\ poller # NoOp
  /\ queue' = Append(queue, poller)
  /\ poller' = NoOp
  /\ UNCHANGED <<stream, ops, call, worker, log, failed>>

-----------------------------------------------------------------------------

Owner == Start \/ Write \/ Stop \/ WriteAndFinish \/ ConnectivityChanges

OnCompletion == SkipCancelled \/ OnRead \/ OnWrite \/ OnOperationFailed \/ OnFinish

Next ==
  \/ Owner \/ OnCompletion \/ Continue
  \/ Break \/ Complete
  \/ \E i \in DOMAIN ops : TakeOff(i)

Spec == Init /\ [][Next]_vars

\* The worker and the polling thread run, and gRPC completes what it can: all of
\* the operations of a call that is over.
FairSpec ==
  /\ Spec
  /\ WF_vars(Continue) /\ WF_vars(OnCompletion) /\ WF_vars(Complete)
  /\ WF_vars(call.state = "broken" /\ \E i \in DOMAIN ops : TakeOff(i))
-----------------------------------------------------------------------------
(* Properties *)

\* Whatever the order in which operations come back, fail and are cancelled, and
\* whenever the owner stops: no callback reaches a stream that has been shut down
\* or destroyed, the call outlives its operations, gRPC has one read and one write
\* at a time, and a finish is issued once, with nothing else under way.
CompletionsAreSafe == failed = {}

\* Messages go out and come in one by one, in order and without gaps, and neither
\* direction stalls while the call has not failed: a buffered message always has an
\* active write that will take it along (BufferedWriter), and an open stream always
\* has a read under way ("the stream always has a pending read operation").
MessagesFlow ==
  /\ log.wire = [i \in 1..Len(log.wire) |-> i]
  /\ log.read = [i \in 1..Len(log.read) |-> i]
  /\ stream.writes # <<>> /\ ~stream.finished =>
       \E i \in stream.completions : ops[i].kind = "write"
  /\ stream.phase = "open" /\ ~stream.finished =>
       \E i \in stream.completions : ops[i].kind = "read"

\* A call that is over is torn down, and its end is reported to its owner at most
\* once. And grpc_stream.h:215: "before calling this function, the caller must be
\* sure that any pending completions on the gRPC completion queue will come back
\* quickly": FastFinishCompletionsBlocking never blocks the worker for ever.
EveryCallEnds ==
  /\ (call.state = "broken" ~> stream.phase = "destroyed")
  /\ (worker # <<>> ~> worker = <<>>)
  /\ [](log.finishes <= 1)
=============================================================================
