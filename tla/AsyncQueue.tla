----------------------------- MODULE AsyncQueue -----------------------------
(***************************************************************************)
(* The worker queue of a client: AsyncQueue over the libdispatch executor, *)
(* whose tasks are shared between the executor and libdispatch by counting *)
(* references, and the disposal of the queue by FirestoreClient::Dispose.  *)
(*                                                                         *)
(* A step is one critical section of one thread, under the mutex of the    *)
(* queue, of the executor or of a task. Callers enqueue calls, disposers   *)
(* take the client down, and the worker is the thread on which libdispatch *)
(* (external) runs one task after the other. An operation on the worker    *)
(* may schedule timers and cancel them, its own one included.              *)
(***************************************************************************)
EXTENDS Integers, Sequences, FiniteSets, Functions

CONSTANTS
  Callers,     \* the threads that enqueue calls
  Disposers,   \* the threads that may call FirestoreClient::Dispose
  Worker,      \* the thread of the dispatch queue
  NoThread,
  MaxTasks,    \* bound on the calls and timers that are created
  Settings     \* the settings to check: how often each disposer calls

ASSUME ThreadsAssumption ==
  /\ Worker \notin Callers \cup Disposers
  /\ NoThread \notin Callers \cup Disposers \cup {Worker}
  /\ Callers \cap Disposers = {}
  /\ \A s \in Settings : DOMAIN s = Disposers /\ \A th \in Disposers : s[th] \in Nat
ASSUME TasksAssumption == MaxTasks \in Nat

Threads == Callers \cup Disposers \cup {Worker}

VARIABLES
  mode,        \* mode_ of the queue
  lock,        \* the thread that holds the queue's mutex_, or NoThread
  tasks,       \* every Task, in the order of creation
  executor,    \* tasks_, schedule_, current_id_ and disposed_ of the executor
  dispatch,    \* libdispatch: tasks ready to run, and timers not yet due
  thread,      \* where each thread is, with the tasks it holds
  disposers,   \* how often each disposer will still call
  started,     \* history: the tasks whose operation has started
  cancelled,   \* history: the timers cancelled by their handle before they started
  ignored,     \* history: those cancelled while the executor is disposed of
  disposed,    \* history: whether a Dispose of the queue has returned
  failed       \* what must never happen and did

vars == <<mode, lock, tasks, executor, dispatch, thread, disposers, started,
          cancelled, ignored, disposed, failed>>
history == <<disposers, started, cancelled, ignored, disposed>>

NoTask  == 0
TaskIds == DOMAIN tasks

\* The delayed tasks: the timers of the client and of its streams, which cancel
\* one another and which the termination cancels, and the retries of
\* transactions, which nothing cancels.
TimerKinds == {"timer", "retry"}
IsTimer(t) == tasks[t].kind \in TimerKinds

\* Where a thread is: idle, or within a call; its own task, the tasks it has
\* taken from the executor, and what it does when they are released.
AtRest == [pc |-> "idle", task |-> NoTask, rest |-> {}, then |-> "idle"]

Init ==
  /\ mode = "running"
  /\ lock = NoThread
  /\ tasks = <<>>
  /\ executor = [tasks |-> {}, schedule |-> <<>>, nextId |-> 0, disposed |-> FALSE]
  /\ dispatch = [ready |-> <<>>, timers |-> {}, running |-> NoTask]
  /\ thread = [th \in Threads |-> AtRest]
  /\ disposers \in Settings
  /\ started = {} /\ cancelled = {} /\ ignored = {}
  /\ disposed = FALSE
  /\ failed = {}

At(th, pc) == thread[th].pc = pc
Go(th, pc) == thread' = [thread EXCEPT ![th].pc = pc]

\* Touching a task that has been deleted.
Live(t, fs) == IF tasks[t].refs > 0 THEN fs ELSE fs \cup {"use_after_free"}

\* Task::Release and Task::Retain.
Count(t, n) == [tasks EXCEPT ![t].refs = @ + n]

-----------------------------------------------------------------------------
(* Enqueueing: the mode is checked, the task is registered and handed to     *)
(* libdispatch under the mutex of the queue.                                 *)

Hold(th) == th

Create(th, kind) ==
  /\ Len(tasks) < MaxTasks \/ kind = "terminate"
  /\ lock = NoThread
  /\ tasks' = Append(tasks, [kind |-> kind, state |-> "initial", refs |-> 1,
                             id |-> IF kind \in TimerKinds THEN executor.nextId ELSE 0,
                             executor |-> TRUE])
  /\ lock' = Hold(th)
  /\ thread' = [thread EXCEPT ![th].pc = "insert", ![th].task = Len(tasks) + 1]
  /\ UNCHANGED <<mode, executor, dispatch, history, failed>>

\* Enqueue by a caller; nothing happens unless the queue is running.
Enqueue(th) == At(th, "idle") /\ mode = "running" /\ Create(th, "call")

\* EnqueueAfterDelay by an operation.
EnqueueAfterDelay ==
  /\ At(Worker, "operation")
  /\ tasks[dispatch.running].kind # "terminate"
  /\ mode = "running"
  /\ \E kind \in TimerKinds : Create(Worker, kind)

Return(th) == IF th = Worker THEN "operation"
              ELSE IF th \in Disposers THEN "waitStart" ELSE "idle"

\* Execute and Schedule, within the executor's mutex.
Insert(th) ==
  /\ At(th, "insert")
  /\ LET t == thread[th].task
     IN  IF executor.disposed
         THEN /\ tasks' = Count(t, -1)
              /\ lock' = NoThread
              /\ Go(th, Return(th))
              /\ UNCHANGED executor
         ELSE /\ executor' =
                   [executor EXCEPT
                      !.tasks    = @ \cup {t},
                      !.schedule = IF IsTimer(t)
                                   THEN [i \in DOMAIN @ \cup {tasks[t].id} |->
                                           IF i = tasks[t].id THEN t ELSE @[i]]
                                   ELSE @,
                      !.nextId   = IF IsTimer(t) THEN @ + 1 ELSE @]
              /\ Go(th, "dispatch")
              /\ UNCHANGED <<tasks, lock>>
  /\ UNCHANGED <<mode, dispatch, history, failed>>

\* Retain for libdispatch, and dispatch_async_f or dispatch_after_f.
Dispatch(th) ==
  /\ At(th, "dispatch")
  /\ LET t == thread[th].task
     IN  /\ tasks' = Count(t, 1)
         /\ failed' = Live(t, failed)
         /\ dispatch' = IF IsTimer(t)
                        THEN [dispatch EXCEPT !.timers = @ \cup {t}]
                        ELSE [dispatch EXCEPT !.ready = Append(@, t)]
  /\ lock' = NoThread
  /\ Go(th, Return(th))
  /\ UNCHANGED <<mode, executor, history>>

-----------------------------------------------------------------------------
(* Cancellation                                                              *)

\* The caller of Cancel was promised that the timer does not start.
Promise(t) ==
  IF t \in started THEN UNCHANGED <<cancelled, ignored>>
  ELSE IF executor.disposed
       THEN ignored' = ignored \cup {t} /\ UNCHANGED cancelled
       ELSE cancelled' = cancelled \cup {t} /\ UNCHANGED ignored

\* Executor::Cancel by the handle of a timer: the executor's reference moves to
\* this call; an id that is not scheduled any more is ignored.
Cancel(t) ==
  /\ At(Worker, "operation")
  /\ tasks[t].kind = "timer"
  /\ t \notin cancelled \cup ignored
  /\ Promise(t)
  /\ IF tasks[t].id \in DOMAIN executor.schedule
     THEN LET found == executor.schedule[tasks[t].id]
          IN  /\ executor' = [executor EXCEPT
                                !.tasks    = @ \ {found},
                                !.schedule = Restrict(@, DOMAIN @ \ {tasks[t].id})]
              /\ thread' = [thread EXCEPT ![Worker].pc = "cancel", ![Worker].task = found,
                                          ![Worker].then = "operation"]
     ELSE UNCHANGED <<executor, thread>>
  /\ UNCHANGED <<mode, lock, tasks, dispatch, disposers, started, disposed, failed>>

\* Mutant: a task that cancels itself waits for itself.
WaitsForRunning(th, t) == tasks[t].state = "running"

\* A running task is awaited, except by itself.
MustWait(th, t) == tasks[t].state = "running" /\ th # Worker

\* Task::Cancel, under the mutex of the task.
TaskCancel(th) ==
  /\ At(th, "cancel")
  /\ LET t == thread[th].task
     IN  /\ tasks' = [tasks EXCEPT
                        ![t].state = IF @ = "initial" THEN "cancelled" ELSE @,
                        ![t].executor = @ /\ tasks[t].state \notin {"initial", "running"}]
         /\ failed' = Live(t, failed)
         /\ Go(th, IF MustWait(th, t) THEN "await" ELSE "release")
  /\ UNCHANGED <<mode, lock, executor, dispatch, history>>

\* Task::AwaitLocked.
Await(th) ==
  /\ At(th, "await")
  /\ tasks[thread[th].task].state \in {"cancelled", "done"}
  /\ Go(th, "release")
  /\ UNCHANGED <<mode, lock, tasks, executor, dispatch, history, failed>>

Release(th) ==
  /\ At(th, "release")
  /\ tasks' = Count(thread[th].task, -1)
  /\ failed' = Live(thread[th].task, failed)
  /\ Go(th, thread[th].then)
  /\ UNCHANGED <<mode, lock, executor, dispatch, history>>

-----------------------------------------------------------------------------
(* libdispatch and the worker                                                *)

TimerIsDue(t) ==
  /\ t \in dispatch.timers
  /\ dispatch' = [dispatch EXCEPT !.timers = @ \ {t}, !.ready = Append(@, t)]
  /\ UNCHANGED <<mode, lock, tasks, executor, thread, history, failed>>

\* InvokeAsync, and the beginning of Task::ExecuteAndRelease.
Start ==
  /\ At(Worker, "idle")
  /\ dispatch.ready # <<>>
  /\ LET t   == Head(dispatch.ready)
         run == tasks[t].state = "initial"
     IN  /\ dispatch' = [dispatch EXCEPT !.ready = Tail(@), !.running = t]
         /\ failed' = Live(t, failed)
         /\ tasks' = [tasks EXCEPT ![t].state = IF run THEN "running" ELSE @]
         /\ started' = IF run THEN started \cup {t} ELSE started
         /\ Go(Worker, IF run THEN "operation" ELSE "last")
  /\ UNCHANGED <<mode, lock, executor, disposers, cancelled, ignored, disposed>>

\* Mutant: immediate tasks, whose id is 0, are removed from the schedule too.
UnscheduleById(t) == Restrict(executor.schedule, DOMAIN executor.schedule \ {tasks[t].id})

\* Only a timer is removed from the schedule by its id.
Unschedule(t) ==
  IF IsTimer(t)
  THEN Restrict(executor.schedule, DOMAIN executor.schedule \ {tasks[t].id})
  ELSE executor.schedule

\* Mutant: the reference is given up although a cancellation or a disposal has it.
NotifiesAlways(t) == tasks[t].executor

\* OnCompletion releases the task only if the executor still has it.
Notifies(t) == tasks[t].executor /\ t \in executor.tasks

\* TerminateInternal has cancelled the timers before it ends.
Terminated == \A t \in TaskIds : tasks[t].kind = "timer" =>
                t \in cancelled \cup ignored \cup started

\* The operation ends; unless it was cancelled, the task tells the executor,
\* which gives up its reference (OnCompletion).
Finish ==
  /\ At(Worker, "operation")
  /\ tasks[dispatch.running].kind = "terminate" => Terminated
  /\ LET t      == dispatch.running
         notify == Notifies(t)
     IN  /\ executor' = IF notify
                        THEN [executor EXCEPT !.tasks = @ \ {t}, !.schedule = Unschedule(t)]
                        ELSE executor
         /\ tasks' = [tasks EXCEPT ![t].state = "done",
                                   ![t].refs  = IF notify THEN @ - 1 ELSE @]
         /\ failed' = IF tasks[t].executor /\ disposed
                      THEN failed \cup {"executor_used_after_dispose"} ELSE failed
  /\ Go(Worker, "last")
  /\ UNCHANGED <<mode, lock, dispatch, history>>

\* The release at the end of ExecuteAndRelease.
ReleaseLast ==
  /\ At(Worker, "last")
  /\ tasks' = Count(dispatch.running, -1)
  /\ failed' = Live(dispatch.running, failed)
  /\ dispatch' = [dispatch EXCEPT !.running = NoTask]
  /\ Go(Worker, "idle")
  /\ UNCHANGED <<mode, lock, executor, history>>

-----------------------------------------------------------------------------
(* FirestoreClient::Dispose                                                  *)

\* EnterRestrictedMode.
Dispose(th) ==
  /\ At(th, "idle")
  /\ disposers[th] > 0
  /\ lock = NoThread
  /\ mode' = IF mode = "disposed" THEN mode ELSE "restricted"
  /\ disposers' = [disposers EXCEPT ![th] = @ - 1]
  /\ Go(th, "terminate")
  /\ UNCHANGED <<lock, tasks, executor, dispatch, started, cancelled, ignored,
                 disposed, failed>>

\* EnqueueEvenWhileRestricted of the termination.
EnqueueTerminate(th) == At(th, "terminate") /\ mode # "disposed" /\ Create(th, "terminate")

\* The queue is disposed of already: nothing to wait for.
SkipTerminate(th) ==
  /\ At(th, "terminate")
  /\ mode = "disposed"
  /\ lock = NoThread
  /\ Go(th, "dispose")
  /\ UNCHANGED <<mode, lock, tasks, executor, dispatch, history, failed>>

\* signal_disposing: the termination has started.
WaitStart(th) ==
  /\ At(th, "waitStart")
  /\ thread[th].task \in started
  /\ Go(th, "dispose")
  /\ UNCHANGED <<mode, lock, tasks, executor, dispatch, history, failed>>

\* AsyncQueue::Dispose.
DisposeQueue(th) ==
  /\ At(th, "dispose")
  /\ lock = NoThread
  /\ mode' = "disposed"
  /\ Go(th, "swap")
  /\ UNCHANGED <<lock, tasks, executor, dispatch, history, failed>>

\* Mutant: only the timers are taken out and cancelled.
TakeTimers(e) == Range(e.schedule)

Take(e) == e.tasks

\* ExecutorLibdispatch::Dispose takes every task out of the executor.
Swap(th) ==
  /\ At(th, "swap")
  /\ thread' = [thread EXCEPT ![th].pc = "drain", ![th].rest = Take(executor)]
  /\ executor' = [executor EXCEPT !.tasks = {}, !.schedule = <<>>, !.disposed = TRUE]
  /\ UNCHANGED <<mode, lock, tasks, dispatch, history, failed>>

DrainNext(th) ==
  /\ At(th, "drain")
  /\ \E t \in thread[th].rest :
       thread' = [thread EXCEPT ![th].pc = "cancel", ![th].task = t,
                                ![th].rest = @ \ {t}, ![th].then = "drain"]
  /\ UNCHANGED <<mode, lock, tasks, executor, dispatch, history, failed>>

DisposeReturns(th) ==
  /\ At(th, "drain")
  /\ thread[th].rest = {}
  /\ disposed' = TRUE
  /\ thread' = [thread EXCEPT ![th] = AtRest]
  /\ UNCHANGED <<mode, lock, tasks, executor, dispatch, disposers, started, cancelled,
                 ignored, failed>>

-----------------------------------------------------------------------------

\* What a thread does next once it is within a call.
Proceed(th) ==
  \/ Insert(th) \/ Dispatch(th)
  \/ TaskCancel(th) \/ Await(th) \/ Release(th)
  \/ EnqueueTerminate(th) \/ SkipTerminate(th) \/ WaitStart(th)
  \/ DisposeQueue(th) \/ Swap(th) \/ DrainNext(th) \/ DisposeReturns(th)

Operation == EnqueueAfterDelay \/ \E t \in TaskIds : Cancel(t)

Next ==
  \/ \E th \in Callers : Enqueue(th)
  \/ \E th \in Disposers : Dispose(th)
  \/ \E th \in Threads : Proceed(th)
  \/ Operation
  \/ Start \/ Finish \/ ReleaseLast
  \/ \E t \in TaskIds : TimerIsDue(t)

Spec == Init /\ [][Next]_vars

\* Threads are scheduled, mutexes are handed out fairly, operations end, and
\* libdispatch runs what it was given.
FairSpec ==
  /\ Spec
  /\ \A th \in Threads : SF_vars(Proceed(th))
  /\ WF_vars(Start) /\ SF_vars(Finish) /\ WF_vars(ReleaseLast)
  /\ SF_vars(\E t \in TaskIds : Cancel(t))
  /\ \A t \in 1..MaxTasks :
       WF_vars(t \in TaskIds /\ TimerIsDue(t))
-----------------------------------------------------------------------------
(* Properties *)

TypeOK ==
  /\ mode \in {"running", "restricted", "disposed"}
  /\ lock \in Threads \cup {NoThread}
  /\ \A t \in TaskIds : tasks[t].refs \in 0..3
  /\ executor.tasks \subseteq TaskIds

\* executor.h:173: "If the operation has not been run yet, cancels the operation."
\* A timer cancelled by its handle before it started never starts, also when it
\* is due in libdispatch already, and when other tasks complete in between.
CancelledNeverStarts == cancelled \cap started = {}

\* The same while the executor is disposed of: Dispose empties the schedule before
\* it cancels the tasks one by one (executor_libdispatch.mm:66-91), so a Cancel
\* in between finds nothing and a due timer runs after it.
CancelIsHeeded == (cancelled \cup ignored) \cap started = {}

\* async_queue.cc:145: "The Executor guarantees that this operation will either
\* execute before `Dispose` completes or not at all."
DisposedIsQuiet ==
  [](disposed => \A t \in TaskIds : tasks[t].state # "running")
  /\ [][disposed => started' = started]_vars

\* The calls, and libdispatch, that hold task t.
HeldByCalls(t) ==
  {th \in Threads : \/ /\ thread[th].task = t
                       /\ thread[th].pc \in {"insert", "cancel", "await", "release"}
                    \/ t \in thread[th].rest}
HeldByDispatch(t) ==
  t = dispatch.running \/ t \in dispatch.timers \cup Range(dispatch.ready)

\* task.h: "Tasks are shared by the executor and the underlying system". The count
\* of a task is the number of those that hold it: the executor, libdispatch until
\* it has run the task, and each call that creates, cancels or drains it. So no
\* task leaks, none is touched after it was deleted, and none calls back into an
\* executor whose Dispose has returned.
RefsAreHolders ==
  /\ \A t \in TaskIds :
       tasks[t].refs = Cardinality(HeldByCalls(t))
                     + (IF t \in executor.tasks THEN 1 ELSE 0)
                     + (IF HeldByDispatch(t) THEN 1 ELSE 0)
  /\ failed = {}

\* One disposing thread: its Dispose waits for the termination to start and, in the
\* executor, for every task that runs while it is drained. It returns, whatever
\* calls and timers are queued before the termination, run while the queue is taken
\* down, or cancel one another, and so does a second one, of the destructor. (With
\* two disposing threads one may wait for ever: its termination is taken out by the
\* other. MCAsyncQueueDispose shows that.)
DisposeEnds ==
  \A th \in Disposers : ~At(th, "idle") ~> At(th, "idle")
=============================================================================
