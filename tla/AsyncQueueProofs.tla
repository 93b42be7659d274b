--------------------------- MODULE AsyncQueueProofs ---------------------------
(***************************************************************************)
(* A timer that was cancelled never starts, and the reference count of a   *)
(* task is the number of those that hold it, for any number of threads and *)
(* tasks. Nothing runs once the queue has been disposed of by the only     *)
(* thread that does so; of two that do it at once the first to return may  *)
(* leave tasks to the other one, so that the theorems on the end of the    *)
(* queue are about a single one.                                           *)
(***************************************************************************)
EXTENDS AsyncQueue, SequenceTheorems, FiniteSetTheorems, TLAPS

TaskKinds  == {"call", "terminate"} \cup TimerKinds
TaskRecord == [kind : TaskKinds, state : {"initial", "running", "cancelled", "done"},
               refs : Nat, id : Nat, executor : BOOLEAN]
Places == {"idle", "insert", "dispatch", "operation", "cancel", "await", "release", "last",
           "terminate", "waitStart", "dispose", "swap", "drain"}
ThreadRecord ==
  [pc : Places, task : Nat, rest : SUBSET Nat, then : {"idle", "operation", "drain"}]
Schedules == UNION {[S -> Nat] : S \in SUBSET Nat}

Types ==
  /\ mode \in {"running", "restricted", "disposed"}
  /\ lock \in Threads \cup {NoThread}
  /\ tasks \in Seq(TaskRecord)
  /\ executor \in [tasks : SUBSET Nat, schedule : Schedules, nextId : Nat, disposed : BOOLEAN]
  /\ dispatch \in [ready : Seq(Nat), timers : SUBSET Nat, running : Nat]
  /\ thread \in [Threads -> ThreadRecord]
  /\ disposed \in BOOLEAN

Pc(th)   == thread[th].pc
Kind(t)  == tasks[t].kind
State(t) == tasks[t].state

\* A thread holds a task, and is yet to cancel it.
Holds(th, t) ==
  \/ thread[th].task = t /\ Pc(th) \in {"insert", "cancel", "await", "release"}
  \/ t \in thread[th].rest
WillCancel(th, t) == (thread[th].task = t /\ Pc(th) = "cancel") \/ t \in thread[th].rest

\* The termination of the client has started.
Terminating == \E t \in started : Kind(t) = "terminate"

ThreadsOK ==
  /\ \A th \in Callers : Pc(th) \in {"idle", "insert", "dispatch"}
  /\ \A th \in Disposers :
       Pc(th) \in {"idle", "terminate", "insert", "dispatch", "waitStart", "dispose",
                   "swap", "drain", "cancel", "await", "release"}
  /\ Pc(Worker) \in {"idle", "operation", "insert", "dispatch", "cancel", "release", "last"}
  /\ \A th \in Threads :
       /\ Pc(th) \in {"insert", "dispatch", "waitStart", "cancel", "await", "release"} =>
            thread[th].task \in TaskIds
       /\ Pc(th) \in {"insert", "dispatch"} <=> lock = th
       /\ Pc(th) \in {"cancel", "await", "release"} =>
            /\ thread[th].task \notin thread[th].rest
            /\ thread[th].then = IF th = Worker THEN "operation" ELSE "drain"
       /\ thread[th].rest \subseteq TaskIds
       /\ th = Worker \/ Pc(th) \notin {"drain", "cancel", "await", "release"} =>
            thread[th].rest = {}

DisposersOK ==
  /\ \A th \in Disposers :
       /\ Pc(th) # "idle" => mode # "running"
       /\ Pc(th) \in {"insert", "dispatch", "waitStart"} => Kind(thread[th].task) = "terminate"
       /\ Pc(th) = "dispose" => Terminating
       /\ Pc(th) \in {"swap", "drain", "cancel", "await", "release"} => mode = "disposed"
       /\ Pc(th) \in {"drain", "cancel", "await", "release"} => executor.disposed
  /\ mode = "disposed" => lock = NoThread /\ Terminating
  /\ executor.disposed => mode = "disposed" /\ executor.tasks = {} /\ DOMAIN executor.schedule = {}
  /\ \A t \in TaskIds : Kind(t) = "terminate" => mode # "running"

Owners ==
  /\ executor.tasks \subseteq TaskIds
  /\ \A a, b \in Threads : \A t : Holds(a, t) /\ Holds(b, t) => a = b
  /\ \A a \in Threads : \A t \in executor.tasks : ~Holds(a, t)

Inserting ==
  \A th \in Threads :
    /\ Pc(th) \in {"insert", "dispatch"} =>
         ~HeldByDispatch(thread[th].task) /\ State(thread[th].task) = "initial"
    /\ Pc(th) \in {"insert", "dispatch"} /\ IsTimer(thread[th].task) => th = Worker
    /\ Pc(th) = "insert" /\ IsTimer(thread[th].task) =>
         tasks[thread[th].task].id = executor.nextId
    /\ Pc(th) = "dispatch" => thread[th].task \in executor.tasks

Once(s) == \A i, j \in DOMAIN s : s[i] = s[j] => i = j

Dispatching ==
  /\ Once(dispatch.ready)
  /\ Range(dispatch.ready) \subseteq TaskIds
  /\ Range(dispatch.ready) \cap dispatch.timers = {}
  /\ dispatch.timers \subseteq TaskIds
  /\ dispatch.running \notin dispatch.timers \cup Range(dispatch.ready)
  /\ dispatch.running \in TaskIds \cup {NoTask}
  /\ dispatch.running = NoTask <=> Pc(Worker) = "idle"

Scheduled ==
  /\ \A i \in DOMAIN executor.schedule :
       /\ executor.schedule[i] \in executor.tasks
       /\ IsTimer(executor.schedule[i])
       /\ tasks[executor.schedule[i]].id = i
  /\ \A t \in executor.tasks : IsTimer(t) =>
       tasks[t].id \in DOMAIN executor.schedule /\ executor.schedule[tasks[t].id] = t
  /\ \A t \in TaskIds : IsTimer(t) =>
       \/ tasks[t].id < executor.nextId
       \/ Pc(Worker) = "insert" /\ thread[Worker].task = t
  /\ \A t, u \in TaskIds : IsTimer(t) /\ IsTimer(u) /\ tasks[t].id = tasks[u].id => t = u

Starts ==
  /\ started \subseteq TaskIds
  /\ \A t \in TaskIds :
       /\ t \in started <=> State(t) \in {"running", "done"}
       /\ State(t) = "running" <=>
            t = dispatch.running /\ Pc(Worker) # "last"
  /\ \A t \in TaskIds : State(t) = "initial" =>
       \/ t \in executor.tasks
       \/ \E th \in Threads :
            WillCancel(th, t) \/ (Pc(th) = "insert" /\ thread[th].task = t)
  /\ \A th \in Threads :
       /\ Pc(th) \in {"await", "release"} => State(thread[th].task) # "initial"
       /\ Pc(th) = "release" /\ th # Worker => State(thread[th].task) # "running"

Cancelling ==
  /\ cancelled \cup ignored \subseteq TaskIds
  /\ cancelled \cap started = {}
  /\ \A t \in cancelled :
       State(t) = "cancelled" \/ (Pc(Worker) = "cancel" /\ thread[Worker].task = t)
  /\ \A t \in TaskIds : State(t) = "cancelled" =>
       t \in cancelled \cup ignored \/ executor.disposed
  /\ Pc(Worker) = "cancel" => thread[Worker].task \in cancelled \cup ignored \cup started

Ending ==
  Terminating =>
    /\ \/ /\ dispatch.running \in TaskIds
          /\ Kind(dispatch.running) = "terminate" /\ State(dispatch.running) = "running"
       \/ \A t \in TaskIds : Kind(t) = "timer" => t \in cancelled \cup ignored \cup started
    /\ \A t \in TaskIds : State(t) = "running" =>
         /\ Kind(t) = "timer" => t \in cancelled \cup ignored
         /\ \/ t \in executor.tasks
            \/ \E th \in Disposers :
                 WillCancel(th, t) \/ (Pc(th) = "await" /\ thread[th].task = t)

Counts ==
  \A t \in TaskIds :
    tasks[t].refs = (IF t \in executor.tasks \/ \E th \in Threads : Holds(th, t) THEN 1 ELSE 0)
                  + (IF HeldByDispatch(t) THEN 1 ELSE 0)

IInv ==
  /\ Types /\ ThreadsOK /\ DisposersOK /\ Owners /\ Inserting /\ Dispatching
  /\ Scheduled /\ Starts /\ Cancelling /\ Ending /\ Counts
  /\ "use_after_free" \notin failed

\* At most one thread disposes of the queue, as often as it likes.
Inactive(th) == disposers[th] = 0 /\ Pc(th) = "idle"
Single ==
  /\ DOMAIN disposers = Disposers
  /\ \A a, b \in Disposers : a = b \/ Inactive(a) \/ Inactive(b)

Quiet ==
  disposed => /\ executor.disposed
              /\ \A th \in Disposers : \A t : ~Holds(th, t)

SingleInv == IInv /\ Single /\ Quiet /\ failed = {}

-----------------------------------------------------------------------------
(* Steps of one thread                                                       *)

\* Another place of th; what it holds stays.
Moved(th, p) ==
  /\ thread' \in [Threads -> ThreadRecord]
  /\ thread'[th].pc = p
  /\ thread'[th].task = thread[th].task
  /\ thread'[th].rest = thread[th].rest
  /\ thread'[th].then = thread[th].then
  /\ \A o \in Threads : o # th => thread'[o] = thread[o]

\* Go does that.
LEMMA GoMoves ==
  ASSUME Types, NEW th \in Threads, NEW p \in Places, Go(th, p)
  PROVE  Moved(th, p)
BY DEF Types, Go, Moved, ThreadRecord

\* Ids of tasks are positive.
LEMMA TaskIdsType ==
  ASSUME Types PROVE TaskIds \subseteq Nat /\ NoTask \notin TaskIds
BY DEF Types, TaskIds, NoTask

\* The tasks are as they were, but for their references.
SameTasks ==
  /\ tasks' \in Seq(TaskRecord)
  /\ TaskIds' = TaskIds
  /\ \A u \in TaskIds :
       tasks'[u].kind = tasks[u].kind /\ tasks'[u].state = tasks[u].state
       /\ tasks'[u].id = tasks[u].id

\* Task t is counted n times.
Counted(t, n) ==
  \A u \in TaskIds : tasks'[u].refs = IF u = t THEN n ELSE tasks[u].refs

\* Retain and Release do that.
LEMMA CountDoes ==
  ASSUME Types, NEW t \in TaskIds, NEW n, n \in Int, tasks[t].refs + n \in Nat,
         tasks' = Count(t, n)
  PROVE  SameTasks /\ Counted(t, tasks[t].refs + n)
<1>1. tasks \in Seq(TaskRecord) /\ t \in DOMAIN tasks /\ tasks[t] \in TaskRecord
  BY DEF Types, TaskIds
<1> DEFINE r == [tasks[t] EXCEPT !.refs = @ + n]
<1>2. r \in TaskRecord /\ r.refs = tasks[t].refs + n /\ r.kind = tasks[t].kind
      /\ r.state = tasks[t].state /\ r.id = tasks[t].id
  BY <1>1 DEF TaskRecord
<1>3. tasks' = [tasks EXCEPT ![t] = r]
  BY DEF Count
<1> HIDE DEF r
<1> QED
  BY <1>1, <1>2, <1>3 DEF SameTasks, Counted, TaskIds

\* Task t is in the state s; its references are as they were.
Entered(t, s) ==
  /\ tasks' \in Seq(TaskRecord)
  /\ TaskIds' = TaskIds
  /\ \A u \in TaskIds :
       /\ tasks'[u].kind = tasks[u].kind /\ tasks'[u].refs = tasks[u].refs
       /\ tasks'[u].id = tasks[u].id
       /\ tasks'[u].state = IF u = t THEN s ELSE tasks[u].state

\* One more task is ready.
LEMMA ReadyGrows ==
  ASSUME NEW s \in Seq(Nat), NEW t \in Nat
  PROVE  /\ Append(s, t) \in Seq(Nat)
         /\ \A u : u \in Range(Append(s, t)) <=> u \in Range(s) \/ u = t
         /\ Once(s) /\ t \notin Range(s) => Once(Append(s, t))
<1>1. /\ Append(s, t) \in Seq(Nat) /\ Len(s) \in Nat
      /\ DOMAIN s = 1..Len(s) /\ DOMAIN Append(s, t) = 1..(Len(s) + 1)
      /\ \A i \in 1..Len(s) : Append(s, t)[i] = s[i]
      /\ Append(s, t)[Len(s) + 1] = t
  OBVIOUS
<1> QED
  BY <1>1 DEF Range, Once

\* The first of the tasks that are ready is taken.
LEMMA ReadyShrinks ==
  ASSUME NEW s \in Seq(Nat), s # <<>>
  PROVE  /\ Tail(s) \in Seq(Nat) /\ Head(s) \in Range(s)
         /\ Once(s) => /\ \A u : u \in Range(s) <=> u \in Range(Tail(s)) \/ u = Head(s)
                       /\ Once(Tail(s)) /\ Head(s) \notin Range(Tail(s))
<1>1. /\ Tail(s) \in Seq(Nat) /\ Len(s) \in Nat \ {0}
      /\ DOMAIN s = 1..Len(s) /\ DOMAIN Tail(s) = 1..(Len(s) - 1)
      /\ \A i \in 1..(Len(s) - 1) : Tail(s)[i] = s[i + 1]
      /\ Head(s) = s[1]
  OBVIOUS
<1>2. \A i \in DOMAIN s : i # 1 => i - 1 \in DOMAIN Tail(s) /\ s[i] = Tail(s)[i - 1]
  BY <1>1
<1>3. \A i \in DOMAIN Tail(s) : i + 1 \in DOMAIN s /\ Tail(s)[i] = s[i + 1] /\ i + 1 # 1
                                /\ i \in Nat
  BY <1>1
<1>4. 1 \in DOMAIN s /\ Head(s) = s[1]
  BY <1>1
<1>5. \A u : u \in Range(s) <=> u \in Range(Tail(s)) \/ u = Head(s)
  <2>1. ASSUME NEW i \in DOMAIN s PROVE s[i] \in Range(Tail(s)) \/ s[i] = Head(s)
    BY <1>2, <1>4 DEF Range
  <2>2. ASSUME NEW i \in DOMAIN Tail(s) PROVE Tail(s)[i] \in Range(s)
    BY <1>3 DEF Range
  <2>3. Head(s) \in Range(s)
    BY <1>4 DEF Range
  <2>4. \A u : u \in Range(s) => \E i \in DOMAIN s : u = s[i]
    BY DEF Range
  <2>5. \A u : u \in Range(Tail(s)) => \E i \in DOMAIN Tail(s) : u = Tail(s)[i]
    BY DEF Range
  <2> QED
    BY <2>1, <2>2, <2>3, <2>4, <2>5
<1>6. ASSUME Once(s) PROVE Once(Tail(s)) /\ Head(s) \notin Range(Tail(s))
  <2>1. \A i, j \in DOMAIN Tail(s) : Tail(s)[i] = Tail(s)[j] => i + 1 = j + 1
    BY <1>3, <1>6 DEF Once
  <2>2. \A i \in DOMAIN Tail(s) : Tail(s)[i] # Head(s)
    BY <1>3, <1>4, <1>6 DEF Once
  <2> QED
    BY <1>3, <2>1, <2>2 DEF Once, Range
<1>7. Head(s) \in Range(s)
  BY <1>4 DEF Range
<1> QED
  BY <1>1, <1>5, <1>6, <1>7

\* A disposer has waited for a task that ran.
LEMMA AwaitKeeps ==
  ASSUME IInv, NEW th \in Threads, Await(th) PROVE IInv'
<1>1. /\ UNCHANGED <<mode, lock, tasks, executor, dispatch, history, failed>>
      /\ Pc(th) = "await" /\ State(thread[th].task) \in {"cancelled", "done"}
      /\ Go(th, "release")
  BY DEF Await, At, Pc, State
<1>2. Moved(th, "release")
  BY <1>1, GoMoves DEF IInv, Places
<1>3. Types'
  BY <1>1, <1>2 DEF IInv, Types, history, Moved
<1>4. ThreadsOK'
  BY <1>1, <1>2, ThreadsAssumption DEF IInv, ThreadsOK, Pc, Threads, TaskIds, Moved
<1>5. DisposersOK'
  BY <1>1, <1>2, ThreadsAssumption
     DEF IInv, DisposersOK, ThreadsOK, Pc, Kind, Threads, TaskIds, Terminating,
         history, Moved
<1>6. Owners'
  BY <1>1, <1>2 DEF IInv, Owners, Pc, Holds, TaskIds, Moved
<1>7. Inserting'
  BY <1>1, <1>2
     DEF IInv, Inserting, ThreadsOK, Pc, State, HeldByDispatch, IsTimer, Moved
<1>8. Dispatching'
  BY <1>1, <1>2, ThreadsAssumption
     DEF IInv, Dispatching, ThreadsOK, Pc, Threads, TaskIds, Moved
<1>9. Scheduled'
  BY <1>1, <1>2, ThreadsAssumption
     DEF IInv, Scheduled, ThreadsOK, Pc, Threads, TaskIds, IsTimer, Moved
<1>10. Starts'
  BY <1>1, <1>2, ThreadsAssumption
     DEF IInv, Starts, ThreadsOK, Pc, State, Threads, TaskIds, WillCancel, history,
         Moved
<1>11. Cancelling'
  BY <1>1, <1>2, ThreadsAssumption
     DEF IInv, Cancelling, ThreadsOK, Pc, State, Threads, TaskIds, history, Moved
<1>12. Ending'
  BY <1>1, <1>2, ThreadsAssumption
     DEF IInv, Ending, ThreadsOK, Pc, State, Kind, Threads, TaskIds, Terminating,
         WillCancel, history, Moved
<1>13. Counts'
  BY <1>1, <1>2, ThreadsAssumption
     DEF IInv, Counts, Pc, Holds, HeldByDispatch, TaskIds, Moved
<1> QED
  BY <1>1, <1>3, <1>4, <1>5, <1>6, <1>7, <1>8, <1>9, <1>10, <1>11, <1>12, <1>13 DEF IInv

\* Someone else has disposed of the queue.
LEMMA SkipTerminateKeeps ==
  ASSUME IInv, NEW th \in Threads, SkipTerminate(th) PROVE IInv'
<1>1. /\ UNCHANGED <<mode, lock, tasks, executor, dispatch, history, failed>>
      /\ Pc(th) = "terminate" /\ mode = "disposed" /\ Go(th, "dispose")
  BY DEF SkipTerminate, At, Pc
<1>2. Moved(th, "dispose")
  BY <1>1, GoMoves DEF IInv, Places
<1>3. Types'
  BY <1>1, <1>2 DEF IInv, Types, history, Moved
<1>4. ThreadsOK'
  BY <1>1, <1>2, ThreadsAssumption DEF IInv, ThreadsOK, Pc, Threads, TaskIds, Moved
<1>5. DisposersOK'
  BY <1>1, <1>2, ThreadsAssumption
     DEF IInv, DisposersOK, ThreadsOK, Pc, Kind, Threads, TaskIds, Terminating,
         history, Moved
<1>6. Owners'
  BY <1>1, <1>2 DEF IInv, Owners, Pc, Holds, TaskIds, Moved
<1>7. Inserting'
  BY <1>1, <1>2
     DEF IInv, Inserting, ThreadsOK, Pc, State, HeldByDispatch, IsTimer, Moved
<1>8. Dispatching'
  BY <1>1, <1>2, ThreadsAssumption
     DEF IInv, Dispatching, ThreadsOK, Pc, Threads, TaskIds, Moved
<1>9. Scheduled'
  BY <1>1, <1>2, ThreadsAssumption
     DEF IInv, Scheduled, ThreadsOK, Pc, Threads, TaskIds, IsTimer, Moved
<1>10. Starts'
  BY <1>1, <1>2, ThreadsAssumption
     DEF IInv, Starts, ThreadsOK, Pc, State, Threads, TaskIds, WillCancel, history,
         Moved
<1>11. Cancelling'
  BY <1>1, <1>2, ThreadsAssumption
     DEF IInv, Cancelling, ThreadsOK, Pc, State, Threads, TaskIds, history, Moved
<1>12. Ending'
  BY <1>1, <1>2, ThreadsAssumption
     DEF IInv, Ending, ThreadsOK, Pc, State, Kind, Threads, TaskIds, Terminating,
         WillCancel, history, Moved
<1>13. Counts'
  BY <1>1, <1>2, ThreadsAssumption
     DEF IInv, Counts, Pc, Holds, HeldByDispatch, TaskIds, Moved
<1> QED
  BY <1>1, <1>3, <1>4, <1>5, <1>6, <1>7, <1>8, <1>9, <1>10, <1>11, <1>12, <1>13 DEF IInv

\* The termination has started.
LEMMA WaitStartKeeps ==
  ASSUME IInv, NEW th \in Threads, WaitStart(th) PROVE IInv'
<1>1. /\ UNCHANGED <<mode, lock, tasks, executor, dispatch, history, failed>>
      /\ Pc(th) = "waitStart" /\ thread[th].task \in started /\ Go(th, "dispose")
  BY DEF WaitStart, At, Pc
<1>2. Moved(th, "dispose")
  BY <1>1, GoMoves DEF IInv, Places
<1>3. th \in Disposers /\ Kind(thread[th].task) = "terminate"
  BY <1>1, ThreadsAssumption DEF IInv, ThreadsOK, DisposersOK, Threads
<1>4. Types'
  BY <1>1, <1>2, <1>3 DEF IInv, Types, history, Moved
<1>5. ThreadsOK'
  BY <1>1, <1>2, <1>3, ThreadsAssumption
     DEF IInv, ThreadsOK, Pc, Threads, TaskIds, Moved
<1>6. DisposersOK'
  BY <1>1, <1>2, <1>3, ThreadsAssumption
     DEF IInv, DisposersOK, ThreadsOK, Pc, Kind, Threads, TaskIds, Terminating,
         history, Moved
<1>7. Owners'
  BY <1>1, <1>2, <1>3 DEF IInv, Owners, Pc, Holds, TaskIds, Moved
<1>8. Inserting'
  BY <1>1, <1>2, <1>3
     DEF IInv, Inserting, ThreadsOK, Pc, State, HeldByDispatch, IsTimer, Moved
<1>9. Dispatching'
  BY <1>1, <1>2, <1>3, ThreadsAssumption
     DEF IInv, Dispatching, ThreadsOK, Pc, Threads, TaskIds, Moved
<1>10. Scheduled'
  BY <1>1, <1>2, <1>3, ThreadsAssumption
     DEF IInv, Scheduled, ThreadsOK, Pc, Threads, TaskIds, IsTimer, Moved
<1>11. Starts'
  BY <1>1, <1>2, <1>3, ThreadsAssumption
     DEF IInv, Starts, ThreadsOK, Pc, State, Threads, TaskIds, WillCancel, history,
         Moved
<1>12. Cancelling'
  BY <1>1, <1>2, <1>3, ThreadsAssumption
     DEF IInv, Cancelling, ThreadsOK, Pc, State, Threads, TaskIds, history, Moved
<1>13. Ending'
  BY <1>1, <1>2, <1>3, ThreadsAssumption
     DEF IInv, Ending, ThreadsOK, Pc, State, Kind, Threads, TaskIds, Terminating,
         WillCancel, history, Moved
<1>14. Counts'
  BY <1>1, <1>2, <1>3, ThreadsAssumption
     DEF IInv, Counts, Pc, Holds, HeldByDispatch, TaskIds, Moved
<1> QED
  BY <1>1, <1>4, <1>5, <1>6, <1>7, <1>8, <1>9, <1>10, <1>11, <1>12, <1>13, <1>14
     DEF IInv

\* The mode of the queue is disposed, and no thread is about to enqueue.
LEMMA DisposeQueueKeeps ==
  ASSUME IInv, NEW th \in Threads, DisposeQueue(th) PROVE IInv'
<1>1. /\ UNCHANGED <<lock, tasks, executor, dispatch, history, failed>>
      /\ Pc(th) = "dispose" /\ lock = NoThread /\ mode' = "disposed" /\ Go(th, "swap")
  BY DEF DisposeQueue, At, Pc
<1>2. Moved(th, "swap")
  BY <1>1, GoMoves DEF IInv, Places
<1>3. th \in Disposers
  BY <1>1, ThreadsAssumption DEF IInv, ThreadsOK, Threads
<1>4. Types'
  BY <1>1, <1>2, <1>3 DEF IInv, Types, history, Moved
<1>5. ThreadsOK'
  BY <1>1, <1>2, <1>3, ThreadsAssumption
     DEF IInv, ThreadsOK, Pc, Threads, TaskIds, Moved
<1>6. DisposersOK'
  BY <1>1, <1>2, <1>3, ThreadsAssumption
     DEF IInv, DisposersOK, ThreadsOK, Pc, Kind, Threads, TaskIds, Terminating,
         history, Moved
<1>7. Owners'
  BY <1>1, <1>2, <1>3 DEF IInv, Owners, Pc, Holds, TaskIds, Moved
<1>8. Inserting'
  BY <1>1, <1>2, <1>3
     DEF IInv, Inserting, ThreadsOK, Pc, State, HeldByDispatch, IsTimer, Moved
<1>9. Dispatching'
  BY <1>1, <1>2, <1>3, ThreadsAssumption
     DEF IInv, Dispatching, ThreadsOK, Pc, Threads, TaskIds, Moved
<1>10. Scheduled'
  BY <1>1, <1>2, <1>3, ThreadsAssumption
     DEF IInv, Scheduled, ThreadsOK, Pc, Threads, TaskIds, IsTimer, Moved
<1>11. Starts'
  BY <1>1, <1>2, <1>3, ThreadsAssumption
     DEF IInv, Starts, ThreadsOK, Pc, State, Threads, TaskIds, WillCancel, history,
         Moved
<1>12. Cancelling'
  BY <1>1, <1>2, <1>3, ThreadsAssumption
     DEF IInv, Cancelling, ThreadsOK, Pc, State, Threads, TaskIds, history, Moved
<1>13. Ending'
  BY <1>1, <1>2, <1>3, ThreadsAssumption
     DEF IInv, Ending, ThreadsOK, Pc, State, Kind, Threads, TaskIds, Terminating,
         WillCancel, history, Moved
<1>14. Counts'
  BY <1>1, <1>2, <1>3, ThreadsAssumption
     DEF IInv, Counts, Pc, Holds, HeldByDispatch, TaskIds, Moved
<1> QED
  BY <1>1, <1>4, <1>5, <1>6, <1>7, <1>8, <1>9, <1>10, <1>11, <1>12, <1>13, <1>14
     DEF IInv

\* A disposer restricts the queue.
LEMMA DisposeKeeps ==
  ASSUME IInv, NEW th \in Disposers, Dispose(th) PROVE IInv'
<1>1. /\ UNCHANGED <<lock, tasks, executor, dispatch, started, cancelled, ignored, disposed,
                       failed>>
      /\ Pc(th) = "idle" /\ lock = NoThread
      /\ mode' = IF mode = "disposed" THEN mode ELSE "restricted"
      /\ Go(th, "terminate")
  BY DEF Dispose, At, Pc
<1>2. Moved(th, "terminate") /\ th \in Threads
  BY <1>1, GoMoves DEF IInv, Places, Threads
<1>3. Types'
  BY <1>1, <1>2 DEF IInv, Types, history, Moved
<1>4. ThreadsOK'
  BY <1>1, <1>2, ThreadsAssumption DEF IInv, ThreadsOK, Pc, Threads, TaskIds, Moved
<1>5. DisposersOK'
  BY <1>1, <1>2, ThreadsAssumption
     DEF IInv, DisposersOK, ThreadsOK, Pc, Kind, Threads, TaskIds, Terminating,
         history, Moved
<1>6. Owners'
  BY <1>1, <1>2 DEF IInv, Owners, Pc, Holds, TaskIds, Moved
<1>7. Inserting'
  BY <1>1, <1>2
     DEF IInv, Inserting, ThreadsOK, Pc, State, HeldByDispatch, IsTimer, Moved
<1>8. Dispatching'
  BY <1>1, <1>2, ThreadsAssumption
     DEF IInv, Dispatching, ThreadsOK, Pc, Threads, TaskIds, Moved
<1>9. Scheduled'
  BY <1>1, <1>2, ThreadsAssumption
     DEF IInv, Scheduled, ThreadsOK, Pc, Threads, TaskIds, IsTimer, Moved
<1>10. Starts'
  BY <1>1, <1>2, ThreadsAssumption
     DEF IInv, Starts, ThreadsOK, Pc, State, Threads, TaskIds, WillCancel, history,
         Moved
<1>11. Cancelling'
  BY <1>1, <1>2, ThreadsAssumption
     DEF IInv, Cancelling, ThreadsOK, Pc, State, Threads, TaskIds, history, Moved
<1>12. Ending'
  BY <1>1, <1>2, ThreadsAssumption
     DEF IInv, Ending, ThreadsOK, Pc, State, Kind, Threads, TaskIds, Terminating,
         WillCancel, history, Moved
<1>13. Counts'
  BY <1>1, <1>2, ThreadsAssumption
     DEF IInv, Counts, Pc, Holds, HeldByDispatch, TaskIds, Moved
<1> QED
  BY <1>1, <1>3, <1>4, <1>5, <1>6, <1>7, <1>8, <1>9, <1>10, <1>11, <1>12, <1>13 DEF IInv

\* A disposer cancels the next of its tasks.
LEMMA DrainNextKeeps ==
  ASSUME IInv, NEW th \in Threads, DrainNext(th) PROVE IInv'
<1>1. /\ UNCHANGED <<mode, lock, tasks, executor, dispatch, history, failed>>
      /\ Pc(th) = "drain"
  BY DEF DrainNext, At, Pc
<1>2. PICK t \in thread[th].rest :
        thread' = [thread EXCEPT ![th].pc = "cancel", ![th].task = t,
                                 ![th].rest = @ \ {t}, ![th].then = "drain"]
  BY DEF DrainNext
<1>3. /\ thread' \in [Threads -> ThreadRecord]
      /\ thread'[th].pc = "cancel" /\ thread'[th].task = t
      /\ thread'[th].rest = thread[th].rest \ {t} /\ thread'[th].then = "drain"
      /\ \A o \in Threads : o # th => thread'[o] = thread[o]
  <2> DEFINE x == [thread[th] EXCEPT !.pc = "cancel", !.task = t, !.rest = @ \ {t},
                                     !.then = "drain"]
  <2>1. thread \in [Threads -> ThreadRecord] /\ thread' = [thread EXCEPT ![th] = x]
    BY <1>2 DEF IInv, Types
  <2>2. /\ x \in ThreadRecord /\ x.pc = "cancel" /\ x.task = t /\ x.rest = thread[th].rest \ {t}
        /\ x.then = "drain"
    BY <2>1 DEF ThreadRecord, Places
  <2> HIDE DEF x
  <2> QED
    BY <2>1, <2>2
<1>4. th \in Disposers
  BY <1>1, ThreadsAssumption DEF IInv, ThreadsOK, Threads
<1>5. Types'
  BY <1>1, <1>2, <1>3, <1>4 DEF IInv, Types, history
<1>6. ThreadsOK'
  BY <1>1, <1>2, <1>3, <1>4, ThreadsAssumption DEF IInv, ThreadsOK, Pc, Threads, TaskIds
<1>7. DisposersOK'
  BY <1>1, <1>2, <1>3, <1>4, ThreadsAssumption
     DEF IInv, DisposersOK, ThreadsOK, Pc, Kind, Threads, TaskIds, Terminating, history
<1>8. Owners'
  BY <1>1, <1>2, <1>3, <1>4 DEF IInv, Owners, Pc, Holds, TaskIds
<1>9. Inserting'
  BY <1>1, <1>2, <1>3, <1>4
     DEF IInv, Inserting, ThreadsOK, Pc, State, HeldByDispatch, IsTimer
<1>10. Dispatching'
  BY <1>1, <1>2, <1>3, <1>4, ThreadsAssumption
     DEF IInv, Dispatching, ThreadsOK, Pc, Threads, TaskIds
<1>11. Scheduled'
  <2>1. Pc(Worker)' = Pc(Worker) /\ thread'[Worker] = thread[Worker]
    BY <1>3, <1>4, ThreadsAssumption DEF Pc, Threads
  <2> QED
    BY <1>1, <2>1 DEF IInv, Scheduled, IsTimer, TaskIds
<1>12. Starts'
  <2>1. \A o \in Threads : \A u : WillCancel(o, u) => WillCancel(o, u)'
    BY <1>1, <1>3 DEF WillCancel, Pc
  <2>2. /\ \A o \in Threads : Pc(o)' \in {"await", "release"} => thread'[o] = thread[o]
        /\ \A o \in Threads : Pc(o) = "insert" => thread'[o] = thread[o]
        /\ Pc(Worker)' = Pc(Worker)
    BY <1>1, <1>3, <1>4, ThreadsAssumption DEF Pc, Threads
  <2> QED
    BY <1>1, <2>1, <2>2 DEF IInv, Starts, State, Pc, TaskIds, history
<1>13. Cancelling'
  BY <1>1, <1>2, <1>3, <1>4, ThreadsAssumption
     DEF IInv, Cancelling, ThreadsOK, Pc, State, Threads, TaskIds, history
<1>14. Ending'
  BY <1>1, <1>2, <1>3, <1>4, ThreadsAssumption
     DEF IInv, Ending, ThreadsOK, Pc, State, Kind, Threads, TaskIds, Terminating,
         WillCancel, history
<1>15. Counts'
  BY <1>1, <1>2, <1>3, <1>4, ThreadsAssumption
     DEF IInv, Counts, Pc, Holds, HeldByDispatch, TaskIds
<1> QED
  BY <1>1, <1>5, <1>6, <1>7, <1>8, <1>9, <1>10, <1>11, <1>12, <1>13, <1>14, <1>15
     DEF IInv

\* A disposer has cancelled all of its tasks.
LEMMA DisposeReturnsKeeps ==
  ASSUME IInv, NEW th \in Threads, DisposeReturns(th) PROVE IInv'
<1>1. /\ UNCHANGED <<mode, lock, tasks, executor, dispatch, disposers, started, cancelled,
                       ignored, failed>>
      /\ Pc(th) = "drain" /\ thread[th].rest = {} /\ disposed' = TRUE
  BY DEF DisposeReturns, At, Pc
<1>2. /\ thread' \in [Threads -> ThreadRecord]
      /\ thread'[th].pc = "idle" /\ thread'[th].task = NoTask /\ thread'[th].rest = {}
      /\ \A o \in Threads : o # th => thread'[o] = thread[o]
  BY DEF IInv, Types, DisposeReturns, AtRest, NoTask, ThreadRecord, Places
<1>3. th \in Disposers
  BY <1>1, ThreadsAssumption DEF IInv, ThreadsOK, Threads
<1>4. Types'
  BY <1>1, <1>2, <1>3 DEF IInv, Types, history
<1>5. ThreadsOK'
  BY <1>1, <1>2, <1>3, ThreadsAssumption DEF IInv, ThreadsOK, Pc, Threads, TaskIds
<1>6. DisposersOK'
  BY <1>1, <1>2, <1>3, ThreadsAssumption
     DEF IInv, DisposersOK, ThreadsOK, Pc, Kind, Threads, TaskIds, Terminating, history
<1>7. Owners'
  BY <1>1, <1>2, <1>3 DEF IInv, Owners, Pc, Holds, TaskIds
<1>8. Inserting'
  BY <1>1, <1>2, <1>3 DEF IInv, Inserting, ThreadsOK, Pc, State, HeldByDispatch, IsTimer
<1>9. Dispatching'
  BY <1>1, <1>2, <1>3, ThreadsAssumption
     DEF IInv, Dispatching, ThreadsOK, Pc, Threads, TaskIds
<1>10. Scheduled'
  BY <1>1, <1>2, <1>3, ThreadsAssumption
     DEF IInv, Scheduled, ThreadsOK, Pc, Threads, TaskIds, IsTimer
<1>11. Starts'
  BY <1>1, <1>2, <1>3, ThreadsAssumption
     DEF IInv, Starts, ThreadsOK, Pc, State, Threads, TaskIds, WillCancel, history
<1>12. Cancelling'
  BY <1>1, <1>2, <1>3, ThreadsAssumption
     DEF IInv, Cancelling, ThreadsOK, Pc, State, Threads, TaskIds, history
<1>13. Ending'
  BY <1>1, <1>2, <1>3, ThreadsAssumption
     DEF IInv, Ending, ThreadsOK, Pc, State, Kind, Threads, TaskIds, Terminating,
         WillCancel, history
<1>14. Counts'
  BY <1>1, <1>2, <1>3, ThreadsAssumption
     DEF IInv, Counts, Pc, Holds, HeldByDispatch, TaskIds
<1> QED
  BY <1>1, <1>4, <1>5, <1>6, <1>7, <1>8, <1>9, <1>10, <1>11, <1>12, <1>13, <1>14
     DEF IInv

\* A thread gives up the reference it has taken from the executor.
LEMMA ReleaseKeeps ==
  ASSUME IInv, NEW th \in Threads, Release(th) PROVE IInv'
<1> DEFINE t == thread[th].task
<1>1. /\ mode' = mode /\ lock' = lock /\ executor' = executor /\ dispatch' = dispatch
      /\ started' = started /\ cancelled' = cancelled /\ ignored' = ignored
      /\ disposed' = disposed /\ Pc(th) = "release"
  BY DEF Release, At, Pc, history
<1>2. Go(th, thread[th].then) /\ tasks' = Count(t, -1) /\ failed' = Live(t, failed)
  BY DEF Release
<1>3. /\ t \in TaskIds /\ t \notin thread[th].rest /\ th \in Disposers \cup {Worker}
      /\ thread[th].then = IF th = Worker THEN "operation" ELSE "drain"
  BY <1>1, ThreadsAssumption DEF IInv, ThreadsOK, Threads
<1>4. /\ \A o \in Threads : o # th => ~Holds(o, t)
      /\ t \notin executor.tasks /\ Holds(th, t)
  BY <1>1, <1>3 DEF IInv, Owners, Holds
<1>5. tasks[t].refs = 1 + (IF HeldByDispatch(t) THEN 1 ELSE 0)
  BY <1>3, <1>4 DEF IInv, Counts
<1>6. SameTasks /\ Counted(t, tasks[t].refs + (-1)) /\ failed' = failed
  BY <1>2, <1>3, <1>5, CountDoes DEF IInv, Live
<1>7. PICK p \in {"operation", "drain"} :
        Moved(th, p) /\ p = IF th = Worker THEN "operation" ELSE "drain"
  BY <1>2, <1>3, GoMoves DEF IInv, Places
<1>8. th \in Disposers => p = "drain" /\ th # Worker
  BY <1>7, ThreadsAssumption
<1>9. th = Worker => p = "operation"
  BY <1>7
<1>10. (th \in Disposers \/ th = Worker) /\ th \notin Callers
  BY <1>3, ThreadsAssumption
<1>11. /\ SameTasks /\ Moved(th, p)
       /\ started \subseteq TaskIds /\ executor.tasks \subseteq TaskIds
  BY <1>6, <1>7 DEF IInv, Starts, Owners
<1> HIDE DEF t
<1>12. \A o \in Threads : \A u : Holds(o, u)' <=> Holds(o, u) /\ ~(o = th /\ u = t)
  BY <1>1, <1>3, <1>7 DEF Holds, Pc, Moved, t
<1>13. Terminating' <=> Terminating
  BY <1>1, <1>11 DEF Terminating, Kind, SameTasks
<1>14. Types'
  BY <1>1, <1>8, <1>9, <1>10, <1>11, <1>13 DEF IInv, Types, Moved, SameTasks
<1>15. ThreadsOK'
  BY <1>1, <1>8, <1>9, <1>10, <1>11, <1>13, ThreadsAssumption
     DEF IInv, ThreadsOK, Pc, Threads, Moved, SameTasks
<1>16. DisposersOK'
  BY <1>1, <1>8, <1>9, <1>10, <1>11, <1>13, ThreadsAssumption
     DEF IInv, DisposersOK, ThreadsOK, Pc, Kind, Threads, Moved, SameTasks
<1>17. Owners'
  BY <1>1, <1>11, <1>12 DEF IInv, Owners, SameTasks
<1>18. Inserting'
  BY <1>1, <1>8, <1>9, <1>10, <1>11, <1>13
     DEF IInv, Inserting, ThreadsOK, Pc, State, HeldByDispatch, IsTimer, Moved,
         SameTasks
<1>19. Dispatching'
  <2>1. TaskIds' = TaskIds /\ (Pc(Worker)' = "idle" <=> Pc(Worker) = "idle")
    BY <1>1, <1>9, <1>11 DEF SameTasks, Moved, Pc, Threads
  <2> QED
    BY <1>1, <2>1 DEF IInv, Dispatching
<1>20. Scheduled'
  <2>1. \A u \in TaskIds : tasks'[u].id = tasks[u].id /\ tasks'[u].kind = tasks[u].kind
    BY <1>11 DEF SameTasks
  <2>2. Pc(Worker) = "insert" => Pc(Worker)' = "insert" /\ thread'[Worker].task = thread[Worker].task
    BY <1>1, <1>11 DEF Moved, Pc, Threads
  <2>3. TaskIds' = TaskIds
    BY <1>11 DEF SameTasks
  <2> QED
    BY <1>1, <1>11, <2>1, <2>2, <2>3 DEF IInv, Scheduled, IsTimer
<1>21. Starts'
  <2>1. \A o \in Threads : \A u : WillCancel(o, u)' <=> WillCancel(o, u)
    BY <1>1, <1>8, <1>9, <1>10, <1>11 DEF WillCancel, Moved, Pc
  <2>2. /\ \A o \in Threads : Pc(o)' \in {"await", "release"} =>
             Pc(o) = Pc(o)' /\ thread'[o].task = thread[o].task /\ thread[o].task \in TaskIds
        /\ \A o \in Threads : Pc(o) = "insert" =>
             Pc(o)' = "insert" /\ thread'[o].task = thread[o].task
        /\ Pc(Worker)' = "last" <=> Pc(Worker) = "last"
    BY <1>1, <1>8, <1>9, <1>10, <1>11 DEF IInv, ThreadsOK, Threads, Moved, Pc
  <2>3. /\ TaskIds' = TaskIds
        /\ \A u \in TaskIds : tasks'[u].state = tasks[u].state
    BY <1>11 DEF SameTasks
  <2> QED
    BY <1>1, <2>1, <2>2, <2>3 DEF IInv, Starts, State
<1>22. Cancelling'
  BY <1>1, <1>8, <1>9, <1>10, <1>11, <1>13, ThreadsAssumption
     DEF IInv, Cancelling, ThreadsOK, Pc, State, Threads, Moved, SameTasks
<1>23. Ending'
  <2>1. \A o \in Threads : \A u : WillCancel(o, u)' <=> WillCancel(o, u)
    BY <1>1, <1>8, <1>9, <1>10, <1>11 DEF WillCancel, Moved, Pc
  <2>2. \A o \in Threads : Pc(o) = "await" =>
          Pc(o)' = "await" /\ thread'[o].task = thread[o].task
    BY <1>1, <1>11 DEF Moved, Pc
  <2>3. /\ TaskIds' = TaskIds /\ Disposers \subseteq Threads
        /\ \A u \in TaskIds : tasks'[u].kind = tasks[u].kind /\ tasks'[u].state = tasks[u].state
    BY <1>11 DEF SameTasks, Threads
  <2> QED
    BY <1>1, <1>13, <2>1, <2>2, <2>3 DEF IInv, Ending, State, Kind
<1>24. Counts'
  BY <1>1, <1>3, <1>4, <1>5, <1>6, <1>12 DEF IInv, Counts, HeldByDispatch, SameTasks, Counted
<1> QED
  BY <1>1, <1>14, <1>15, <1>16, <1>17, <1>18, <1>19, <1>20, <1>21, <1>22, <1>23, <1>24, <1>6
     DEF IInv

\* libdispatch has run a task to its end.
LEMMA ReleaseLastKeeps ==
  ASSUME IInv, ReleaseLast PROVE IInv'
<1> DEFINE t == dispatch.running
<1>1. /\ mode' = mode /\ lock' = lock /\ executor' = executor
      /\ started' = started /\ cancelled' = cancelled /\ ignored' = ignored
      /\ disposed' = disposed /\ Pc(Worker) = "last" /\ Worker \in Threads
  BY DEF ReleaseLast, At, Pc, history, Threads
<1>2. /\ Go(Worker, "idle") /\ tasks' = Count(t, -1) /\ failed' = Live(t, failed)
      /\ dispatch' = [dispatch EXCEPT !.running = NoTask]
  BY DEF ReleaseLast
<1>3. t \in TaskIds /\ HeldByDispatch(t) /\ NoTask \notin TaskIds
  BY <1>1, TaskIdsType DEF IInv, Dispatching, HeldByDispatch
<1>4. /\ tasks[t].refs \in Nat
      /\ tasks[t].refs + (-1) =
           IF t \in executor.tasks \/ \E th \in Threads : Holds(th, t) THEN 1 ELSE 0
  BY <1>3 DEF IInv, Counts
<1>5. SameTasks /\ Counted(t, tasks[t].refs + (-1)) /\ failed' = failed
  BY <1>2, <1>3, <1>4, CountDoes DEF IInv, Live
<1>6. /\ dispatch' \in [ready : Seq(Nat), timers : SUBSET Nat, running : Nat]
      /\ dispatch'.ready = dispatch.ready /\ dispatch'.timers = dispatch.timers
      /\ dispatch'.running = NoTask
  BY <1>2 DEF IInv, Types, NoTask
<1>7. /\ SameTasks /\ Moved(Worker, "idle") /\ NoTask \notin TaskIds
      /\ started \subseteq TaskIds /\ executor.tasks \subseteq TaskIds
  BY <1>1, <1>2, <1>3, <1>5, GoMoves DEF IInv, Places, Starts, Owners
<1> HIDE DEF t
<1>8. \A u \in TaskIds : HeldByDispatch(u)' <=> HeldByDispatch(u) /\ u # t
  BY <1>6, <1>7 DEF IInv, Dispatching, HeldByDispatch, t
<1>9. \A o \in Threads : \A u : Holds(o, u)' <=> Holds(o, u)
  BY <1>1, <1>7 DEF Holds, Pc, Moved
<1>10. Terminating' <=> Terminating
  BY <1>1, <1>7 DEF Terminating, Kind, SameTasks
<1>11. \A u \in TaskIds : State(u) # "running" /\ State(u)' = State(u) /\ Kind(u)' = Kind(u)
  BY <1>1, <1>7 DEF IInv, Starts, SameTasks, State, Kind
<1>12. Types'
  BY <1>1, <1>6, <1>7, <1>10 DEF IInv, Types, Moved, SameTasks
<1>13. ThreadsOK'
  <2>1. /\ Pc(Worker)' = "idle" /\ thread'[Worker].rest = thread[Worker].rest
        /\ \A o \in Threads : o # Worker => thread'[o] = thread[o] /\ Pc(o)' = Pc(o)
        /\ Worker \notin Callers \cup Disposers /\ Worker \in Threads
    BY <1>1, <1>7, ThreadsAssumption DEF Moved, Pc
  <2>2. TaskIds' = TaskIds
    BY <1>7 DEF SameTasks
  <2> QED
    BY <1>1, <2>1, <2>2 DEF IInv, ThreadsOK, Threads
<1>14. DisposersOK'
  BY <1>1, <1>6, <1>7, <1>10, ThreadsAssumption
     DEF IInv, DisposersOK, ThreadsOK, Pc, Kind, Threads, Moved, SameTasks
<1>15. Owners'
  BY <1>1, <1>7, <1>9 DEF IInv, Owners, SameTasks
<1>16. Inserting'
  BY <1>1, <1>7, <1>8
     DEF IInv, Inserting, ThreadsOK, Pc, State, IsTimer, Moved, SameTasks
<1>17. Dispatching'
  BY <1>1, <1>6, <1>7, <1>10, ThreadsAssumption
     DEF IInv, Dispatching, ThreadsOK, Pc, Threads, Moved, SameTasks
<1>18. Scheduled'
  BY <1>1, <1>7 DEF IInv, Scheduled, Pc, IsTimer, Moved, SameTasks
<1>19. Starts'
  <2>1. \A u \in TaskIds : u # dispatch'.running
    BY <1>6, <1>7
  <2>2. /\ \A o \in Threads : \A u : WillCancel(o, u)' <=> WillCancel(o, u)
        /\ \A o \in Threads : Pc(o)' = "insert" <=> Pc(o) = "insert"
        /\ \A o \in Threads : thread'[o].task = thread[o].task
        /\ \A o \in Threads : Pc(o)' \in {"await", "release"} =>
             Pc(o)' = Pc(o) /\ thread[o].task \in TaskIds
    BY <1>1, <1>7 DEF IInv, ThreadsOK, WillCancel, Pc, Moved
  <2>3. TaskIds' = TaskIds
    BY <1>7 DEF SameTasks
  <2> QED
    BY <1>1, <1>11, <2>1, <2>2, <2>3 DEF IInv, Starts
<1>20. Cancelling'
  BY <1>1, <1>7, <1>11 DEF IInv, Cancelling, Pc, Moved, SameTasks
<1>21. Ending'
  BY <1>1, <1>7, <1>10, <1>11 DEF IInv, Ending, SameTasks
<1>22. Counts'
  BY <1>1, <1>3, <1>4, <1>5, <1>8, <1>9 DEF IInv, Counts, SameTasks, Counted
<1> QED
  BY <1>1, <1>12, <1>13, <1>14, <1>15, <1>16, <1>17, <1>18, <1>19, <1>20, <1>21, <1>22, <1>5
     DEF IInv

\* A task is cancelled, unless it runs or has run.
LEMMA TaskCancelKeeps ==
  ASSUME IInv, NEW th \in Threads, TaskCancel(th) PROVE IInv'
<1> DEFINE t == thread[th].task
           s == IF State(t) = "initial" THEN "cancelled" ELSE State(t)
<1>1. /\ mode' = mode /\ lock' = lock /\ executor' = executor /\ dispatch' = dispatch
      /\ started' = started /\ cancelled' = cancelled /\ ignored' = ignored
      /\ disposed' = disposed /\ Pc(th) = "cancel"
  BY DEF TaskCancel, At, Pc, history
<1>2. /\ Go(th, IF MustWait(th, t) THEN "await" ELSE "release") /\ failed' = Live(t, failed)
      /\ tasks' = [tasks EXCEPT
                     ![t].state = IF @ = "initial" THEN "cancelled" ELSE @,
                     ![t].executor = @ /\ tasks[t].state \notin {"initial", "running"}]
  BY DEF TaskCancel
<1>3. /\ t \in TaskIds /\ t \notin thread[th].rest /\ th \in Disposers \cup {Worker}
  BY <1>1, ThreadsAssumption DEF IInv, ThreadsOK, Threads
<1>4. /\ \A o \in Threads : o # th => ~Holds(o, t)
      /\ t \notin executor.tasks /\ Holds(th, t)
  BY <1>1, <1>3 DEF IInv, Owners, Holds
<1>5. failed' = failed
  BY <1>2, <1>3, <1>4 DEF IInv, Counts, Live
<1>6. Entered(t, s)
  <2>1. tasks \in Seq(TaskRecord) /\ t \in DOMAIN tasks /\ tasks[t] \in TaskRecord
    BY <1>3 DEF IInv, Types, TaskIds
  <2> DEFINE x == tasks[t].executor /\ tasks[t].state \notin {"initial", "running"}
             r == [tasks[t] EXCEPT !.state = s, !.executor = x]
  <2>2. x \in BOOLEAN /\ s \in {"initial", "running", "cancelled", "done"}
    BY <2>1 DEF TaskRecord, State
  <2>3. tasks' = [tasks EXCEPT ![t] = r]
    BY <1>2, <2>1 DEF State
  <2> HIDE DEF x, s
  <2>4. r \in TaskRecord /\ r.refs = tasks[t].refs /\ r.kind = tasks[t].kind
        /\ r.state = s /\ r.id = tasks[t].id
    BY <2>1, <2>2 DEF TaskRecord
  <2> HIDE DEF r
  <2> QED
    BY <2>1, <2>3, <2>4 DEF Entered, TaskIds
<1>7. PICK p \in {"await", "release"} :
        Moved(th, p) /\ (p = "await" <=> State(t) = "running" /\ th # Worker)
  BY <1>2, GoMoves DEF IInv, Places, MustWait, State
<1>8. /\ s # "initial" /\ (State(t) # "initial" => s = State(t))
      /\ (State(t) = "initial" => s = "cancelled")
  OBVIOUS
<1> HIDE DEF s
<1>9. /\ t = thread[th].task /\ t \in TaskIds /\ t \notin executor.tasks
      /\ th \in Disposers => th # Worker
      /\ th \in Disposers \/ th = Worker
      /\ th \notin Callers
  BY <1>3, <1>4, ThreadsAssumption
<1> HIDE DEF t
<1>10. /\ Entered(t, s) /\ Moved(th, p) /\ (p = "await" \/ p = "release")
       /\ started \subseteq TaskIds /\ executor.tasks \subseteq TaskIds
  BY <1>6, <1>7 DEF IInv, Starts, Owners
<1>11. \A o \in Threads : \A u : Holds(o, u)' <=> Holds(o, u)
  BY <1>1, <1>7 DEF Holds, Pc, Moved
<1>12. Terminating' <=> Terminating
  BY <1>1, <1>10 DEF Terminating, Kind, Entered
<1>13. /\ TaskIds' = TaskIds
       /\ \A u \in TaskIds :
            /\ Kind(u)' = Kind(u) /\ tasks'[u].id = tasks[u].id
            /\ State(u)' = "initial" <=> State(u) = "initial" /\ u # t
            /\ State(u)' = "running" <=> State(u) = "running"
            /\ State(u)' = "done" <=> State(u) = "done"
            /\ State(u)' = "cancelled" <=> State(u) = "cancelled" \/ (u = t /\ State(u) = "initial")
       /\ started \subseteq TaskIds /\ executor.tasks \subseteq TaskIds
  BY <1>8, <1>9, <1>10 DEF Entered, Kind, State
<1>14. /\ Moved(th, p) /\ (p = "await" \/ p = "release")
       /\ p = "await" <=> State(t) = "running" /\ th # Worker
  BY <1>7, <1>9
<1>15. tasks' \in Seq(TaskRecord)
  BY <1>10 DEF Entered
<1>16. \A o \in Threads : o # th =>
         /\ t \notin thread[o].rest
         /\ Pc(o) \in {"insert", "dispatch", "cancel", "await", "release"} => thread[o].task # t
  BY <1>4 DEF IInv, Inserting, Holds
<1>17. /\ State(t) = "initial" => t \in cancelled \cup ignored \/ executor.disposed
       /\ th = Worker /\ t \in cancelled => State(t) \in {"initial", "cancelled"}
  <2>1. State(t) \in {"initial", "running", "cancelled", "done"}
    <3>1. tasks[t] \in TaskRecord
      BY <1>9 DEF IInv, Types, TaskIds
    <3> QED
      BY <3>1 DEF TaskRecord, State
  <2>2. th \in Disposers => executor.disposed
    BY <1>1 DEF IInv, DisposersOK
  <2>3. th = Worker => t \in cancelled \cup ignored \cup started
    BY <1>1, <1>9 DEF IInv, Cancelling
  <2> QED
    BY <1>9, <2>1, <2>2, <2>3 DEF IInv, Cancelling, Starts
<1>18. Types'
  BY <1>1, <1>9, <1>12, <1>13, <1>14, <1>15, <1>16, <1>17 DEF IInv, Types, Moved
<1>19. ThreadsOK'
  BY <1>1, <1>9, <1>12, <1>13, <1>14, <1>15, <1>16, <1>17, ThreadsAssumption
     DEF IInv, ThreadsOK, Pc, Threads, Moved
<1>20. DisposersOK'
  BY <1>1, <1>9, <1>12, <1>13, <1>14, <1>15, <1>16, <1>17, ThreadsAssumption
     DEF IInv, DisposersOK, ThreadsOK, Pc, Kind, Threads, Moved
<1>21. Owners'
  BY <1>1, <1>10, <1>11 DEF IInv, Owners, Entered
<1>22. Inserting'
  <2>1. \A o \in Threads : Pc(o)' \in {"insert", "dispatch"} =>
          /\ thread'[o] = thread[o] /\ Pc(o)' = Pc(o)
          /\ thread[o].task \in TaskIds /\ thread[o].task # t
    BY <1>14, <1>16 DEF IInv, ThreadsOK, Moved, Pc
  <2>2. \A u \in TaskIds : u # t => /\ tasks'[u].kind = tasks[u].kind
                                    /\ tasks'[u].id = tasks[u].id
                                    /\ tasks[u].state = "initial" => tasks'[u].state = "initial"
    BY <1>13 DEF Kind, State
  <2> QED
    BY <1>1, <2>1, <2>2 DEF IInv, Inserting, HeldByDispatch, IsTimer, State, Pc
<1>23. Dispatching'
  BY <1>1, <1>9, <1>12, <1>13, <1>14, <1>15, <1>16, <1>17, ThreadsAssumption
     DEF IInv, Dispatching, ThreadsOK, Pc, Threads, Moved
<1>24. Scheduled'
  BY <1>1, <1>9, <1>13, <1>14 DEF IInv, Scheduled, Kind, Pc, IsTimer, Moved, Threads
<1>25. Starts'
  <2>1. \A o \in Threads : \A u : u # t =>
          /\ WillCancel(o, u) => WillCancel(o, u)'
          /\ Pc(o) = "insert" /\ thread[o].task = u =>
               Pc(o)' = "insert" /\ thread'[o].task = u
    BY <1>1, <1>9, <1>14 DEF WillCancel, Moved, Pc
  <2>2. \A o \in Threads : Pc(o)' \in {"await", "release"} =>
          /\ thread'[o].task \in TaskIds
          /\ tasks'[thread'[o].task].state # "initial"
          /\ Pc(o)' = "release" /\ o # Worker => tasks'[thread'[o].task].state # "running"
    BY <1>9, <1>13, <1>14, <1>16 DEF IInv, Starts, ThreadsOK, State, Moved, Pc
  <2>3. Pc(Worker)' = "last" <=> Pc(Worker) = "last"
    BY <1>1, <1>14 DEF Moved, Pc, Threads
  <2>4. \A u \in TaskIds : State(u)' = "initial" =>
          \/ u \in executor.tasks
          \/ \E o \in Threads : WillCancel(o, u)' \/ (Pc(o)' = "insert" /\ thread'[o].task = u)
    BY <1>13, <2>1 DEF IInv, Starts
  <2> QED
    BY <1>1, <1>13, <2>2, <2>3, <2>4 DEF IInv, Starts, State
<1>26. Cancelling'
  <2>1. \A u \in cancelled : State(u)' = "cancelled" \/ (Pc(Worker)' = "cancel" /\ thread'[Worker].task = u)
    <3> SUFFICES ASSUME NEW u \in cancelled, ~(Pc(Worker)' = "cancel" /\ thread'[Worker].task = u)
                 PROVE  State(u)' = "cancelled"
      OBVIOUS
    <3>1. u \in TaskIds /\ (State(u) = "cancelled" \/ (Pc(Worker) = "cancel" /\ thread[Worker].task = u))
      BY DEF IInv, Cancelling
    <3>2. CASE State(u) = "cancelled"
      BY <1>13, <3>1, <3>2
    <3>3. CASE Pc(Worker) = "cancel" /\ thread[Worker].task = u
      BY <1>9, <1>13, <1>14, <1>17, <3>1, <3>3 DEF Moved, Pc, Threads
    <3> QED
      BY <3>1, <3>2, <3>3
  <2>2. \A u \in TaskIds : State(u)' = "cancelled" => u \in cancelled \cup ignored \/ executor.disposed
    BY <1>13, <1>17 DEF IInv, Cancelling
  <2>3. Pc(Worker)' = "cancel" => Pc(Worker) = "cancel" /\ thread'[Worker].task = thread[Worker].task
    BY <1>14 DEF Moved, Pc, Threads
  <2> QED
    BY <1>1, <1>13, <2>1, <2>2, <2>3 DEF IInv, Cancelling
<1>27. Ending'
  <2> SUFFICES ASSUME Terminating, Terminating' PROVE Ending'
    BY <1>12 DEF Ending
  <2>1. ASSUME NEW u \in TaskIds, State(u) = "running", NEW o \in Disposers,
               WillCancel(o, u) \/ (Pc(o) = "await" /\ thread[o].task = u)
        PROVE  WillCancel(o, u)' \/ (Pc(o)' = "await" /\ thread'[o].task = u)
    BY <1>1, <1>9, <1>14, <2>1 DEF WillCancel, Moved, Pc, Threads
  <2>2. ASSUME NEW u \in TaskIds, State(u) = "running"
        PROVE  u \in executor.tasks
               \/ \E o \in Disposers :
                    WillCancel(o, u)' \/ (Pc(o)' = "await" /\ thread'[o].task = u)
    BY <2>1, <2>2 DEF IInv, Ending
  <2> QED
    BY <1>1, <1>13, <2>2 DEF IInv, Ending
<1>28. Counts'
  BY <1>1, <1>10, <1>11 DEF IInv, Counts, HeldByDispatch, Entered
<1> QED
  BY <1>1, <1>18, <1>19, <1>20, <1>21, <1>22, <1>23, <1>24, <1>25, <1>26, <1>27, <1>28, <1>5
     DEF IInv

\* A timer is due.
LEMMA TimerIsDueKeeps ==
  ASSUME IInv, NEW t \in TaskIds, TimerIsDue(t) PROVE IInv'
<1>1. /\ mode' = mode /\ lock' = lock /\ tasks' = tasks /\ executor' = executor
      /\ thread' = thread /\ started' = started /\ cancelled' = cancelled
      /\ ignored' = ignored /\ disposed' = disposed /\ failed' = failed
  BY DEF TimerIsDue, history
<1>2. /\ t \in dispatch.timers /\ t \in Nat
      /\ dispatch.ready \in Seq(Nat) /\ dispatch.timers \subseteq Nat /\ dispatch.running \in Nat
      /\ dispatch' = [dispatch EXCEPT !.timers = @ \ {t}, !.ready = Append(@, t)]
  BY DEF TimerIsDue, IInv, Types
<1>3. /\ Append(dispatch.ready, t) \in Seq(Nat)
      /\ \A u : u \in Range(Append(dispatch.ready, t)) <=> u \in Range(dispatch.ready) \/ u = t
      /\ Once(dispatch.ready) /\ t \notin Range(dispatch.ready) => Once(Append(dispatch.ready, t))
  BY <1>2, ReadyGrows
<1>4. /\ dispatch' \in [ready : Seq(Nat), timers : SUBSET Nat, running : Nat]
      /\ dispatch'.ready = Append(dispatch.ready, t)
      /\ dispatch'.timers = dispatch.timers \ {t} /\ dispatch'.running = dispatch.running
  BY <1>2, <1>3 DEF IInv, Types
<1>5. \A u : HeldByDispatch(u)' <=> HeldByDispatch(u)
  BY <1>2, <1>3, <1>4 DEF HeldByDispatch
<1>6. Types'
  BY <1>1, <1>4 DEF IInv, Types
<1>7. ThreadsOK'
  BY <1>1, ThreadsAssumption DEF IInv, ThreadsOK, Pc, Threads, TaskIds
<1>8. DisposersOK'
  BY <1>1, ThreadsAssumption
     DEF IInv, DisposersOK, ThreadsOK, Pc, Kind, Threads, TaskIds, Terminating, history
<1>9. Owners'
  BY <1>1 DEF IInv, Owners, Pc, Holds, TaskIds
<1>10. Inserting'
  BY <1>1, <1>5 DEF IInv, Inserting, Pc, State, IsTimer
<1>11. Dispatching'
  BY <1>1, <1>2, <1>3, <1>4 DEF IInv, Dispatching, Pc, TaskIds
<1>12. Scheduled'
  BY <1>1, ThreadsAssumption
     DEF IInv, Scheduled, ThreadsOK, Pc, Threads, TaskIds, IsTimer
<1>13. Starts'
  BY <1>1, <1>4 DEF IInv, Starts, Pc, State, WillCancel, TaskIds
<1>14. Cancelling'
  BY <1>1, ThreadsAssumption
     DEF IInv, Cancelling, ThreadsOK, Pc, State, Threads, TaskIds, history
<1>15. Ending'
  BY <1>1, <1>4 DEF IInv, Ending, Terminating, Pc, State, Kind, WillCancel, TaskIds
<1>16. Counts'
  BY <1>1, <1>5 DEF IInv, Counts, Holds, Pc, TaskIds
<1> QED
  BY <1>1, <1>6, <1>7, <1>8, <1>9, <1>10, <1>11, <1>12, <1>13, <1>14, <1>15, <1>16
     DEF IInv

\* A disposer takes every task out of the executor.
LEMMA SwapKeeps ==
  ASSUME IInv, NEW th \in Threads, Swap(th) PROVE IInv'
<1>1. /\ mode' = mode /\ lock' = lock /\ tasks' = tasks /\ dispatch' = dispatch
      /\ started' = started /\ cancelled' = cancelled
      /\ ignored' = ignored /\ disposed' = disposed /\ failed' = failed
      /\ Pc(th) = "swap"
  BY DEF Swap, At, Pc, history
<1>2. /\ th \in Disposers /\ th # Worker /\ th \notin Callers /\ thread[th].rest = {}
      /\ mode = "disposed" /\ lock = NoThread
      /\ \A o \in Threads : Pc(o) \notin {"insert", "dispatch"}
  BY <1>1, ThreadsAssumption DEF IInv, ThreadsOK, DisposersOK, Threads
<1>3. /\ thread' \in [Threads -> ThreadRecord]
      /\ thread'[th].pc = "drain" /\ thread'[th].task = thread[th].task
      /\ thread'[th].rest = executor.tasks
      /\ \A o \in Threads : o # th => thread'[o] = thread[o]
  BY DEF Swap, Take, IInv, Types, ThreadRecord, Places
<1>4. /\ executor' \in [tasks : SUBSET Nat, schedule : Schedules, nextId : Nat,
                       disposed : BOOLEAN]
      /\ executor'.tasks = {} /\ DOMAIN executor'.schedule = {}
      /\ executor'.nextId = executor.nextId /\ executor'.disposed
  <2>1. <<>> \in [{} -> Nat] /\ DOMAIN <<>> = {}
    OBVIOUS
  <2>2. <<>> \in Schedules
    BY <2>1 DEF Schedules
  <2> QED
    BY <2>1, <2>2 DEF Swap, IInv, Types
<1>5. \A o \in Threads : \A u : Holds(o, u)' <=> (IF o = th THEN u \in executor.tasks ELSE Holds(o, u))
  BY <1>2, <1>3 DEF Holds, Pc
<1>6. \A o \in Threads : \A u : WillCancel(o, u) => WillCancel(o, u)'
  BY <1>1, <1>2, <1>3 DEF WillCancel, Pc
<1>7. \A u \in executor.tasks : WillCancel(th, u)'
  BY <1>3 DEF WillCancel
<1>8. \A u : ~Holds(th, u)
  BY <1>1, <1>2 DEF Holds
<1>9. executor.tasks \subseteq TaskIds
  BY DEF IInv, Owners
<1>10. Types'
  BY <1>1, <1>2, <1>3, <1>4, <1>9 DEF IInv, Types, history
<1>11. ThreadsOK'
  BY <1>1, <1>2, <1>3, <1>4, <1>9, ThreadsAssumption
     DEF IInv, ThreadsOK, Pc, Threads, TaskIds
<1>12. DisposersOK'
  BY <1>1, <1>2, <1>3, <1>4, <1>9, ThreadsAssumption
     DEF IInv, DisposersOK, ThreadsOK, Pc, Kind, Threads, TaskIds, Terminating, history
<1>13. Owners'
  BY <1>1, <1>4, <1>5, <1>9 DEF IInv, Owners, TaskIds
<1>14. Inserting'
  BY <1>1, <1>2, <1>3, <1>4, <1>9
     DEF IInv, Inserting, ThreadsOK, Pc, State, HeldByDispatch, IsTimer
<1>15. Dispatching'
  BY <1>1, <1>2, <1>3, <1>4, <1>9, ThreadsAssumption
     DEF IInv, Dispatching, ThreadsOK, Pc, Threads, TaskIds
<1>16. Scheduled'
  BY <1>1, <1>2, <1>3, <1>4, <1>9, ThreadsAssumption
     DEF IInv, Scheduled, ThreadsOK, Pc, Threads, TaskIds, IsTimer
<1>17. Starts'
  <2>1. \A o \in Threads : Pc(o)' \in {"await", "release"} => thread'[o] = thread[o]
    BY <1>3 DEF Pc
  <2>2. Pc(Worker)' = Pc(Worker)
    BY <1>2, <1>3 DEF Pc, Threads
  <2>3. \A o \in Threads : Pc(o) # "insert"
    BY <1>2
  <2> QED
    BY <1>1, <1>6, <1>7, <2>1, <2>2, <2>3 DEF IInv, Starts, State, Pc, TaskIds
<1>18. Cancelling'
  BY <1>1, <1>2, <1>3, <1>4, <1>9, ThreadsAssumption
     DEF IInv, Cancelling, ThreadsOK, Pc, State, Threads, TaskIds, history
<1>19. Ending'
  <2>1. \A o \in Disposers : \A u : Pc(o) = "await" /\ thread[o].task = u =>
          Pc(o)' = "await" /\ thread'[o].task = u
    BY <1>1, <1>3 DEF Pc, Threads
  <2>2. Disposers \subseteq Threads
    BY DEF Threads
  <2> QED
    BY <1>1, <1>2, <1>6, <1>7, <2>1, <2>2 DEF IInv, Ending, Terminating, State, Kind, TaskIds
<1>20. Counts'
  BY <1>1, <1>4, <1>5, <1>8 DEF IInv, Counts, HeldByDispatch, TaskIds
<1> QED
  BY <1>1, <1>10, <1>11, <1>12, <1>13, <1>14, <1>15, <1>16, <1>17, <1>18, <1>19, <1>20
     DEF IInv

\* A task is registered with the executor, which is not disposed of: the queue is locked.
LEMMA InsertKeeps ==
  ASSUME IInv, NEW th \in Threads, Insert(th) PROVE IInv'
<1> DEFINE t == thread[th].task
<1>1. /\ Pc(th) = "insert" /\ lock = th /\ t \in TaskIds /\ ~executor.disposed
      /\ thread[th].rest = {} /\ lock # NoThread
  BY ThreadsAssumption DEF Insert, At, Pc, IInv, ThreadsOK, DisposersOK, Threads
<1>2. /\ mode' = mode /\ lock' = lock /\ tasks' = tasks /\ dispatch' = dispatch
      /\ started' = started /\ cancelled' = cancelled
      /\ ignored' = ignored /\ disposed' = disposed /\ failed' = failed
      /\ Go(th, "dispatch")
      /\ executor' =
           [executor EXCEPT
              !.tasks    = @ \cup {t},
              !.schedule = IF IsTimer(t)
                           THEN [i \in DOMAIN @ \cup {tasks[t].id} |->
                                   IF i = tasks[t].id THEN t ELSE @[i]]
                           ELSE @,
              !.nextId   = IF IsTimer(t) THEN @ + 1 ELSE @]
  BY <1>1 DEF Insert, history
<1>3. Moved(th, "dispatch")
  BY <1>2, GoMoves DEF IInv, Places
<1>4. /\ tasks[t].id \in Nat /\ t \in Nat /\ t = thread[th].task
      /\ IsTimer(t) => tasks[t].id = executor.nextId /\ th = Worker
      /\ \A i \in DOMAIN executor.schedule : executor.schedule[i] \in executor.tasks
  <2>1. tasks[t] \in TaskRecord /\ t \in Nat
    BY <1>1 DEF IInv, Types, TaskIds
  <2> QED
    BY <1>1, <2>1 DEF IInv, Inserting, Scheduled, TaskRecord
<1> HIDE DEF t
<1>5. /\ executor.tasks \subseteq Nat /\ executor.nextId \in Nat
      /\ executor.schedule \in [DOMAIN executor.schedule -> Nat]
      /\ DOMAIN executor.schedule \subseteq Nat
      /\ executor.disposed \in BOOLEAN
      /\ executor = [tasks |-> executor.tasks, schedule |-> executor.schedule,
                     nextId |-> executor.nextId, disposed |-> executor.disposed]
  BY DEF IInv, Types, Schedules
<1> DEFINE S == [i \in DOMAIN executor.schedule \cup {tasks[t].id} |->
                   IF i = tasks[t].id THEN t ELSE executor.schedule[i]]
<1>6. /\ S \in Schedules /\ DOMAIN S = DOMAIN executor.schedule \cup {tasks[t].id}
      /\ S[tasks[t].id] = t
      /\ \A i \in DOMAIN executor.schedule : i # tasks[t].id => S[i] = executor.schedule[i]
  <2>1. S \in [DOMAIN executor.schedule \cup {tasks[t].id} -> Nat]
    BY <1>4, <1>5
  <2>2. DOMAIN executor.schedule \cup {tasks[t].id} \in SUBSET Nat
    BY <1>4, <1>5
  <2> QED
    BY <2>1, <2>2 DEF Schedules
<1>7. executor.schedule \in Schedules
  BY DEF IInv, Types
<1>8. /\ executor' \in [tasks : SUBSET Nat, schedule : Schedules, nextId : Nat,
                       disposed : BOOLEAN]
      /\ executor'.tasks = executor.tasks \cup {t} /\ executor'.disposed = executor.disposed
      /\ executor'.schedule = IF IsTimer(t) THEN S ELSE executor.schedule
      /\ executor'.nextId = IF IsTimer(t) THEN executor.nextId + 1 ELSE executor.nextId
  <2>1. executor' = [executor EXCEPT !.tasks = @ \cup {t},
                                     !.schedule = IF IsTimer(t) THEN S ELSE @,
                                     !.nextId = IF IsTimer(t) THEN @ + 1 ELSE @]
    BY <1>2
  <2> HIDE DEF S
  <2>2. /\ executor \in [tasks : SUBSET Nat, schedule : Schedules, nextId : Nat,
                         disposed : BOOLEAN]
        /\ executor.tasks \cup {t} \in SUBSET Nat /\ executor.nextId + 1 \in Nat
        /\ S \in Schedules
    BY <1>4, <1>5, <1>6 DEF IInv, Types
  <2>3. CASE IsTimer(t)
    BY <2>1, <2>2, <2>3
  <2>4. CASE ~IsTimer(t)
    BY <2>1, <2>2, <2>4
  <2> QED
    BY <2>3, <2>4
<1> HIDE DEF S
<1>9. \A o \in Threads : \A u : Holds(o, u)' <=> Holds(o, u) /\ ~(o = th /\ u = t)
  BY <1>1, <1>3, <1>4 DEF Holds, Pc, Moved
<1>10. /\ executor'.tasks = executor.tasks \cup {t} /\ executor'.disposed = executor.disposed
       /\ Holds(th, t) /\ t \in TaskIds /\ ~executor.disposed
       /\ mode # "disposed" \/ lock = NoThread
  BY <1>1, <1>4, <1>8 DEF Holds, IInv, DisposersOK
<1>11. \A o \in Threads : o # th => Pc(o) \notin {"insert", "dispatch"}
  BY <1>1 DEF IInv, ThreadsOK
<1>12. /\ mode' = mode /\ lock' = lock /\ tasks' = tasks /\ dispatch' = dispatch
       /\ started' = started /\ cancelled' = cancelled
       /\ ignored' = ignored /\ disposed' = disposed /\ failed' = failed
  BY <1>2
<1>13. \A o \in Threads : \A u : WillCancel(o, u)' <=> WillCancel(o, u)
  BY <1>1, <1>3 DEF WillCancel, Moved, Pc
<1>14. Types'
  BY <1>3, <1>8, <1>12 DEF IInv, Types, Moved
<1>15. ThreadsOK'
  BY <1>1, <1>3, <1>4, <1>10, <1>11, <1>12, ThreadsAssumption
     DEF IInv, ThreadsOK, Pc, Threads, TaskIds, Moved
<1>16. DisposersOK'
  BY <1>1, <1>3, <1>4, <1>10, <1>11, <1>12, ThreadsAssumption
     DEF IInv, DisposersOK, ThreadsOK, Pc, Kind, Threads, TaskIds, Terminating,
         history, Moved
<1>17. Owners'
  BY <1>9, <1>10, <1>12 DEF IInv, Owners, TaskIds
<1>18. Inserting'
  <2>1. \A o \in Threads : Pc(o)' \in {"insert", "dispatch"} =>
          o = th /\ Pc(o)' = "dispatch" /\ thread'[o].task = t
    BY <1>3, <1>4, <1>11 DEF Moved, Pc
  <2>2. ~HeldByDispatch(t) /\ State(t) = "initial"
    BY <1>1, <1>4 DEF IInv, Inserting
  <2> QED
    BY <1>4, <1>10, <1>12, <2>1, <2>2 DEF Inserting, Pc, State, HeldByDispatch, IsTimer
<1>19. Dispatching'
  BY <1>1, <1>3, <1>4, <1>10, <1>11, <1>12, ThreadsAssumption
     DEF IInv, Dispatching, ThreadsOK, Pc, Threads, TaskIds, Moved
<1>20. Scheduled'
  <2>1. /\ executor.tasks \subseteq TaskIds
        /\ t \notin executor.tasks
        /\ Pc(Worker)' # "insert"
    BY <1>3, <1>10, <1>11 DEF IInv, Owners, Moved, Pc, Threads
  <2>2. \A u \in TaskIds : IsTimer(u) /\ u # t =>
          \/ tasks[u].id < executor.nextId
          \/ Pc(Worker) = "insert" /\ thread[Worker].task = u
    BY DEF IInv, Scheduled
  <2>3. \A u \in TaskIds : IsTimer(u) /\ u # t => tasks[u].id < executor.nextId
    BY <1>1, <1>4, <1>11, <2>2 DEF Threads
  <2>4. CASE ~IsTimer(t)
    <3>1. executor'.schedule = executor.schedule /\ executor'.nextId = executor.nextId
      BY <1>8, <2>4
    <3> QED
      BY <1>4, <1>10, <1>12, <2>1, <2>3, <2>4, <3>1 DEF IInv, Scheduled, IsTimer, TaskIds
  <2>5. CASE IsTimer(t)
    <3>1. /\ executor'.schedule = S /\ executor'.nextId = executor.nextId + 1
          /\ tasks[t].id = executor.nextId
      BY <1>4, <1>8, <2>5
    <3>2. \A u \in TaskIds : tasks[u].id \in Nat
      <4>1. \A u \in TaskIds : tasks[u] \in TaskRecord
        BY DEF IInv, Types, TaskIds
      <4> QED
        BY <4>1 DEF TaskRecord
    <3>3. \A u \in TaskIds : IsTimer(u) => tasks[u].id < executor'.nextId
      BY <1>5, <2>3, <3>1, <3>2
    <3>4. \A u \in TaskIds : IsTimer(u) /\ u # t => tasks[u].id # tasks[t].id
      BY <1>5, <2>3, <3>1, <3>2
    <3>5. \A i \in DOMAIN S :
            S[i] \in executor'.tasks /\ IsTimer(S[i]) /\ tasks[S[i]].id = i
      BY <1>6, <1>10, <2>5 DEF IInv, Scheduled
    <3>6. \A u \in executor'.tasks : IsTimer(u) => tasks[u].id \in DOMAIN S /\ S[tasks[u].id] = u
      BY <1>6, <1>10, <2>1, <3>4 DEF IInv, Scheduled
    <3> QED
      BY <1>12, <3>1, <3>3, <3>5, <3>6 DEF IInv, Scheduled, IsTimer, TaskIds
  <2> QED
    BY <2>4, <2>5
<1>21. Starts'
  BY <1>1, <1>3, <1>4, <1>10, <1>11, <1>12, ThreadsAssumption
     DEF IInv, Starts, ThreadsOK, Pc, State, Threads, TaskIds, WillCancel, history,
         Moved
<1>22. Cancelling'
  BY <1>1, <1>3, <1>4, <1>10, <1>11, <1>12, ThreadsAssumption
     DEF IInv, Cancelling, ThreadsOK, Pc, State, Threads, TaskIds, history, Moved
<1>23. Ending'
  BY <1>1, <1>3, <1>4, <1>10, <1>11, <1>12, ThreadsAssumption
     DEF IInv, Ending, ThreadsOK, Pc, State, Kind, Threads, TaskIds, Terminating,
         WillCancel, history, Moved
<1>24. Counts'
  BY <1>9, <1>10, <1>12 DEF IInv, Counts, Owners, HeldByDispatch, TaskIds
<1> QED
  BY <1>1, <1>14, <1>15, <1>16, <1>17, <1>18, <1>19, <1>20, <1>21, <1>22, <1>23, <1>24, <1>2
     DEF IInv

\* A task is handed to libdispatch, and the queue is unlocked.
LEMMA DispatchKeeps ==
  ASSUME IInv, NEW th \in Threads, Dispatch(th) PROVE IInv'
<1> DEFINE t == thread[th].task
<1>1. /\ Pc(th) = "dispatch" /\ lock = th /\ t \in TaskIds /\ t \in executor.tasks
      /\ thread[th].rest = {} /\ ~HeldByDispatch(t)
      /\ \A o \in Threads : o # th => Pc(o) \notin {"insert", "dispatch"}
  BY DEF Dispatch, At, Pc, IInv, ThreadsOK, Inserting
<1>2. /\ mode' = mode /\ lock' = NoThread /\ executor' = executor
      /\ started' = started /\ cancelled' = cancelled
      /\ ignored' = ignored /\ disposed' = disposed
  BY DEF Dispatch, history
<1>3. /\ Go(th, Return(th)) /\ tasks' = Count(t, 1) /\ failed' = Live(t, failed)
      /\ dispatch' = IF IsTimer(t)
                     THEN [dispatch EXCEPT !.timers = @ \cup {t}]
                     ELSE [dispatch EXCEPT !.ready = Append(@, t)]
  BY DEF Dispatch
<1>4. tasks[t].refs = 1
  BY <1>1 DEF IInv, Counts
<1>5. SameTasks /\ Counted(t, 2) /\ failed' = failed
  BY <1>1, <1>3, <1>4, CountDoes DEF IInv, Live
<1>6. PICK p \in {"operation", "waitStart", "idle"} :
        /\ Moved(th, p)
        /\ p = IF th = Worker THEN "operation" ELSE IF th \in Disposers THEN "waitStart" ELSE "idle"
  BY <1>3, GoMoves DEF IInv, Places, Return
<1>7. /\ t \in Nat /\ dispatch.ready \in Seq(Nat) /\ dispatch.timers \subseteq Nat
      /\ dispatch.running \in Nat
  BY <1>1, TaskIdsType DEF IInv, Types
<1>8. /\ Append(dispatch.ready, t) \in Seq(Nat)
      /\ \A u : u \in Range(Append(dispatch.ready, t)) <=> u \in Range(dispatch.ready) \/ u = t
      /\ Once(dispatch.ready) /\ t \notin Range(dispatch.ready) => Once(Append(dispatch.ready, t))
  BY <1>7, ReadyGrows
<1>9. /\ dispatch' \in [ready : Seq(Nat), timers : SUBSET Nat, running : Nat]
      /\ dispatch'.ready = IF IsTimer(t) THEN dispatch.ready ELSE Append(dispatch.ready, t)
      /\ dispatch'.timers = IF IsTimer(t) THEN dispatch.timers \cup {t} ELSE dispatch.timers
      /\ dispatch'.running = dispatch.running
  BY <1>3, <1>7, <1>8 DEF IInv, Types
<1>10. /\ th = Worker => p = "operation"
       /\ th \in Disposers => p = "waitStart" /\ th # Worker
       /\ th \in Callers => p = "idle" /\ th # Worker /\ th \notin Disposers
       /\ th \in Callers \/ th \in Disposers \/ th = Worker
  BY <1>6, ThreadsAssumption DEF Threads
<1>11. /\ SameTasks /\ Moved(th, p)
       /\ started \subseteq TaskIds /\ executor.tasks \subseteq TaskIds
  BY <1>5, <1>6 DEF IInv, Starts, Owners
<1>12. t = thread[th].task /\ p \notin {"insert", "dispatch", "cancel", "await", "release"}
  BY <1>6
<1> HIDE DEF t
<1>13. \A u : HeldByDispatch(u)' <=> HeldByDispatch(u) \/ u = t
  BY <1>8, <1>9 DEF HeldByDispatch
<1>14. \A o \in Threads : \A u : Holds(o, u)' <=> Holds(o, u)
  BY <1>1, <1>11, <1>12 DEF Holds, Pc, Moved
<1>15. Terminating' <=> Terminating
  BY <1>2, <1>11 DEF Terminating, Kind, SameTasks
<1>16. dispatch'.running = dispatch.running
  BY <1>9
<1>17. /\ \A o \in Threads : \A u : WillCancel(o, u)' <=> WillCancel(o, u)
       /\ \A o \in Threads : thread'[o].task = thread[o].task
       /\ \A o \in Threads : Pc(o)' \in {"insert", "await", "release"} => Pc(o)' = Pc(o)
       /\ \A o \in Threads : Pc(o) \in {"insert", "await", "release"} => Pc(o)' = Pc(o)
  BY <1>1, <1>11, <1>12 DEF WillCancel, Moved, Pc
<1>18. /\ Pc(Worker)' = "last" <=> Pc(Worker) = "last"
       /\ Pc(Worker)' = "cancel" <=> Pc(Worker) = "cancel"
  BY <1>1, <1>10, <1>11 DEF Moved, Pc, Threads
<1>19. /\ TaskIds' = TaskIds
       /\ \A u \in TaskIds : tasks'[u].state = tasks[u].state /\ tasks'[u].kind = tasks[u].kind
       /\ Disposers \subseteq Threads /\ Worker \in Threads
  BY <1>11 DEF SameTasks, Threads
<1>20. \A o \in Threads : Pc(o) \in {"await", "release"} => thread[o].task \in TaskIds
  BY DEF IInv, ThreadsOK
<1>21. Types'
  BY <1>2, <1>9, <1>11, ThreadsAssumption DEF IInv, Types, Moved, SameTasks
<1>22. ThreadsOK'
  <2>1. TaskIds' = TaskIds
    BY <1>19
  <2>2. /\ Pc(th)' = p /\ thread'[th].task = t /\ thread'[th].rest = {}
        /\ \A o \in Threads : o # th => thread'[o] = thread[o] /\ Pc(o)' = Pc(o)
    BY <1>1, <1>11, <1>12 DEF Moved, Pc
  <2>3. \A o \in Threads : Pc(o)' \notin {"insert", "dispatch"} /\ o # NoThread
    BY <1>1, <1>12, <2>2, ThreadsAssumption DEF Threads
  <2>4. \A o \in Threads :
          /\ Pc(o)' \in {"insert", "dispatch", "waitStart", "cancel", "await", "release"} =>
               thread'[o].task \in TaskIds
          /\ Pc(o)' \in {"cancel", "await", "release"} =>
               /\ thread'[o].task \notin thread'[o].rest
               /\ thread'[o].then = IF o = Worker THEN "operation" ELSE "drain"
          /\ thread'[o].rest \subseteq TaskIds
          /\ o = Worker \/ Pc(o)' \notin {"drain", "cancel", "await", "release"} =>
               thread'[o].rest = {}
    BY <1>1, <1>12, <2>2 DEF IInv, ThreadsOK
  <2>5. /\ \A o \in Callers : Pc(o)' \in {"idle", "insert", "dispatch"}
        /\ \A o \in Disposers :
             Pc(o)' \in {"idle", "terminate", "insert", "dispatch", "waitStart", "dispose",
                         "swap", "drain", "cancel", "await", "release"}
        /\ Pc(Worker)' \in {"idle", "operation", "insert", "dispatch", "cancel", "release", "last"}
    BY <1>10, <2>2 DEF IInv, ThreadsOK, Threads
  <2> QED
    BY <1>2, <2>1, <2>3, <2>4, <2>5 DEF ThreadsOK
<1>23. DisposersOK'
  BY <1>1, <1>2, <1>10, <1>11, <1>12, <1>15, <1>16, ThreadsAssumption
     DEF IInv, DisposersOK, ThreadsOK, Pc, Kind, Threads, Moved, SameTasks
<1>24. Owners'
  BY <1>2, <1>11, <1>14 DEF IInv, Owners, SameTasks
<1>25. Inserting'
  <2>1. \A o \in Threads : Pc(o)' \notin {"insert", "dispatch"}
    BY <1>1, <1>11, <1>12 DEF Moved, Pc
  <2> QED
    BY <2>1 DEF Inserting
<1>26. Dispatching'
  <2>1. Once(dispatch'.ready)
    BY <1>1, <1>8, <1>9 DEF IInv, Dispatching, HeldByDispatch
  <2>2. Range(dispatch'.ready) \cap dispatch'.timers = {}
    BY <1>1, <1>8, <1>9 DEF IInv, Dispatching, HeldByDispatch
  <2>3. Range(dispatch'.ready) \subseteq TaskIds /\ dispatch'.timers \subseteq TaskIds
    BY <1>1, <1>8, <1>9 DEF IInv, Dispatching
  <2>4. dispatch'.running \notin dispatch'.timers \cup Range(dispatch'.ready)
    BY <1>1, <1>8, <1>9 DEF IInv, Dispatching, HeldByDispatch
  <2>5. TaskIds' = TaskIds /\ (Pc(Worker)' = "idle" <=> Pc(Worker) = "idle")
    BY <1>1, <1>10, <1>11 DEF SameTasks, Moved, Pc, Threads
  <2> QED
    BY <1>16, <2>1, <2>2, <2>3, <2>4, <2>5 DEF IInv, Dispatching
<1>27. Scheduled'
  <2>1. \A u \in TaskIds : tasks'[u].id = tasks[u].id /\ tasks'[u].kind = tasks[u].kind
    BY <1>11 DEF SameTasks
  <2>2. Pc(Worker) = "insert" /\ thread[Worker].task \in TaskIds =>
          Pc(Worker)' = "insert" /\ thread'[Worker].task = thread[Worker].task
    BY <1>17, <1>19
  <2> QED
    BY <1>2, <1>11, <1>19, <2>1, <2>2 DEF IInv, Scheduled, IsTimer
<1>28. Starts'
  BY <1>2, <1>16, <1>17, <1>18, <1>19, <1>20 DEF IInv, Starts, State
<1>29. Cancelling'
  BY <1>2, <1>17, <1>18, <1>19 DEF IInv, Cancelling, State
<1>30. Ending'
  BY <1>2, <1>15, <1>16, <1>17, <1>19 DEF IInv, Ending, State, Kind
<1>31. Counts'
  BY <1>1, <1>2, <1>4, <1>5, <1>13, <1>14 DEF IInv, Counts, SameTasks, Counted
<1> QED
  BY <1>1, <1>21, <1>22, <1>23, <1>24, <1>25, <1>26, <1>27, <1>28, <1>29, <1>30, <1>31, <1>5
     DEF IInv

\* The worker takes the next task, and runs it unless it was cancelled.
LEMMA StartKeeps ==
  ASSUME IInv, Start PROVE IInv'
<1> DEFINE t == Head(dispatch.ready)
           run == State(t) = "initial"
           s == IF run THEN "running" ELSE State(t)
<1>1. /\ mode' = mode /\ lock' = lock /\ executor' = executor
      /\ cancelled' = cancelled /\ ignored' = ignored /\ disposed' = disposed
      /\ Pc(Worker) = "idle" /\ Worker \in Threads /\ dispatch.ready # <<>>
  BY DEF Start, At, Pc, Threads
<1>2. /\ Go(Worker, IF run THEN "operation" ELSE "last") /\ failed' = Live(t, failed)
      /\ tasks' = [tasks EXCEPT ![t].state = IF run THEN "running" ELSE @]
      /\ dispatch' = [dispatch EXCEPT !.ready = Tail(@), !.running = t]
      /\ started' = IF run THEN started \cup {t} ELSE started
  BY DEF Start, State
<1>3. /\ dispatch.ready \in Seq(Nat) /\ Once(dispatch.ready)
      /\ Range(dispatch.ready) \subseteq TaskIds /\ dispatch.running = NoTask
      /\ Range(dispatch.ready) \cap dispatch.timers = {}
  BY <1>1 DEF IInv, Types, Dispatching
<1>4. /\ Tail(dispatch.ready) \in Seq(Nat) /\ t \in Range(dispatch.ready)
      /\ \A u : u \in Range(dispatch.ready) <=> u \in Range(Tail(dispatch.ready)) \/ u = t
      /\ Once(Tail(dispatch.ready)) /\ t \notin Range(Tail(dispatch.ready))
  BY <1>1, <1>3, ReadyShrinks
<1>5. /\ t \in TaskIds /\ t \in Nat /\ HeldByDispatch(t) /\ NoTask \notin TaskIds
      /\ t \notin dispatch.timers
  BY <1>3, <1>4, TaskIdsType DEF IInv, HeldByDispatch
<1>6. tasks \in Seq(TaskRecord) /\ t \in DOMAIN tasks /\ tasks[t] \in TaskRecord
  BY <1>5 DEF IInv, Types, TaskIds
<1>7. failed' = failed
  BY <1>2, <1>5 DEF IInv, Counts, Live
<1>8. Moved(Worker, IF run THEN "operation" ELSE "last")
  BY <1>1, <1>2, GoMoves DEF IInv, Places
<1> HIDE DEF t
<1>9. Entered(t, s)
  <2>1. s \in {"initial", "running", "cancelled", "done"}
    BY <1>6 DEF TaskRecord, State
  <2> DEFINE r == [tasks[t] EXCEPT !.state = s]
  <2>2. tasks' = [tasks EXCEPT ![t] = r]
    BY <1>2, <1>6 DEF State
  <2> HIDE DEF s
  <2>3. r \in TaskRecord /\ r.refs = tasks[t].refs /\ r.kind = tasks[t].kind
        /\ r.state = s /\ r.id = tasks[t].id
    BY <1>6, <2>1 DEF TaskRecord
  <2> HIDE DEF r
  <2> QED
    BY <1>6, <2>2, <2>3 DEF Entered, TaskIds
<1>10. /\ dispatch' \in [ready : Seq(Nat), timers : SUBSET Nat, running : Nat]
       /\ dispatch'.ready = Tail(dispatch.ready) /\ dispatch'.timers = dispatch.timers
       /\ dispatch'.running = t
  BY <1>2, <1>4, <1>5 DEF IInv, Types
<1>11. \A u \in TaskIds : HeldByDispatch(u)' <=> HeldByDispatch(u)
  BY <1>3, <1>4, <1>5, <1>10 DEF HeldByDispatch
<1>12. /\ TaskIds' = TaskIds /\ started \subseteq TaskIds /\ executor.tasks \subseteq TaskIds
       /\ \A u \in TaskIds :
            /\ tasks'[u].kind = tasks[u].kind /\ tasks'[u].id = tasks[u].id
            /\ tasks'[u].refs = tasks[u].refs
            /\ u # t => tasks'[u].state = tasks[u].state
            /\ tasks[u].state # "initial" => tasks'[u].state = tasks[u].state
       /\ tasks'[t].state = s /\ tasks' \in Seq(TaskRecord)
       /\ Disposers \subseteq Threads
  BY <1>5, <1>9 DEF Entered, IInv, Starts, Owners, State, Threads
<1>13. /\ s # "initial"
       /\ run <=> s = "running"
       /\ run <=> State(t) = "initial"
       /\ ~run => s = State(t) /\ started' = started
       /\ run => started' = started \cup {t}
  <2>1. \A u \in TaskIds : State(u) # "running"
    BY <1>3, <1>5 DEF IInv, Starts
  <2> QED
    BY <1>2, <1>5, <2>1
<1>14. PICK p \in {"operation", "last"} : Moved(Worker, p) /\ (p = "operation" <=> run)
  BY <1>8
<1> HIDE DEF s, run
<1>15. \A o \in Threads : \A u : Holds(o, u)' <=> Holds(o, u)
  BY <1>1, <1>14 DEF Holds, Pc, Moved
<1>16. /\ \A o \in Threads : \A u : WillCancel(o, u)' <=> WillCancel(o, u)
       /\ \A o \in Threads : thread'[o].task = thread[o].task /\ thread'[o].rest = thread[o].rest
                             /\ (o # Worker => thread'[o] = thread[o])
       /\ \A o \in Threads : Pc(o)' \in {"insert", "dispatch", "waitStart", "await", "release", "cancel"} =>
            Pc(o)' = Pc(o) /\ o # Worker /\ thread[o].task \in TaskIds
       /\ \A o \in Threads : Pc(o) \in {"insert", "dispatch", "await", "release", "cancel"} =>
            Pc(o)' = Pc(o)
       /\ Pc(Worker)' = p /\ Worker \notin Disposers /\ Worker \notin Callers
  BY <1>1, <1>14, ThreadsAssumption DEF WillCancel, Moved, Pc, IInv, ThreadsOK
<1>17. \A u \in TaskIds : State(u) # "running"
  BY <1>3, <1>5 DEF IInv, Starts
<1>18. run => \/ t \in executor.tasks
              \/ \E o \in Disposers : WillCancel(o, t)
  <2>1. \A o \in Threads : ~(Pc(o) = "insert" /\ thread[o].task = t)
    BY <1>5 DEF IInv, Inserting
  <2>2. ~WillCancel(Worker, t)
    BY <1>1 DEF WillCancel, IInv, ThreadsOK
  <2>3. \A o \in Callers : ~WillCancel(o, t)
    BY ThreadsAssumption DEF WillCancel, IInv, ThreadsOK, Threads
  <2> QED
    BY <1>5, <1>13, <2>1, <2>2, <2>3 DEF IInv, Starts, Threads
<1>19. Terminating => Terminating'
  BY <1>12, <1>13 DEF Terminating, Kind
<1>20. Types'
  BY <1>1, <1>10, <1>12, <1>14 DEF IInv, Types, Moved
<1>21. ThreadsOK'
  BY <1>1, <1>12, <1>14, <1>16, ThreadsAssumption DEF IInv, ThreadsOK, Pc, Threads
<1>22. DisposersOK'
  BY <1>1, <1>12, <1>13, <1>16, <1>19 DEF IInv, DisposersOK, ThreadsOK, Pc, Kind, Threads
<1>23. Owners'
  BY <1>1, <1>12, <1>15 DEF IInv, Owners
<1>24. Inserting'
  <2>1. \A o \in Threads : Pc(o)' \in {"insert", "dispatch"} =>
          State(thread[o].task) = "initial" /\ ~HeldByDispatch(thread[o].task)
    BY <1>16 DEF IInv, Inserting
  <2>2. \A o \in Threads : Pc(o)' \in {"insert", "dispatch"} =>
          /\ thread[o].task # t /\ thread[o].task # dispatch'.running
          /\ thread[o].task \notin dispatch'.timers \cup Range(dispatch'.ready)
    BY <1>4, <1>10, <1>16, <2>1 DEF HeldByDispatch
  <2> QED
    BY <1>1, <1>12, <1>16, <2>1, <2>2 DEF IInv, Inserting, Pc, State, IsTimer, HeldByDispatch
<1>25. Dispatching'
  BY <1>1, <1>3, <1>4, <1>5, <1>10, <1>12, <1>14, <1>16 DEF IInv, Dispatching
<1>26. Scheduled'
  <2>1. Pc(Worker) # "insert" /\ Pc(Worker)' # "insert"
    BY <1>1, <1>14, <1>16
  <2> QED
    BY <1>1, <1>12, <2>1 DEF IInv, Scheduled, IsTimer
<1>27. Starts'
  <2>1. \A o \in Threads : Pc(o)' \in {"await", "release"} =>
          /\ tasks[thread[o].task].state # "initial"
          /\ Pc(o)' = "release" /\ o # Worker => tasks[thread[o].task].state # "running"
    BY <1>16 DEF IInv, Starts, State
  <2>2. \A u \in TaskIds : u \in started' <=> tasks'[u].state \in {"running", "done"}
    BY <1>12, <1>13 DEF IInv, Starts, State
  <2>3. \A u \in TaskIds : tasks'[u].state = "running" <=> u = t /\ p # "last"
    BY <1>12, <1>13, <1>14, <1>17 DEF State
  <2>4. \A u \in TaskIds : tasks'[u].state = "initial" =>
          \/ u \in executor.tasks
          \/ \E o \in Threads : WillCancel(o, u)' \/ (Pc(o)' = "insert" /\ thread'[o].task = u)
    BY <1>12, <1>13, <1>16 DEF IInv, Starts, State
  <2>5. \A o \in Threads : Pc(o)' \in {"await", "release"} =>
          tasks'[thread'[o].task].state = tasks[thread[o].task].state
    BY <1>12, <1>16, <2>1
  <2>6. started' \subseteq TaskIds /\ executor' = executor
    BY <1>1, <1>5, <1>12, <1>13
  <2>7. \A o \in Threads :
          /\ Pc(o)' \in {"await", "release"} => tasks'[thread'[o].task].state # "initial"
          /\ Pc(o)' = "release" /\ o # Worker => tasks'[thread'[o].task].state # "running"
    BY <2>1, <2>5
  <2>8. \A u \in TaskIds : tasks'[u].state = "running" <=> u = dispatch'.running /\ Pc(Worker)' # "last"
    BY <1>10, <1>16, <2>3
  <2> QED
    BY <1>12, <2>2, <2>4, <2>6, <2>7, <2>8 DEF Starts, State
<1>28. Cancelling'
  <2>1. \A u \in cancelled : State(u) = "cancelled"
    BY <1>1 DEF IInv, Cancelling
  <2>2. cancelled \cap started' = {}
    BY <1>13, <2>1 DEF IInv, Cancelling
  <2> QED
    BY <1>1, <1>12, <1>13, <1>16, <2>1, <2>2 DEF IInv, Cancelling, State
<1>29. Ending'
  <2> SUFFICES ASSUME Terminating' PROVE Ending'
    BY DEF Ending
  <2>1. \A u \in TaskIds : tasks'[u].state = "running" => u = t /\ run
    BY <1>12, <1>13, <1>17 DEF State
  <2>2. CASE Kind(t) = "terminate" /\ run
    BY <1>1, <1>5, <1>10, <1>12, <1>13, <1>16, <1>18, <2>1, <2>2 DEF Ending, Kind, State
  <2>3. CASE ~(Kind(t) = "terminate" /\ run)
    <3>1. Terminating
      <4>1. CASE run
        <5>1. Kind(t) # "terminate" /\ started' = started \cup {t}
          BY <1>13, <2>3, <4>1
        <5>2. PICK u \in started' : tasks'[u].kind = "terminate"
          BY DEF Terminating, Kind
        <5>3. u # t /\ u \in started /\ Kind(u) = "terminate"
          BY <1>5, <1>12, <5>1, <5>2 DEF Kind
        <5> QED
          BY <5>3 DEF Terminating
      <4>2. CASE ~run
        BY <1>12, <1>13, <4>2 DEF Terminating, Kind
      <4> QED
        BY <4>1, <4>2
    <3>2. \A u \in TaskIds : Kind(u) = "timer" => u \in cancelled \cup ignored \cup started
      BY <1>17, <3>1 DEF IInv, Ending
    <3>3. run => t \notin started
      BY <1>5, <1>13 DEF IInv, Starts
    <3>4. started \subseteq started'
      BY <1>13
    <3>5. \A u \in TaskIds : tasks'[u].kind = "timer" => u \in cancelled' \cup ignored' \cup started'
      BY <1>1, <1>12, <3>2, <3>4 DEF Kind
    <3>6. \A u \in TaskIds : tasks'[u].state = "running" =>
            /\ tasks'[u].kind = "timer" => u \in cancelled' \cup ignored'
            /\ u \in executor'.tasks \/ \E o \in Disposers : WillCancel(o, u)'
      BY <1>1, <1>12, <1>16, <1>18, <2>1, <3>2, <3>3 DEF Kind
    <3> QED
      BY <1>12, <3>5, <3>6 DEF Ending, Kind, State
  <2> QED
    BY <2>2, <2>3
<1>30. Counts'
  BY <1>1, <1>11, <1>12, <1>15 DEF IInv, Counts
<1> QED
  BY <1>1, <1>20, <1>21, <1>22, <1>23, <1>24, <1>25, <1>26, <1>27, <1>28, <1>29, <1>30, <1>7
     DEF IInv

\* An operation ends, and the executor gives up the task if it still has it.
LEMMA FinishKeeps ==
  ASSUME IInv, Finish PROVE IInv'
<1> DEFINE t == dispatch.running
           n == Notifies(t)
<1>1. /\ mode' = mode /\ lock' = lock /\ dispatch' = dispatch /\ started' = started
      /\ cancelled' = cancelled /\ ignored' = ignored /\ disposed' = disposed
      /\ Pc(Worker) = "operation" /\ Worker \in Threads
      /\ Kind(t) = "terminate" => Terminated
  BY DEF Finish, At, Pc, Threads, Kind, history
<1>2. /\ Go(Worker, "last")
      /\ executor' = IF n THEN [executor EXCEPT !.tasks = @ \ {t}, !.schedule = Unschedule(t)]
                          ELSE executor
      /\ tasks' = [tasks EXCEPT ![t].state = "done", ![t].refs = IF n THEN @ - 1 ELSE @]
      /\ failed' = IF tasks[t].executor /\ disposed
                   THEN failed \cup {"executor_used_after_dispose"} ELSE failed
  BY DEF Finish
<1>3. /\ t \in TaskIds /\ HeldByDispatch(t) /\ State(t) = "running" /\ t \in Nat
  BY <1>1, TaskIdsType DEF IInv, Dispatching, HeldByDispatch, Starts
<1>4. tasks \in Seq(TaskRecord) /\ t \in DOMAIN tasks /\ tasks[t] \in TaskRecord
  BY <1>3 DEF IInv, Types, TaskIds
<1>5. /\ n \in BOOLEAN
      /\ n => t \in executor.tasks
  BY <1>4 DEF Notifies, TaskRecord
<1>6. tasks[t].refs \in Nat /\ (n => tasks[t].refs - 1 \in Nat)
  BY <1>3, <1>4, <1>5 DEF IInv, Counts, TaskRecord
<1>7. Moved(Worker, "last")
  BY <1>1, <1>2, GoMoves DEF IInv, Places
<1>8. "use_after_free" \notin failed'
  BY <1>2 DEF IInv
<1> DEFINE c == IF n THEN tasks[t].refs - 1 ELSE tasks[t].refs
<1> HIDE DEF t, n
<1>9. /\ tasks' \in Seq(TaskRecord) /\ TaskIds' = TaskIds
      /\ \A u \in TaskIds :
           /\ tasks'[u].kind = tasks[u].kind /\ tasks'[u].id = tasks[u].id
           /\ u # t => tasks'[u].state = tasks[u].state /\ tasks'[u].refs = tasks[u].refs
      /\ tasks'[t].state = "done" /\ tasks'[t].refs = c
  <2>1. c \in Nat
    BY <1>5, <1>6
  <2> DEFINE r == [tasks[t] EXCEPT !.state = "done", !.refs = c]
  <2>2. tasks' = [tasks EXCEPT ![t] = r]
    BY <1>2, <1>4
  <2> HIDE DEF c
  <2>3. r \in TaskRecord /\ r.refs = c /\ r.kind = tasks[t].kind
        /\ r.state = "done" /\ r.id = tasks[t].id
    BY <1>4, <2>1 DEF TaskRecord
  <2> HIDE DEF r
  <2> QED
    BY <1>4, <2>2, <2>3 DEF TaskIds
<1>10. /\ executor' \in [tasks : SUBSET Nat, schedule : Schedules, nextId : Nat,
                         disposed : BOOLEAN]
       /\ executor'.tasks = IF n THEN executor.tasks \ {t} ELSE executor.tasks
       /\ executor'.schedule = IF n THEN Unschedule(t) ELSE executor.schedule
       /\ executor'.nextId = executor.nextId /\ executor'.disposed = executor.disposed
  <2>1. executor \in [tasks : SUBSET Nat, schedule : Schedules, nextId : Nat,
                      disposed : BOOLEAN]
    BY DEF IInv, Types
  <2>2. Unschedule(t) \in Schedules
    <3>1. PICK S \in SUBSET Nat : executor.schedule \in [S -> Nat]
      BY <2>1 DEF Schedules
    <3> DEFINE R == S \ {tasks[t].id}
    <3>2. R \in SUBSET Nat /\ [i \in R |-> executor.schedule[i]] \in [R -> Nat]
      BY <3>1
    <3>3. [i \in R |-> executor.schedule[i]] \in Schedules
      BY <3>2 DEF Schedules
    <3>4. executor.schedule \in Schedules /\ DOMAIN executor.schedule = S
      BY <2>1, <3>1
    <3> QED
      BY <3>3, <3>4 DEF Unschedule, Restrict
  <2>3. CASE n
    BY <1>2, <2>1, <2>2, <2>3
  <2>4. CASE ~n
    BY <1>2, <1>5, <2>1, <2>4
  <2> QED
    BY <1>5, <2>3, <2>4
<1>11. /\ IsTimer(t) => /\ DOMAIN Unschedule(t) = DOMAIN executor.schedule \ {tasks[t].id}
                        /\ \A i \in DOMAIN Unschedule(t) : Unschedule(t)[i] = executor.schedule[i]
       /\ ~IsTimer(t) => Unschedule(t) = executor.schedule
  BY DEF Unschedule, Restrict
<1>12. /\ executor'.tasks = IF n THEN executor.tasks \ {t} ELSE executor.tasks
       /\ executor'.tasks \subseteq executor.tasks
       /\ executor'.nextId = executor.nextId /\ executor'.disposed = executor.disposed
       /\ started \subseteq TaskIds /\ executor.tasks \subseteq TaskIds
       /\ Disposers \subseteq Threads /\ t \in TaskIds
       /\ \A u \in TaskIds : tasks'[u].kind = tasks[u].kind /\ tasks'[u].id = tasks[u].id
       /\ TaskIds' = TaskIds
  BY <1>3, <1>5, <1>9, <1>10 DEF IInv, Starts, Owners, Threads
<1>13. \A o \in Threads : \A u : Holds(o, u)' <=> Holds(o, u)
  BY <1>1, <1>7 DEF Holds, Pc, Moved
<1>14. /\ \A o \in Threads : \A u : WillCancel(o, u)' <=> WillCancel(o, u)
       /\ \A o \in Threads : thread'[o].task = thread[o].task /\ thread'[o].rest = thread[o].rest
                             /\ (o # Worker => thread'[o] = thread[o])
       /\ \A o \in Threads : Pc(o)' \in {"insert", "dispatch", "waitStart", "await", "release", "cancel"} =>
            Pc(o)' = Pc(o) /\ o # Worker /\ thread[o].task \in TaskIds
       /\ \A o \in Threads : Pc(o) \in {"insert", "dispatch", "await", "release", "cancel"} =>
            Pc(o)' = Pc(o)
       /\ Pc(Worker)' = "last" /\ Worker \notin Disposers /\ Worker \notin Callers
  BY <1>1, <1>7, ThreadsAssumption DEF WillCancel, Moved, Pc, IInv, ThreadsOK
<1>15. Terminating' <=> Terminating
  BY <1>1, <1>12 DEF Terminating, Kind
<1>16. \A u \in TaskIds : State(u) = "running" <=> u = t
  BY <1>1, <1>3 DEF IInv, Starts, t
<1>17. \A u : HeldByDispatch(u)' <=> HeldByDispatch(u)
  BY <1>1 DEF HeldByDispatch
<1>18. Types'
  BY <1>1, <1>7, <1>9, <1>10 DEF IInv, Types, Moved
<1>19. ThreadsOK'
  BY <1>1, <1>7, <1>12, <1>14, <1>15, ThreadsAssumption
     DEF IInv, ThreadsOK, Pc, Threads, Moved
<1>20. DisposersOK'
  <2>1. /\ executor.disposed => DOMAIN executor'.schedule = {}
    BY <1>10, <1>11, <1>5 DEF IInv, DisposersOK
  <2> QED
    BY <1>1, <1>12, <1>14, <1>15, <2>1 DEF IInv, DisposersOK, ThreadsOK, Pc, Kind, Threads
<1>21. Owners'
  BY <1>1, <1>12, <1>13 DEF IInv, Owners
<1>22. Inserting'
  <2>1. \A o \in Threads : Pc(o)' \in {"insert", "dispatch"} =>
          /\ tasks[thread[o].task].state = "initial" /\ thread[o].task # t
          /\ Pc(o) = "dispatch" => thread[o].task \in executor'.tasks
    BY <1>3, <1>5, <1>12, <1>14 DEF IInv, Inserting, State
  <2>2. \A u \in TaskIds : u # t => tasks'[u].state = tasks[u].state
    BY <1>9
  <2> QED
    BY <1>1, <1>12, <1>14, <2>1, <2>2 DEF IInv, Inserting, HeldByDispatch, Pc, State, IsTimer
<1>23. Dispatching'
  BY <1>1, <1>3, <1>12, <1>14 DEF IInv, Dispatching, NoTask, t
<1>24. Scheduled'
  <2>1. Pc(Worker) # "insert" /\ Pc(Worker)' # "insert"
    BY <1>1, <1>14
  <2>2. CASE ~n
    <3>1. executor'.tasks = executor.tasks /\ executor'.schedule = executor.schedule
      BY <1>10, <2>2
    <3> QED
      BY <1>12, <2>1, <3>1 DEF IInv, Scheduled, IsTimer
  <2>3. CASE n
    <3>1. executor'.tasks = executor.tasks \ {t} /\ executor'.schedule = Unschedule(t)
      BY <1>10, <2>3
    <3> DEFINE S == executor'.schedule
    <3>2. CASE IsTimer(t)
      <4>1. /\ DOMAIN S = DOMAIN executor.schedule \ {tasks[t].id}
            /\ \A i \in DOMAIN S : S[i] = executor.schedule[i]
        BY <1>11, <3>1, <3>2
      <4> HIDE DEF S
      <4>2. \A i \in DOMAIN S : /\ S[i] \in executor'.tasks /\ IsTimer(S[i])
                                /\ tasks[S[i]].id = i
        BY <1>12, <3>1, <3>2, <4>1 DEF IInv, Scheduled
      <4>3. \A u \in executor'.tasks : IsTimer(u) => tasks[u].id \in DOMAIN S /\ S[tasks[u].id] = u
        BY <1>12, <3>1, <3>2, <4>1 DEF IInv, Scheduled
      <4> QED
        BY <1>12, <2>1, <4>2, <4>3 DEF IInv, Scheduled, IsTimer, S
    <3>3. CASE ~IsTimer(t)
      <4>1. S = executor.schedule
        BY <1>11, <3>1, <3>3
      <4> QED
        BY <1>12, <2>1, <3>1, <3>3, <4>1 DEF IInv, Scheduled, IsTimer
    <3> QED
      BY <3>2, <3>3
  <2> QED
    BY <1>5, <2>2, <2>3
<1>25. Starts'
  <2>1. \A o \in Threads : Pc(o)' \in {"await", "release"} =>
          /\ tasks[thread[o].task].state # "initial"
          /\ Pc(o)' = "release" /\ o # Worker => tasks[thread[o].task].state # "running"
    BY <1>14 DEF IInv, Starts, State
  <2>2. \A u \in TaskIds : u \in started' <=> tasks'[u].state \in {"running", "done"}
    BY <1>1, <1>3, <1>9 DEF IInv, Starts, State
  <2>3. \A u \in TaskIds : tasks'[u].state # "running"
    BY <1>9, <1>16 DEF State
  <2>4. \A u \in TaskIds : tasks'[u].state = "initial" =>
          \/ u \in executor'.tasks
          \/ \E o \in Threads : WillCancel(o, u)' \/ (Pc(o)' = "insert" /\ thread'[o].task = u)
    BY <1>9, <1>12, <1>14 DEF IInv, Starts, State
  <2>5. \A u \in TaskIds : tasks'[u].state = "initial" => u # t /\ tasks[u].state = "initial"
    BY <1>9
  <2>6. \A o \in Threads : Pc(o)' \in {"await", "release"} =>
          tasks'[thread'[o].task].state # "initial"
    BY <1>14, <2>1, <2>5
  <2>7. \A o \in Threads : Pc(o)' = "release" => tasks'[thread'[o].task].state # "running"
    BY <1>14, <2>3
  <2> QED
    BY <1>1, <1>12, <1>14, <2>2, <2>3, <2>4, <2>6, <2>7 DEF Starts, State
<1>26. Cancelling'
  <2>1. \A u \in TaskIds : tasks'[u].state = "cancelled" <=> tasks[u].state = "cancelled"
    BY <1>3, <1>9 DEF State
  <2>2. Pc(Worker) # "cancel"
    BY <1>1
  <2> QED
    BY <1>1, <1>12, <1>14, <2>1, <2>2 DEF IInv, Cancelling, State
<1>27. Ending'
  <2> SUFFICES ASSUME Terminating PROVE Ending'
    BY <1>15 DEF Ending
  <2>1. \A u \in TaskIds : tasks'[u].state # "running"
    BY <1>9, <1>16 DEF State
  <2>2. \A u \in TaskIds : Kind(u) = "timer" => u \in cancelled \cup ignored \cup started
    BY <1>1 DEF IInv, Ending, Terminated, Kind, t
  <2> QED
    BY <1>1, <1>12, <2>1, <2>2 DEF Ending, State, Kind
<1>28. Counts'
  <2>1. \A o \in Threads : n => ~Holds(o, t)
    BY <1>5 DEF IInv, Owners
  <2>2. \A u \in TaskIds : u # t => (u \in executor'.tasks <=> u \in executor.tasks)
    BY <1>12
  <2>3. ASSUME NEW u \in TaskIds
        PROVE  tasks'[u].refs =
                 (IF u \in executor'.tasks \/ \E o \in Threads : Holds(o, u) THEN 1 ELSE 0)
                 + (IF HeldByDispatch(u) THEN 1 ELSE 0)
    <3>1. CASE u = t /\ n
      BY <1>3, <1>5, <1>6, <1>9, <1>12, <2>1, <3>1 DEF IInv, Counts
    <3>2. CASE u = t /\ ~n
      BY <1>3, <1>6, <1>9, <1>12, <3>2 DEF IInv, Counts
    <3>3. CASE u # t
      BY <1>9, <2>2, <3>3 DEF IInv, Counts
    <3> QED
      BY <1>5, <3>1, <3>2, <3>3
  <2> QED
    BY <1>12, <1>13, <1>17, <2>3 DEF Counts
<1> QED
  BY <1>1, <1>18, <1>19, <1>20, <1>21, <1>22, <1>23, <1>24, <1>25, <1>26, <1>27, <1>28, <1>8
     DEF IInv

\* The handle of a timer is cancelled: the task leaves the executor with this call,
\* unless it has left it before.
LEMMA CancelKeeps ==
  ASSUME IInv, NEW t \in TaskIds, Cancel(t) PROVE IInv'
<1>1. /\ mode' = mode /\ lock' = lock /\ tasks' = tasks /\ dispatch' = dispatch
      /\ started' = started /\ disposed' = disposed /\ failed' = failed
      /\ Pc(Worker) = "operation" /\ Worker \in Threads /\ Kind(t) = "timer" /\ IsTimer(t)
      /\ t \notin cancelled \cup ignored
  BY DEF Cancel, At, Pc, Kind, IsTimer, TimerKinds, Threads
<1>2. /\ cancelled \subseteq cancelled' /\ cancelled' \subseteq cancelled \cup {t}
      /\ ignored \subseteq ignored' /\ ignored' \subseteq ignored \cup {t}
      /\ t \in cancelled' \cup ignored' \cup started
      /\ t \in cancelled' => t \notin started /\ ~executor.disposed
  BY <1>1 DEF Cancel, Promise
<1>3. /\ \A i \in DOMAIN executor.schedule : executor.schedule[i] \in executor.tasks
      /\ executor.tasks \subseteq TaskIds /\ started \subseteq TaskIds
      /\ Disposers \subseteq Threads /\ TaskIds \subseteq Nat
      /\ Worker \notin Disposers /\ Worker \notin Callers /\ thread[Worker].rest = {}
  BY TaskIdsType, ThreadsAssumption DEF IInv, Scheduled, Owners, Starts, Threads, ThreadsOK
<1> DEFINE id == tasks[t].id
           S == Restrict(executor.schedule, DOMAIN executor.schedule \ {id})
<1>4. CASE id \in DOMAIN executor.schedule
  <2>1. executor.schedule[id] = t /\ t \in executor.tasks
    <3> DEFINE f == executor.schedule[id]
    <3>1. f \in executor.tasks /\ f \in TaskIds /\ IsTimer(f) /\ tasks[f].id = tasks[t].id
      BY <1>3, <1>4 DEF IInv, Scheduled
    <3>2. \A a, b \in TaskIds : IsTimer(a) /\ IsTimer(b) /\ tasks[a].id = tasks[b].id => a = b
      BY DEF IInv, Scheduled
    <3> HIDE DEF f
    <3>3. f = t
      BY <1>1, <3>1, <3>2
    <3> QED
      BY <3>1, <3>3 DEF f
  <2>2. /\ executor' = [executor EXCEPT !.tasks = @ \ {t}, !.schedule = S]
        /\ thread' = [thread EXCEPT ![Worker].pc = "cancel", ![Worker].task = t,
                                    ![Worker].then = "operation"]
    BY <1>4, <2>1 DEF Cancel
  <2>3. /\ thread' \in [Threads -> ThreadRecord]
        /\ thread'[Worker].pc = "cancel" /\ thread'[Worker].task = t
        /\ thread'[Worker].rest = {} /\ thread'[Worker].then = "operation"
        /\ \A o \in Threads : o # Worker => thread'[o] = thread[o]
    <3> DEFINE x == [thread[Worker] EXCEPT !.pc = "cancel", !.task = t, !.then = "operation"]
    <3>1. thread \in [Threads -> ThreadRecord] /\ thread' = [thread EXCEPT ![Worker] = x]
      BY <2>2 DEF IInv, Types
    <3>2. /\ x \in ThreadRecord /\ x.pc = "cancel" /\ x.task = t /\ x.rest = {}
          /\ x.then = "operation"
      BY <1>1, <1>3, <3>1 DEF ThreadRecord, Places
    <3> HIDE DEF x
    <3> QED
      BY <1>1, <3>1, <3>2
  <2>4. S \in Schedules
    <3>1. executor.schedule \in Schedules
      BY DEF IInv, Types
    <3>2. PICK D \in SUBSET Nat : executor.schedule \in [D -> Nat]
      BY <3>1 DEF Schedules
    <3> DEFINE R == D \ {id}
    <3>3. R \in SUBSET Nat /\ [i \in R |-> executor.schedule[i]] \in [R -> Nat]
      BY <3>2
    <3>4. [i \in R |-> executor.schedule[i]] \in Schedules
      BY <3>3 DEF Schedules
    <3>5. DOMAIN executor.schedule = D
      BY <3>2
    <3> QED
      BY <3>4, <3>5 DEF Restrict
  <2>5. /\ DOMAIN S = DOMAIN executor.schedule \ {id}
        /\ \A i \in DOMAIN S : S[i] = executor.schedule[i]
    BY DEF Restrict
  <2> HIDE DEF S
  <2>6. /\ executor' \in [tasks : SUBSET Nat, schedule : Schedules, nextId : Nat,
                          disposed : BOOLEAN]
        /\ executor'.tasks = executor.tasks \ {t} /\ executor'.schedule = S
        /\ executor'.nextId = executor.nextId /\ executor'.disposed = executor.disposed
    BY <2>2, <2>4 DEF IInv, Types
  <2>7. \A o \in Threads : \A u : Holds(o, u)' <=> Holds(o, u) \/ (o = Worker /\ u = t)
    BY <1>1, <1>3, <2>3 DEF Holds, Pc
  <2>8. \A o \in Threads : \A u : WillCancel(o, u) => WillCancel(o, u)'
    BY <1>1, <1>3, <2>3 DEF WillCancel, Pc
  <2>9. WillCancel(Worker, t)' /\ \A u : ~Holds(Worker, u)
    BY <1>1, <1>3, <2>3 DEF WillCancel, Holds, Pc
  <2>10. \A o \in Threads : ~Holds(o, t)
    BY <2>1 DEF IInv, Owners
  <2>11. /\ executor'.tasks = executor.tasks \ {t}
         /\ executor'.nextId = executor.nextId /\ executor'.disposed = executor.disposed
         /\ t \in executor.tasks
    BY <2>1, <2>6
  <2>12. Types'
    BY <1>1, <2>3, <2>6 DEF IInv, Types
  <2>13. ThreadsOK'
    BY <1>1, <1>3, <2>3, ThreadsAssumption DEF IInv, ThreadsOK, Pc, Threads, TaskIds
  <2>14. DisposersOK'
    <3>1. executor.disposed => DOMAIN executor'.schedule = {}
      BY <2>5, <2>6 DEF IInv, DisposersOK
    <3>2. \A o \in Disposers : thread'[o] = thread[o]
      BY <1>3, <2>3
    <3> QED
      BY <1>1, <2>11, <3>1, <3>2 DEF IInv, DisposersOK, Pc, Kind, TaskIds, Terminating
  <2>15. Owners'
    BY <1>1, <2>7, <2>9, <2>10, <2>11 DEF IInv, Owners, TaskIds
  <2>16. Inserting'
    <3>1. \A o \in Threads : Pc(o)' \in {"insert", "dispatch"} =>
            thread'[o] = thread[o] /\ thread[o].task # t
      BY <1>1, <1>3, <2>3, <2>10 DEF IInv, Inserting, Holds, Pc, IsTimer
    <3> QED
      BY <1>1, <2>11, <3>1 DEF IInv, Inserting, HeldByDispatch, State, Pc, IsTimer
  <2>17. Dispatching'
    BY <1>1, <2>3 DEF IInv, Dispatching, Pc, TaskIds
  <2>18. Scheduled'
    <3>1. \A i \in DOMAIN S : S[i] \in executor'.tasks /\ IsTimer(S[i]) /\ tasks[S[i]].id = i
      BY <2>1, <2>5, <2>11 DEF IInv, Scheduled
    <3>2. \A u \in executor'.tasks : IsTimer(u) => tasks[u].id \in DOMAIN S /\ S[tasks[u].id] = u
      BY <1>1, <1>3, <2>1, <2>5, <2>11 DEF IInv, Scheduled
    <3>3. Pc(Worker) # "insert" /\ Pc(Worker)' # "insert"
      BY <1>1, <2>3 DEF Pc
    <3> QED
      BY <1>1, <2>6, <3>1, <3>2, <3>3 DEF IInv, Scheduled, IsTimer, TaskIds
  <2>19. Starts'
    <3>1. \A o \in Threads : Pc(o)' \in {"await", "release"} => thread'[o] = thread[o]
      BY <2>3 DEF Pc
    <3>2. Pc(Worker)' # "last" /\ Pc(Worker) # "last"
      BY <1>1, <2>3 DEF Pc
    <3>3. \A o \in Threads : \A u : Pc(o) = "insert" /\ thread[o].task = u =>
            Pc(o)' = "insert" /\ thread'[o].task = u
      BY <1>1, <2>3 DEF Pc
    <3> QED
      BY <1>1, <2>8, <2>9, <2>11, <3>1, <3>2, <3>3 DEF IInv, Starts, State, Pc, TaskIds
  <2>20. Cancelling'
    BY <1>1, <1>2, <2>3, <2>11 DEF IInv, Cancelling, State, Pc, TaskIds
  <2>21. Ending'
    <3>1. \A o \in Disposers : \A u : Pc(o) = "await" /\ thread[o].task = u =>
            Pc(o)' = "await" /\ thread'[o].task = u
      BY <1>3, <2>3 DEF Pc
    <3> QED
      BY <1>1, <1>2, <1>3, <2>8, <2>11, <3>1 DEF IInv, Ending, Terminating, State, Kind, TaskIds
  <2>22. Counts'
    <3>1. \A u \in TaskIds : u # t =>
            /\ u \in executor'.tasks <=> u \in executor.tasks
            /\ \A o \in Threads : Holds(o, u)' <=> Holds(o, u)
      BY <2>7, <2>11
    <3>2. Holds(Worker, t)' /\ t \notin executor'.tasks
      BY <1>1, <2>7, <2>11
    <3> QED
      BY <1>1, <2>11, <3>1, <3>2 DEF IInv, Counts, HeldByDispatch, TaskIds
  <2> QED
    BY <1>1, <2>12, <2>13, <2>14, <2>15, <2>16, <2>17, <2>18, <2>19, <2>20, <2>21, <2>22
       DEF IInv
<1>5. CASE id \notin DOMAIN executor.schedule
  <2>1. executor' = executor /\ thread' = thread
    BY <1>5 DEF Cancel
  <2>2. t \notin executor.tasks
    BY <1>1, <1>5 DEF IInv, Scheduled
  <2>3. t \in cancelled' => State(t) = "cancelled"
    <3>1. SUFFICES ASSUME t \in cancelled' PROVE State(t) = "cancelled"
      OBVIOUS
    <3>2. t \notin started /\ ~executor.disposed
      BY <1>2, <3>1
    <3>3. \A o \in Threads : ~WillCancel(o, t) /\ ~(Pc(o) = "insert" /\ thread[o].task = t)
      <4>1. \A o \in Disposers : ~WillCancel(o, t)
        BY <3>2 DEF WillCancel, IInv, ThreadsOK, DisposersOK, Threads
      <4>2. \A o \in Callers : ~WillCancel(o, t)
        BY ThreadsAssumption DEF WillCancel, IInv, ThreadsOK, Threads
      <4>3. ~WillCancel(Worker, t)
        BY <1>1, <1>3 DEF WillCancel
      <4>4. \A o \in Threads : ~(Pc(o) = "insert" /\ thread[o].task = t)
        BY <1>1 DEF IInv, Inserting
      <4> QED
        BY <4>1, <4>2, <4>3, <4>4 DEF Threads
    <3>4. State(t) # "initial"
      BY <2>2, <3>3 DEF IInv, Starts
    <3>5. State(t) \in {"initial", "running", "cancelled", "done"}
      <4>1. tasks[t] \in TaskRecord
        BY DEF IInv, Types, TaskIds
      <4> QED
        BY <4>1 DEF TaskRecord, State
    <3> QED
      BY <3>2, <3>4, <3>5 DEF IInv, Starts
  <2>4. Types' /\ ThreadsOK' /\ Owners' /\ Dispatching' /\ Scheduled'
    BY <1>1, <2>1 DEF IInv, Types, ThreadsOK, Owners, Holds, Dispatching, Scheduled, Pc, TaskIds,
                      IsTimer
  <2>5. DisposersOK' /\ Inserting'
    BY <1>1, <2>1 DEF IInv, DisposersOK, Inserting, Pc, Kind, State, Terminating, TaskIds, IsTimer,
                      HeldByDispatch
  <2>6. Starts' /\ Counts'
    BY <1>1, <2>1 DEF IInv, Starts, Counts, Pc, State, WillCancel, Holds, HeldByDispatch, TaskIds
  <2>7. Cancelling'
    BY <1>1, <1>2, <2>1, <2>3 DEF IInv, Cancelling, State, Pc, TaskIds
  <2>8. Ending'
    BY <1>1, <1>2, <2>1 DEF IInv, Ending, Terminating, State, Kind, WillCancel, Pc, TaskIds
  <2> QED
    BY <1>1, <2>4, <2>5, <2>6, <2>7, <2>8 DEF IInv
<1> QED
  BY <1>4, <1>5

\* A task is created under the mutex of the queue: a call of a caller or a timer of an
\* operation while the queue runs, or the termination until it is disposed of.
LEMMA CreateKeeps ==
  ASSUME IInv, NEW th \in Threads, NEW kind \in TaskKinds, Create(th, kind),
         \/ th \in Callers /\ kind = "call" /\ mode = "running" /\ Pc(th) = "idle"
         \/ th = Worker /\ kind \in TimerKinds /\ mode = "running" /\ Pc(th) = "operation"
         \/ /\ th \in Disposers /\ kind = "terminate" /\ mode # "disposed"
            /\ Pc(th) = "terminate"
  PROVE IInv'
<1> DEFINE t == Len(tasks) + 1
           r == [kind |-> kind, state |-> "initial", refs |-> 1,
                 id |-> IF kind \in TimerKinds THEN executor.nextId ELSE 0, executor |-> TRUE]
<1>1. /\ mode' = mode /\ executor' = executor /\ dispatch' = dispatch
      /\ started' = started /\ cancelled' = cancelled
      /\ ignored' = ignored /\ disposed' = disposed /\ failed' = failed
      /\ lock = NoThread /\ lock' = th
  BY DEF Create, Hold, history
<1>2. /\ tasks' = Append(tasks, r)
      /\ thread' = [thread EXCEPT ![th].pc = "insert", ![th].task = t]
  BY DEF Create
<1>3. /\ tasks \in Seq(TaskRecord) /\ executor.nextId \in Nat /\ dispatch.running \in Nat
  BY DEF IInv, Types
<1>4. /\ r \in TaskRecord /\ r.kind = kind /\ r.state = "initial" /\ r.refs = 1
      /\ kind \in TimerKinds => r.id = executor.nextId
  BY <1>3 DEF TaskRecord
<1>5. t \in Nat /\ t # NoTask /\ t \notin TaskIds
  BY <1>3 DEF TaskIds, NoTask
<1> HIDE DEF r
<1>6. /\ tasks' \in Seq(TaskRecord) /\ TaskIds' = TaskIds \cup {t}
      /\ \A u \in TaskIds : tasks'[u] = tasks[u]
      /\ tasks'[t].kind = kind /\ tasks'[t].state = "initial" /\ tasks'[t].refs = 1
      /\ kind \in TimerKinds => tasks'[t].id = executor.nextId
  BY <1>2, <1>3, <1>4 DEF TaskIds
<1> HIDE DEF t
<1>7. /\ thread' \in [Threads -> ThreadRecord]
      /\ thread'[th].pc = "insert" /\ thread'[th].task = t
      /\ thread'[th].rest = thread[th].rest
      /\ \A o \in Threads : o # th => thread'[o] = thread[o]
  <2> DEFINE x == [thread[th] EXCEPT !.pc = "insert", !.task = t]
  <2>1. thread \in [Threads -> ThreadRecord] /\ thread' = [thread EXCEPT ![th] = x]
    BY <1>2 DEF IInv, Types
  <2>2. x \in ThreadRecord /\ x.pc = "insert" /\ x.task = t /\ x.rest = thread[th].rest
    BY <1>5, <2>1 DEF ThreadRecord, Places
  <2> HIDE DEF x
  <2> QED
    BY <2>1, <2>2
<1>8. /\ Pc(th) \in {"idle", "operation", "terminate"} /\ mode # "disposed"
      /\ th = Worker => Pc(th) = "operation" /\ kind \in TimerKinds
      /\ th \in Disposers => Pc(th) = "terminate" /\ kind = "terminate"
      /\ th \in Callers => kind = "call"
      /\ kind = "terminate" => th \in Disposers
      /\ kind \in TimerKinds => th = Worker
      /\ th \in Callers \/ th \in Disposers \/ th = Worker
  BY ThreadsAssumption DEF TimerKinds
<1>9. /\ \A o \in Threads : thread[o].rest \subseteq TaskIds
      /\ thread[th].rest = {}
      /\ \A o \in Threads : Pc(o) \in {"insert", "dispatch", "waitStart", "cancel", "await", "release"} =>
           thread[o].task \in TaskIds
      /\ \A o \in Threads : Pc(o) \notin {"insert", "dispatch"}
  BY <1>1, <1>8, ThreadsAssumption DEF IInv, ThreadsOK, Threads
<1>10. \A o \in Threads : \A u : Holds(o, u)' <=> Holds(o, u) \/ (o = th /\ u = t)
  BY <1>7, <1>8, <1>9 DEF Holds, Pc
<1>11. \A o \in Threads : \A u : WillCancel(o, u)' <=> WillCancel(o, u)
  BY <1>7, <1>8, <1>9 DEF WillCancel, Pc
<1>12. /\ \A o \in Threads : ~Holds(o, t)
       /\ t \notin executor.tasks /\ executor.tasks \subseteq TaskIds
       /\ started \subseteq TaskIds /\ t \notin started
  BY <1>5, <1>9 DEF Holds, IInv, Owners, Starts
<1>13. ~HeldByDispatch(t) /\ \A u : HeldByDispatch(u)' <=> HeldByDispatch(u)
  BY <1>1, <1>5 DEF HeldByDispatch, IInv, Dispatching
<1>14. /\ Terminating' <=> Terminating
       /\ kind \in TimerKinds => ~Terminating
  <2>1. Terminating' <=> Terminating
    BY <1>1, <1>6, <1>12 DEF Terminating, Kind
  <2>2. Terminating => mode # "running"
    BY <1>12 DEF IInv, DisposersOK, Terminating
  <2>3. kind \in TimerKinds => mode = "running"
    BY DEF TimerKinds
  <2> QED
    BY <2>1, <2>2, <2>3
<1>15. /\ \A o \in Threads : Pc(o)' \in {"insert", "dispatch"} =>
            o = th /\ Pc(o)' = "insert" /\ thread'[o].task = t
       /\ \A o \in Threads : o # th => thread'[o] = thread[o] /\ Pc(o)' = Pc(o)
       /\ Disposers \subseteq Threads /\ Worker \in Threads
  BY <1>7, <1>9 DEF Pc, Threads
<1>16. Types'
  BY <1>1, <1>6, <1>7 DEF IInv, Types
<1>17. ThreadsOK'
  <2>1. /\ Pc(th)' = "insert" /\ thread'[th].task = t /\ thread'[th].rest = {}
        /\ th # NoThread /\ TaskIds \subseteq TaskIds' /\ t \in TaskIds'
    BY <1>6, <1>7, <1>9, ThreadsAssumption DEF Pc, Threads
  <2>2. \A o \in Threads : o # th => thread'[o] = thread[o] /\ Pc(o)' = Pc(o)
    BY <1>15
  <2>3. \A o \in Threads : Pc(o)' \in {"insert", "dispatch"} <=> o = th
    BY <1>9, <2>1, <2>2
  <2>4. \A o \in Threads :
          /\ Pc(o)' \in {"insert", "dispatch", "waitStart", "cancel", "await", "release"} =>
               thread'[o].task \in TaskIds'
          /\ Pc(o)' \in {"cancel", "await", "release"} =>
               /\ thread'[o].task \notin thread'[o].rest
               /\ thread'[o].then = IF o = Worker THEN "operation" ELSE "drain"
          /\ thread'[o].rest \subseteq TaskIds'
          /\ o = Worker \/ Pc(o)' \notin {"drain", "cancel", "await", "release"} =>
               thread'[o].rest = {}
    BY <2>1, <2>2 DEF IInv, ThreadsOK
  <2>5. /\ \A o \in Callers : Pc(o)' \in {"idle", "insert", "dispatch"}
        /\ \A o \in Disposers :
             Pc(o)' \in {"idle", "terminate", "insert", "dispatch", "waitStart", "dispose",
                         "swap", "drain", "cancel", "await", "release"}
        /\ Pc(Worker)' \in {"idle", "operation", "insert", "dispatch", "cancel", "release", "last"}
    BY <2>1, <2>2 DEF IInv, ThreadsOK, Threads
  <2> QED
    BY <1>1, <2>3, <2>4, <2>5 DEF ThreadsOK
<1>18. DisposersOK'
  <2>1. \A u \in TaskIds : Kind(u)' = Kind(u)
    BY <1>6 DEF Kind
  <2>2. th \in Disposers => mode # "running"
    BY <1>8 DEF IInv, DisposersOK
  <2>3. \A o \in Disposers :
          /\ Pc(o)' # "idle" => mode # "running"
          /\ Pc(o)' \in {"insert", "dispatch", "waitStart"} => tasks'[thread'[o].task].kind = "terminate"
          /\ Pc(o)' \in {"dispose", "swap", "drain", "cancel", "await", "release"} =>
               o # th /\ Pc(o)' = Pc(o)
    <3>1. ASSUME NEW o \in Disposers, o = th
          PROVE  Pc(o)' = "insert" /\ mode # "running" /\ tasks'[thread'[o].task].kind = "terminate"
      BY <1>6, <1>7, <1>8, <2>2, <3>1 DEF Pc
    <3>2. ASSUME NEW o \in Disposers, o # th
          PROVE  /\ Pc(o)' # "idle" => mode # "running"
                 /\ Pc(o)' \in {"insert", "dispatch", "waitStart"} =>
                      tasks'[thread'[o].task].kind = "terminate"
                 /\ Pc(o)' = Pc(o)
      BY <1>6, <1>9, <1>15, <3>2 DEF IInv, DisposersOK, Kind
    <3> QED
      BY <3>1, <3>2
  <2>4. \A u \in TaskIds' : tasks'[u].kind = "terminate" => mode # "running"
    BY <1>6, <1>8, <2>2 DEF IInv, DisposersOK, Kind
  <2> QED
    BY <1>1, <1>8, <1>14, <2>3, <2>4 DEF IInv, DisposersOK, Kind
<1>19. Owners'
  BY <1>1, <1>6, <1>10, <1>12 DEF IInv, Owners
<1>20. Inserting'
  BY <1>1, <1>6, <1>8, <1>13, <1>15 DEF Inserting, HeldByDispatch, State, IsTimer
<1>21. Dispatching'
  BY <1>1, <1>6, <1>8, <1>15, <1>7 DEF IInv, Dispatching, Pc
<1>22. Scheduled'
  <2>1. \A u \in TaskIds : IsTimer(u) => tasks[u].id < executor.nextId
    BY <1>9 DEF IInv, Scheduled, Threads
  <2>2. \A u \in TaskIds : tasks[u].id \in Nat
    <3>1. \A u \in TaskIds : tasks[u] \in TaskRecord
      BY DEF IInv, Types, TaskIds
    <3> QED
      BY <3>1 DEF TaskRecord
  <2>3. \A u \in TaskIds : IsTimer(u)' <=> IsTimer(u)
    BY <1>6 DEF IsTimer
  <2>4. \A u \in TaskIds : IsTimer(u) => tasks[u].id # executor.nextId
    BY <1>3, <2>1, <2>2
  <2>5. tasks'[t].kind \in TimerKinds =>
          /\ tasks'[t].id = executor.nextId
          /\ Pc(Worker)' = "insert" /\ thread'[Worker].task = t
    BY <1>6, <1>7, <1>8 DEF Pc
  <2>6. \A u \in TaskIds' : tasks'[u].kind \in TimerKinds =>
          \/ tasks'[u].id < executor.nextId
          \/ Pc(Worker)' = "insert" /\ thread'[Worker].task = u
    BY <1>6, <2>1, <2>5 DEF IsTimer
  <2>7. \A a, b \in TaskIds' :
          tasks'[a].kind \in TimerKinds /\ tasks'[b].kind \in TimerKinds /\ tasks'[a].id = tasks'[b].id
          => a = b
    BY <1>6, <2>4, <2>5 DEF IInv, Scheduled, IsTimer
  <2>8. \A u \in TaskIds : tasks'[u].kind = tasks[u].kind /\ tasks'[u].id = tasks[u].id
    BY <1>6
  <2>9. \A i \in DOMAIN executor.schedule : executor.schedule[i] \in TaskIds
    BY <1>12 DEF IInv, Scheduled
  <2> QED
    BY <1>1, <1>12, <2>6, <2>7, <2>8, <2>9 DEF IInv, Scheduled, IsTimer
<1>23. Starts'
  <2>1. \A u \in TaskIds : tasks'[u].state = tasks[u].state
    BY <1>6
  <2>2. dispatch.running # t
    BY <1>13 DEF HeldByDispatch
  <2>3. Pc(Worker)' = "last" <=> Pc(Worker) = "last"
    BY <1>7, <1>8, <1>15 DEF Pc
  <2>4. \A o \in Threads : Pc(o)' \in {"await", "release"} =>
          Pc(o) = Pc(o)' /\ thread'[o].task = thread[o].task /\ thread[o].task \in TaskIds
    BY <1>7, <1>9, <1>15 DEF Pc
  <2>5. Pc(th)' = "insert" /\ thread'[th].task = t
    BY <1>7 DEF Pc
  <2>6. \A u \in TaskIds : State(u) = "initial" =>
          u \in executor.tasks \/ \E o \in Threads : WillCancel(o, u)'
    BY <1>9, <1>11 DEF IInv, Starts
  <2>7. /\ \A u \in TaskIds' : u \in started <=> tasks'[u].state \in {"running", "done"}
        /\ \A u \in TaskIds' : tasks'[u].state = "running" <=> u = dispatch.running /\ Pc(Worker)' # "last"
    BY <1>6, <1>12, <2>1, <2>2, <2>3 DEF IInv, Starts, State
  <2>8. \A u \in TaskIds' : tasks'[u].state = "initial" =>
          \/ u \in executor.tasks
          \/ \E o \in Threads : WillCancel(o, u)' \/ (Pc(o)' = "insert" /\ thread'[o].task = u)
    BY <1>6, <2>1, <2>5, <2>6 DEF State
  <2>9. \A o \in Threads :
          /\ Pc(o)' \in {"await", "release"} => tasks'[thread'[o].task].state # "initial"
          /\ Pc(o)' = "release" /\ o # Worker => tasks'[thread'[o].task].state # "running"
    BY <2>1, <2>4 DEF IInv, Starts, State
  <2>10. started \subseteq TaskIds'
    BY <1>6, <1>12
  <2> QED
    BY <1>1, <2>7, <2>8, <2>9, <2>10 DEF Starts, State
<1>24. Cancelling'
  <2>1. \A u \in TaskIds : tasks'[u].state = tasks[u].state
    BY <1>6
  <2>2. Pc(Worker)' = "cancel" <=> Pc(Worker) = "cancel"
    BY <1>7, <1>8, <1>15 DEF Pc
  <2>3. Pc(Worker)' = "cancel" => thread'[Worker].task = thread[Worker].task
    BY <1>7, <1>15 DEF Pc
  <2> QED
    BY <1>1, <1>6, <2>1, <2>2, <2>3 DEF IInv, Cancelling, State
<1>25. Ending'
  <2> SUFFICES ASSUME Terminating PROVE Ending'
    BY <1>14 DEF Ending
  <2>1. kind # "timer"
    BY <1>14 DEF TimerKinds
  <2>2. \A u \in TaskIds : tasks'[u].state = tasks[u].state /\ tasks'[u].kind = tasks[u].kind
    BY <1>6
  <2>3. \A o \in Disposers : \A u : Pc(o) = "await" /\ thread[o].task = u =>
          Pc(o)' = "await" /\ thread'[o].task = u
    BY <1>8, <1>15
  <2>4. TaskIds' = TaskIds \cup {t} /\ tasks'[t].kind # "timer" /\ tasks'[t].state # "running"
    BY <1>6, <2>1
  <2> QED
    BY <1>1, <1>11, <1>15, <2>2, <2>3, <2>4 DEF IInv, Ending, State, Kind
<1>26. Counts'
  <2>1. \A u \in TaskIds : tasks'[u].refs = tasks[u].refs /\ u # t
    BY <1>5, <1>6
  <2>2. \A u \in TaskIds : \A o \in Threads : Holds(o, u)' <=> Holds(o, u)
    BY <1>10, <2>1
  <2>3. /\ tasks'[t].refs = 1 /\ t \notin executor.tasks
        /\ \A u : u = t => Holds(th, u)' /\ ~(HeldByDispatch(u)')
    BY <1>6, <1>10, <1>12, <1>13
  <2> QED
    BY <1>1, <1>6, <1>13, <2>1, <2>2, <2>3 DEF IInv, Counts
<1> QED
  BY <1>1, <1>16, <1>17, <1>18, <1>19, <1>20, <1>21, <1>22, <1>23, <1>24, <1>25, <1>26
     DEF IInv

-----------------------------------------------------------------------------
(* The queue                                                                 *)

\* The state in which a client starts satisfies the invariant.
LEMMA InitHolds ==
  Init => IInv
<1> SUFFICES ASSUME Init PROVE IInv
  OBVIOUS
<1>1. /\ tasks = <<>> /\ TaskIds = {} /\ dispatch.ready = <<>> /\ DOMAIN dispatch.ready = {}
      /\ Range(dispatch.ready) = {} /\ dispatch.timers = {} /\ dispatch.running = NoTask
      /\ executor.tasks = {} /\ DOMAIN executor.schedule = {} /\ ~executor.disposed
      /\ started = {} /\ cancelled = {} /\ ignored = {} /\ mode = "running"
      /\ lock = NoThread /\ failed = {}
      /\ \A th \in Threads : /\ Pc(th) = "idle" /\ thread[th].rest = {}
                             /\ thread[th].task = NoTask
  BY DEF Init, TaskIds, Range, AtRest, Pc
<1>2. Types
  <2>1. <<>> \in [{} -> Nat]
    OBVIOUS
  <2>2. <<>> \in Schedules
    BY <2>1 DEF Schedules
  <2>3. AtRest \in ThreadRecord
    BY DEF AtRest, ThreadRecord, Places, NoTask
  <2>4. /\ mode \in {"running", "restricted", "disposed"} /\ lock \in Threads \cup {NoThread}
        /\ tasks \in Seq(TaskRecord) /\ disposed \in BOOLEAN
    <3>1. <<>> \in Seq(TaskRecord)
      OBVIOUS
    <3> QED
      BY <3>1 DEF Init
  <2>5. executor \in [tasks : SUBSET Nat, schedule : Schedules, nextId : Nat, disposed : BOOLEAN]
    BY <2>2 DEF Init
  <2>6. dispatch \in [ready : Seq(Nat), timers : SUBSET Nat, running : Nat]
    <3>1. <<>> \in Seq(Nat) /\ {} \in SUBSET Nat /\ NoTask \in Nat
      BY DEF NoTask
    <3>2. dispatch = [ready |-> <<>>, timers |-> {}, running |-> NoTask]
      BY DEF Init
    <3> QED
      BY <3>1, <3>2
  <2>7. thread \in [Threads -> ThreadRecord]
    BY <2>3 DEF Init
  <2> QED
    BY <2>4, <2>5, <2>6, <2>7 DEF Types
<1>3. ThreadsOK /\ Inserting
  BY <1>1, ThreadsAssumption DEF ThreadsOK, Inserting, Threads
<1>4. ~Terminating
  BY <1>1 DEF Terminating
<1>5. DisposersOK /\ Ending
  BY <1>1, <1>4 DEF DisposersOK, Ending, Threads
<1>6. Owners /\ Counts
  BY <1>1 DEF Owners, Counts, Holds
<1>7. Dispatching /\ Scheduled /\ Starts /\ Cancelling
  BY <1>1 DEF Dispatching, Scheduled, Starts, Cancelling, Once, Threads
<1> QED
  BY <1>1, <1>2, <1>3, <1>5, <1>6, <1>7 DEF IInv

\* Every step of every thread preserves it.
LEMMA NextKeeps ==
  IInv /\ [Next]_vars => IInv'
<1> SUFFICES ASSUME IInv, [Next]_vars PROVE IInv'
  OBVIOUS
<1>1. ASSUME NEW th \in Callers, Enqueue(th) PROVE IInv'
  BY <1>1, CreateKeeps DEF Enqueue, At, Pc, TaskKinds, Threads
<1>2. ASSUME NEW th \in Disposers, Dispose(th) PROVE IInv'
  BY <1>2, DisposeKeeps
<1>3. ASSUME NEW th \in Threads, Proceed(th) PROVE IInv'
  <2>1. ASSUME EnqueueTerminate(th) PROVE IInv'
    <3>1. Pc(th) = "terminate" /\ mode # "disposed" /\ Create(th, "terminate")
      BY <2>1 DEF EnqueueTerminate, At, Pc
    <3>2. th \in Disposers
      BY <3>1 DEF IInv, ThreadsOK, Threads
    <3> QED
      BY <3>1, <3>2, CreateKeeps DEF TaskKinds
  <2> QED
    BY <1>3, <2>1, InsertKeeps, DispatchKeeps, TaskCancelKeeps, AwaitKeeps, ReleaseKeeps,
       SkipTerminateKeeps, WaitStartKeeps, DisposeQueueKeeps, SwapKeeps, DrainNextKeeps,
       DisposeReturnsKeeps DEF Proceed
<1>4. ASSUME EnqueueAfterDelay PROVE IInv'
  <2>1. PICK kind \in TimerKinds : Create(Worker, kind)
    BY <1>4 DEF EnqueueAfterDelay
  <2>2. Pc(Worker) = "operation" /\ mode = "running" /\ Worker \in Threads
    BY <1>4 DEF EnqueueAfterDelay, At, Pc, Threads
  <2> QED
    BY <2>1, <2>2, CreateKeeps DEF TaskKinds
<1>5. ASSUME NEW t \in TaskIds, Cancel(t) PROVE IInv'
  BY <1>5, CancelKeeps
<1>6. ASSUME NEW t \in TaskIds, TimerIsDue(t) PROVE IInv'
  BY <1>6, TimerIsDueKeeps
<1>7. ASSUME UNCHANGED vars PROVE IInv'
  <2>1. /\ mode' = mode /\ lock' = lock /\ tasks' = tasks /\ executor' = executor
        /\ dispatch' = dispatch /\ thread' = thread /\ started' = started
        /\ cancelled' = cancelled /\ ignored' = ignored /\ disposed' = disposed
        /\ failed' = failed
    BY <1>7 DEF vars
  <2>2. Types' /\ ThreadsOK' /\ Owners' /\ Dispatching' /\ Scheduled'
    BY <2>1 DEF IInv, Types, ThreadsOK, Owners, Holds, Dispatching, Scheduled, Pc, TaskIds, IsTimer
  <2>3. DisposersOK' /\ Inserting' /\ Starts'
    BY <2>1 DEF IInv, DisposersOK, Inserting, Starts, Pc, Kind, State, Terminating, TaskIds,
                IsTimer, HeldByDispatch, WillCancel
  <2>4. Cancelling' /\ Ending' /\ Counts'
    BY <2>1 DEF IInv, Cancelling, Ending, Counts, Pc, State, Kind, Terminating, WillCancel, Holds,
                HeldByDispatch, TaskIds
  <2> QED
    BY <2>1, <2>2, <2>3, <2>4 DEF IInv
<1> QED
  BY <1>1, <1>2, <1>3, <1>4, <1>5, <1>6, <1>7, StartKeeps, FinishKeeps, ReleaseLastKeeps
     DEF Next, Operation

\* executor.h:173: a timer that was cancelled by its handle never starts, whatever the
\* other threads do.
THEOREM CancelledTimersNeverStart ==
  Spec => []CancelledNeverStarts
<1>1. IInv => CancelledNeverStarts
  BY DEF IInv, Cancelling, CancelledNeverStarts
<1> QED
  BY <1>1, InitHolds, NextKeeps, PTL DEF Spec

\* task.h: the count of a task is the number of its holders, also when two threads
\* dispose of the queue at once; and no task is touched after it was deleted.
LEMMA CountsAreHolders ==
  ASSUME IInv, NEW t \in TaskIds
  PROVE  tasks[t].refs = Cardinality(HeldByCalls(t))
                       + (IF t \in executor.tasks THEN 1 ELSE 0)
                       + (IF HeldByDispatch(t) THEN 1 ELSE 0)
<1>1. HeldByCalls(t) = {th \in Threads : Holds(th, t)}
  BY DEF HeldByCalls, Holds, Pc
<1>2. CASE \E th \in Threads : Holds(th, t)
  <2>1. PICK th \in Threads : Holds(th, t)
    BY <1>2
  <2>2. HeldByCalls(t) = {th} /\ t \notin executor.tasks
    BY <1>1, <2>1 DEF IInv, Owners
  <2>3. Cardinality(HeldByCalls(t)) = 1
    BY <2>2, FS_Singleton
  <2> QED
    BY <1>2, <2>2, <2>3 DEF IInv, Counts
<1>3. CASE ~\E th \in Threads : Holds(th, t)
  <2>1. HeldByCalls(t) = {}
    BY <1>1, <1>3
  <2>2. Cardinality(HeldByCalls(t)) = 0
    BY <2>1, FS_EmptySet
  <2> QED
    BY <1>3, <2>2 DEF IInv, Counts
<1> QED
  BY <1>2, <1>3

-----------------------------------------------------------------------------
(* One thread disposes of the queue                                          *)

\* Only th moves, and the executor stays disposed of.
OnlyMoves(th) ==
  /\ \A o \in Threads : o # th => thread'[o] = thread[o]
  /\ executor.disposed => executor'.disposed

\* A caller that enqueues.
LEMMA CallerSteps ==
  ASSUME IInv, NEW th \in Callers, Enqueue(th)
  PROVE  OnlyMoves(th) /\ disposers' = disposers /\ disposed' = disposed /\ failed' = failed
BY DEF IInv, Types, Enqueue, Create, history, OnlyMoves

\* A thread within a call; only DisposeReturns ends a disposal.
LEMMA ProceedSteps ==
  ASSUME IInv, NEW th \in Threads, Proceed(th)
  PROVE  /\ OnlyMoves(th) /\ disposers' = disposers /\ Pc(th) # "idle"
         /\ disposed' = disposed \/ DisposeReturns(th)
         /\ failed' \subseteq failed \cup {"use_after_free"}
<1>1. ASSUME Insert(th) \/ EnqueueTerminate(th)
      PROVE  OnlyMoves(th) /\ UNCHANGED <<disposers, disposed, failed>> /\ Pc(th) # "idle"
  <2>1. CASE Insert(th)
    BY <2>1 DEF IInv, Types, Insert, At, Pc, Go, Return, history, OnlyMoves
  <2>2. CASE EnqueueTerminate(th)
    BY <2>2 DEF IInv, Types, EnqueueTerminate, Create, At, Pc, history, OnlyMoves
  <2> QED
    BY <1>1, <2>1, <2>2
<1>2. ASSUME Dispatch(th) \/ TaskCancel(th) \/ Release(th)
      PROVE  /\ OnlyMoves(th) /\ UNCHANGED <<disposers, disposed>> /\ Pc(th) # "idle"
             /\ failed' \subseteq failed \cup {"use_after_free"}
  BY <1>2 DEF IInv, Types, Dispatch, TaskCancel, Release, At, Pc, Go, Live, history, OnlyMoves
<1>3. ASSUME Await(th) \/ SkipTerminate(th) \/ WaitStart(th) \/ DisposeQueue(th)
      PROVE  OnlyMoves(th) /\ UNCHANGED <<disposers, disposed, failed>> /\ Pc(th) # "idle"
  BY <1>3 DEF IInv, Types, Await, SkipTerminate, WaitStart, DisposeQueue, At, Pc, Go, history,
              OnlyMoves
<1>4. ASSUME Swap(th) \/ DrainNext(th)
      PROVE  OnlyMoves(th) /\ UNCHANGED <<disposers, disposed, failed>> /\ Pc(th) # "idle"
  BY <1>4 DEF IInv, Types, Swap, DrainNext, At, Pc, history, OnlyMoves
<1>5. ASSUME DisposeReturns(th)
      PROVE  OnlyMoves(th) /\ UNCHANGED <<disposers, failed>> /\ Pc(th) # "idle"
  BY <1>5 DEF IInv, Types, DisposeReturns, At, Pc, OnlyMoves
<1> QED
  BY <1>1, <1>2, <1>3, <1>4, <1>5 DEF Proceed

\* The worker, but for the end of an operation, and libdispatch.
LEMMA WorkerSteps ==
  ASSUME IInv, Operation \/ Start \/ ReleaseLast \/ (\E t \in TaskIds : TimerIsDue(t))
  PROVE  /\ OnlyMoves(Worker) /\ disposers' = disposers /\ disposed' = disposed
         /\ failed' \subseteq failed \cup {"use_after_free"}
<1> USE DEF OnlyMoves, IInv, Types, history
<1>1. ASSUME EnqueueAfterDelay
      PROVE  OnlyMoves(Worker) /\ disposers' = disposers /\ disposed' = disposed /\ failed' = failed
  BY <1>1 DEF EnqueueAfterDelay, Create
<1>2. ASSUME NEW t \in TaskIds, Cancel(t)
      PROVE  OnlyMoves(Worker) /\ disposers' = disposers /\ disposed' = disposed /\ failed' = failed
  BY <1>2 DEF Cancel
<1>3. ASSUME Start \/ ReleaseLast
      PROVE  /\ OnlyMoves(Worker) /\ disposers' = disposers /\ disposed' = disposed
             /\ failed' \subseteq failed \cup {"use_after_free"}
  BY <1>3 DEF Start, ReleaseLast, Go, Live
<1>4. ASSUME NEW t \in TaskIds, TimerIsDue(t)
      PROVE  OnlyMoves(Worker) /\ disposers' = disposers /\ disposed' = disposed /\ failed' = failed
  BY <1>4 DEF TimerIsDue
<1> QED
  BY <1>1, <1>2, <1>3, <1>4 DEF Operation

\* async_queue.cc:145: once the disposal has returned, no task runs and only one that
\* the worker itself is about to cancel could start.
LEMMA DisposedRunsNothing ==
  ASSUME SingleInv, disposed
  PROVE  /\ \A t \in TaskIds : State(t) # "running"
         /\ \A t \in TaskIds : State(t) = "initial" => WillCancel(Worker, t)
         /\ mode = "disposed" /\ executor.tasks = {} /\ \A th \in Disposers : \A t : ~Holds(th, t)
         /\ \A th \in Threads : Pc(th) \notin {"insert", "dispatch"}
<1>1. /\ executor.disposed /\ mode = "disposed" /\ executor.tasks = {} /\ lock = NoThread
      /\ Terminating /\ IInv /\ \A th \in Disposers : \A t : ~Holds(th, t)
  BY DEF SingleInv, IInv, Quiet, DisposersOK
<1>2. \A th \in Threads : Pc(th) \notin {"insert", "dispatch"}
  BY <1>1, ThreadsAssumption DEF IInv, ThreadsOK, Threads
<1>3. \A th \in Disposers : \A t : ~WillCancel(th, t) /\ ~(Pc(th) = "await" /\ thread[th].task = t)
  BY <1>1 DEF WillCancel, Holds
<1>4. \A th \in Callers : \A t : ~WillCancel(th, t)
  BY <1>1, ThreadsAssumption DEF WillCancel, IInv, ThreadsOK, Threads
<1>5. \A t \in TaskIds : State(t) # "running"
  BY <1>1, <1>3 DEF IInv, Ending
<1>6. \A t \in TaskIds : State(t) = "initial" => WillCancel(Worker, t)
  BY <1>1, <1>2, <1>3, <1>4 DEF IInv, Starts, Threads
<1> QED
  BY <1>1, <1>2, <1>5, <1>6

\* So no operation that ends calls into an executor that may be gone.
LEMMA FinishSteps ==
  ASSUME SingleInv, Finish
  PROVE  OnlyMoves(Worker) /\ disposers' = disposers /\ disposed' = disposed /\ failed' = failed
<1>1. /\ IInv /\ Pc(Worker) = "operation" /\ dispatch.running \in TaskIds
  BY DEF SingleInv, IInv, Finish, At, Pc, Dispatching
<1>2. State(dispatch.running) = "running"
  BY <1>1 DEF IInv, Starts
<1>3. ~disposed
  BY <1>1, <1>2, DisposedRunsNothing
<1> QED
  BY <1>1, <1>3 DEF IInv, Types, Finish, Go, history, OnlyMoves

\* A disposer that has returned leaves nothing, and no other one can be at it.
LEMMA DisposerStaysQuiet ==
  ASSUME SingleInv, NEW th \in Disposers, Dispose(th) \/ Proceed(th), Single'
  PROVE  Quiet'
<1>1. /\ IInv /\ th \in Threads /\ th # Worker
  BY ThreadsAssumption DEF SingleInv, Threads
<1>2. ASSUME DisposeReturns(th) PROVE Quiet'
  <2>1. /\ Pc(th) = "drain" /\ executor' = executor /\ thread' = [thread EXCEPT ![th] = AtRest]
    BY <1>2 DEF DisposeReturns, At, Pc
  <2>2. executor.disposed
    BY <1>1, <2>1 DEF IInv, DisposersOK
  <2>3. /\ \A o \in Threads : o # th => thread'[o] = thread[o]
        /\ thread'[th] = AtRest
    BY <1>1, <2>1 DEF IInv, Types
  <2>4. \A o \in Disposers : o # th => Pc(o) = "idle" /\ thread[o].rest = {}
    BY <1>1, <2>1, ThreadsAssumption DEF SingleInv, Single, Inactive, IInv, ThreadsOK, Threads
  <2>5. \A o \in Disposers : \A t : ~(Holds(o, t)')
    BY <2>3, <2>4 DEF Holds, Pc, AtRest, Threads
  <2> QED
    BY <2>1, <2>2, <2>5 DEF Quiet
<1>3. ASSUME ~DisposeReturns(th) PROVE Quiet'
  <2>1. disposed' = disposed
    BY <1>1, <1>3, ProceedSteps DEF Dispose
  <2> SUFFICES ASSUME disposed PROVE executor'.disposed /\ \A o \in Disposers : \A t : ~(Holds(o, t)')
    BY <2>1 DEF Quiet
  <2>2. /\ mode = "disposed" /\ executor.tasks = {} /\ executor.disposed
        /\ \A o \in Disposers : \A t : ~Holds(o, t)
    BY DisposedRunsNothing DEF SingleInv, Quiet
  <2>3. /\ Pc(th) \notin {"insert", "dispatch", "cancel", "await", "release"}
        /\ thread[th].rest = {}
    BY <1>1, <2>2, DisposedRunsNothing DEF Holds
  <2>4. /\ \A o \in Threads : o # th => thread'[o] = thread[o]
        /\ executor'.disposed
        /\ thread'[th].rest = {}
        /\ thread'[th].pc \in {"terminate", "dispose", "swap", "drain"}
    <3>1. ASSUME Dispose(th) \/ SkipTerminate(th) \/ WaitStart(th) \/ DisposeQueue(th)
          PROVE  \E p \in {"terminate", "dispose", "swap"} : Go(th, p) /\ executor' = executor
      BY <3>1 DEF Dispose, SkipTerminate, WaitStart, DisposeQueue
    <3>2. CASE Dispose(th) \/ SkipTerminate(th) \/ WaitStart(th) \/ DisposeQueue(th)
      BY <1>1, <2>2, <2>3, <3>1, <3>2, GoMoves DEF Moved, IInv, Places
    <3>3. CASE Swap(th)
      <4>1. thread' = [thread EXCEPT ![th].pc = "drain", ![th].rest = {}]
        BY <2>2, <3>3 DEF Swap, Take
      <4>2. thread \in [Threads -> ThreadRecord]
        BY <1>1 DEF IInv, Types
      <4>3. OnlyMoves(th)
        BY <1>1, <3>3, ProceedSteps DEF Proceed
      <4>4. thread'[th].rest = {} /\ thread'[th].pc = "drain"
        BY <1>1, <4>1, <4>2 DEF ThreadRecord
      <4> QED
        BY <2>2, <4>3, <4>4 DEF OnlyMoves
    <3>4. ~DrainNext(th) /\ ~EnqueueTerminate(th)
      BY <2>2, <2>3 DEF DrainNext, EnqueueTerminate
    <3>5. /\ ~Insert(th) /\ ~Dispatch(th) /\ ~TaskCancel(th) /\ ~Await(th) /\ ~Release(th)
      BY <2>3 DEF Insert, Dispatch, TaskCancel, Await, Release, At, Pc
    <3> QED
      BY <1>3, <3>2, <3>3, <3>4, <3>5 DEF Proceed
  <2>5. \A o \in Disposers : \A t : ~(Holds(o, t)')
    BY <2>2, <2>4 DEF Holds, Pc, Threads
  <2> QED
    BY <2>4, <2>5
<1> QED
  BY <1>2, <1>3

\* A step of another thread leaves the disposers alone.
LEMMA OthersStayQuiet ==
  ASSUME SingleInv, NEW th \in Threads, th \notin Disposers, OnlyMoves(th),
         disposers' = disposers, disposed' = disposed
  PROVE  Single' /\ Quiet'
<1>1. \A o \in Disposers : o \in Threads /\ thread'[o] = thread[o]
  BY DEF OnlyMoves, Threads
<1>2. \A o \in Disposers : Pc(o)' = Pc(o) /\ \A t : Holds(o, t)' <=> Holds(o, t)
  BY <1>1 DEF Holds, Pc
<1>3. Single'
  BY <1>2 DEF SingleInv, Single, Inactive
<1>4. Quiet'
  BY <1>2 DEF SingleInv, Quiet, OnlyMoves
<1> QED
  BY <1>3, <1>4

\* The invariant of a client that one thread disposes of.
LEMMA SingleKeeps ==
  SingleInv /\ [Next]_vars => SingleInv'
<1> SUFFICES ASSUME SingleInv, [Next]_vars PROVE SingleInv'
  OBVIOUS
<1>1. IInv /\ IInv' /\ failed = {} /\ "use_after_free" \notin failed'
  BY NextKeeps DEF SingleInv, IInv
<1>2. ASSUME NEW th \in Callers, Enqueue(th) PROVE Single' /\ Quiet' /\ failed' = {}
  BY <1>1, <1>2, CallerSteps, OthersStayQuiet, ThreadsAssumption DEF Threads
<1>3. ASSUME NEW th \in Disposers, Dispose(th) PROVE Single' /\ Quiet' /\ failed' = {}
  <2>1. /\ disposers' = [disposers EXCEPT ![th] = @ - 1] /\ failed' = failed
        /\ disposers[th] > 0 /\ thread' = [thread EXCEPT ![th].pc = "terminate"]
    BY <1>3 DEF Dispose, Go
  <2>2. /\ DOMAIN disposers = Disposers
        /\ \A o \in Disposers : o # th => disposers[o] = 0 /\ Pc(o) = "idle"
    BY <2>1 DEF SingleInv, Single, Inactive
  <2>3. /\ DOMAIN disposers' = Disposers
        /\ \A o \in Disposers : o # th => disposers'[o] = 0 /\ Pc(o)' = "idle"
    BY <1>1, <2>1, <2>2 DEF IInv, Types, Pc, Threads
  <2>4. Single'
    BY <2>3 DEF Single, Inactive
  <2> QED
    BY <1>1, <1>3, <2>1, <2>4, DisposerStaysQuiet
<1>4. ASSUME NEW th \in Threads, Proceed(th) PROVE Single' /\ Quiet' /\ failed' = {}
  <2>1. /\ OnlyMoves(th) /\ disposers' = disposers /\ Pc(th) # "idle"
        /\ disposed' = disposed \/ DisposeReturns(th)
        /\ failed' \subseteq failed \cup {"use_after_free"}
    BY <1>1, <1>4, ProceedSteps
  <2>2. failed' = {}
    BY <1>1, <2>1
  <2>3. CASE th \in Disposers
    <3>1. \A o \in Disposers : o # th => Inactive(o) /\ Pc(o)' = Pc(o)
      BY <2>1, <2>3 DEF SingleInv, Single, Inactive, OnlyMoves, Pc, Threads
    <3>2. Single'
      BY <2>1, <3>1 DEF SingleInv, Single, Inactive
    <3> QED
      BY <1>4, <2>2, <2>3, <3>2, DisposerStaysQuiet
  <2>4. CASE th \notin Disposers
    <3>1. ~DisposeReturns(th)
      BY <1>1, <2>4 DEF DisposeReturns, At, IInv, ThreadsOK, Pc, Threads
    <3> QED
      BY <2>1, <2>2, <2>4, <3>1, OthersStayQuiet
  <2> QED
    BY <2>3, <2>4
<1>5. Worker \in Threads /\ Worker \notin Disposers
  BY ThreadsAssumption DEF Threads
<1>6. ASSUME Operation \/ Start \/ ReleaseLast \/ (\E t \in TaskIds : TimerIsDue(t))
      PROVE  Single' /\ Quiet' /\ failed' = {}
  <2>1. /\ OnlyMoves(Worker) /\ disposers' = disposers /\ disposed' = disposed
        /\ failed' \subseteq failed \cup {"use_after_free"}
    BY <1>1, <1>6, WorkerSteps
  <2>2. Single' /\ Quiet'
    BY <1>5, <2>1, OthersStayQuiet
  <2> QED
    BY <1>1, <2>1, <2>2
<1>7. ASSUME Finish PROVE Single' /\ Quiet' /\ failed' = {}
  BY <1>1, <1>5, <1>7, FinishSteps, OthersStayQuiet
<1>8. ASSUME UNCHANGED vars PROVE Single' /\ Quiet' /\ failed' = {}
  BY <1>1, <1>8
     DEF vars, SingleInv, Single, Quiet, Inactive, Holds, Pc
<1> QED
  BY <1>1, <1>2, <1>3, <1>4, <1>6, <1>7, <1>8 DEF Next, SingleInv

\* Init satisfies it.
LEMMA SingleInit ==
  Init /\ Single => SingleInv
<1>1. Init => ~disposed /\ failed = {}
  BY DEF Init
<1> QED
  BY <1>1, InitHolds DEF SingleInv, Quiet

\* task.h: the count of a task is the number of those that hold it, so that none leaks and
\* none is touched after it was deleted, and no task calls into an executor whose disposal
\* has returned, if one thread disposes of the queue.
THEOREM TasksAreCounted ==
  Spec /\ Single => []RefsAreHolders
<1>1. SingleInv => RefsAreHolders
  BY CountsAreHolders DEF SingleInv, RefsAreHolders
<1> QED
  BY <1>1, SingleInit, SingleKeeps, PTL DEF Spec

\* async_queue.cc:145: an operation either executes before the disposal completes or not at
\* all, if one thread disposes of the queue.
THEOREM NothingRunsAfterDispose ==
  Spec /\ Single => DisposedIsQuiet
<1>1. SingleInv => (disposed => \A t \in TaskIds : tasks[t].state # "running")
  BY DisposedRunsNothing DEF State
<1>2. SingleInv /\ [Next]_vars => [disposed => started' = started]_vars
  <2> SUFFICES ASSUME SingleInv, Next, disposed PROVE started' = started
    BY DEF vars
  <2>1. ASSUME Start PROVE started' = started
    <3>1. IInv /\ Pc(Worker) = "idle" /\ dispatch.ready # <<>>
      BY <2>1 DEF SingleInv, Start, At, Pc
    <3>2. Head(dispatch.ready) \in TaskIds
      <4>1. dispatch.ready \in Seq(Nat) /\ Range(dispatch.ready) \subseteq TaskIds
        BY <3>1 DEF IInv, Types, Dispatching
      <4> QED
        BY <3>1, <4>1, ReadyShrinks
    <3>3. \A t : ~WillCancel(Worker, t)
      BY <3>1 DEF IInv, ThreadsOK, WillCancel, Threads
    <3>4. State(Head(dispatch.ready)) # "initial"
      BY <3>2, <3>3, DisposedRunsNothing
    <3> QED
      BY <2>1, <3>4 DEF Start, State
  <2>2. ASSUME NEW th \in Threads, Proceed(th) PROVE started' = started
    BY <2>2 DEF Proceed, Insert, Dispatch, TaskCancel, Await, Release, EnqueueTerminate,
                SkipTerminate, WaitStart, DisposeQueue, Swap, DrainNext, DisposeReturns, Create,
                history
  <2>3. ASSUME NEW th \in Callers, Enqueue(th) PROVE started' = started
    BY <2>3 DEF Enqueue, Create, history
  <2>4. ASSUME NEW th \in Disposers, Dispose(th) PROVE started' = started
    BY <2>4 DEF Dispose
  <2>5. ASSUME Operation \/ Finish \/ ReleaseLast \/ (\E t \in TaskIds : TimerIsDue(t))
        PROVE  started' = started
    BY <2>5 DEF Operation, EnqueueAfterDelay, Create, Cancel, Finish, ReleaseLast, TimerIsDue,
                history
  <2> QED
    BY <2>1, <2>2, <2>3, <2>4, <2>5 DEF Next
<1> QED
  BY <1>1, <1>2, SingleInit, SingleKeeps, PTL DEF Spec, DisposedIsQuiet
=============================================================================
