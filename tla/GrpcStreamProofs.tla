--------------------------- MODULE GrpcStreamProofs ---------------------------
(* No callback reaches a stream that was shut down, no operation is issued    *)
(* while gRPC does not admit it, and messages flow in order: for every number *)
(* of messages and every order in which gRPC completes operations.            *)
EXTENDS GrpcStream, SequenceTheorems, TLAPS

Streams == [phase : {"new", "open", "destroyed"}, observer : BOOLEAN, registered : BOOLEAN,
            finished : BOOLEAN, completions : SUBSET Nat, writes : Seq(Nat),
            active : BOOLEAN]
Kinds   == {"read", "write", "finish"}
Ops     == [kind : Kinds, message : Nat, off : BOOLEAN, callback : BOOLEAN]
Calls   == [state : {"idle", "live", "broken"}, pending : SUBSET Nat]
Entries == [op : Nat, ok : BOOLEAN]
Logs    == [written : Nat, wire : Seq(Nat), sent : Nat, read : Seq(Nat), finishes : Nat]

\* The state as the operations change it, when nothing has failed.
States == [s : Streams, o : Seq(Ops), c : Calls, f : {{}}]

\* What gRPC has given back and the worker has not seen.
Arrived(q, p) == {q[k] : k \in DOMAIN q} \cup (IF p = NoOp THEN {} ELSE {p})

\* It is there once.
Distinct(q, p) ==
  /\ \A j, k \in DOMAIN q : q[j].op = q[k].op => j = k
  /\ \A k \in DOMAIN q : q[k].op # p.op /\ q[k].op # 0
  /\ p.op = 0 <=> p = NoOp

\* A completion of the stream is with gRPC or has arrived, and its callback is in
\* place; what has arrived for no completion of the stream has none.
Tracked(x, A) ==
  /\ x.c.pending \subseteq x.s.completions
  /\ \A i \in x.s.completions :
       /\ i \in DOMAIN x.o /\ x.o[i].callback
       /\ x.o[i].off => \E e \in A : e.op = i
       /\ ~x.o[i].off <=> i \in x.c.pending
  /\ \A e \in A : /\ e.op \in DOMAIN x.o /\ x.o[e.op].off
                  /\ x.o[e.op].callback => e.op \in x.s.completions

\* One read and one write at a time.
OneEach(x) ==
  /\ \A i, j \in x.s.completions :
       x.o[i].kind = x.o[j].kind /\ x.o[i].kind \in {"read", "write"} => i = j
  /\ ~x.s.active => \A i \in x.s.completions : x.o[i].kind # "write"

\* The messages that wait are the last that were written; before them the active
\* write has its message; before it are those on the wire. What was read and is
\* not delivered is the message of the read that has arrived.
Flows(x, A, l) ==
  /\ x.s.writes = [k \in 1..Len(x.s.writes) |-> l.written - Len(x.s.writes) + k]
  /\ ~x.s.active => l.written - Len(x.s.writes) = Len(l.wire)
  /\ \A i \in x.c.pending :
       /\ x.o[i].kind = "write" => /\ x.o[i].message = Len(l.wire) + 1
                                   /\ l.written - Len(x.s.writes) = Len(l.wire) + 1
       /\ x.o[i].kind = "read" => l.sent = Len(l.read)
  /\ \A e \in A : e.ok /\ x.o[e.op].callback =>
       /\ x.o[e.op].kind = "write" => l.written - Len(x.s.writes) = Len(l.wire)
       /\ x.o[e.op].kind = "read" => /\ x.o[e.op].message = Len(l.read) + 1
                                     /\ l.sent = Len(l.read) + 1

\* A message waits only for an active write, which is one of the completions
\* until the call fails.
Waits(x) ==
  /\ x.s.writes # <<>> => x.s.active
  /\ x.s.active /\ ~x.s.finished => \E i \in x.s.completions : x.o[i].kind = "write"

\* What issuing operations leaves as it is.
Same(x, y) == /\ y.s.phase = x.s.phase /\ y.s.observer = x.s.observer
              /\ y.s.finished = x.s.finished

\* All of it.
Good(x, A, l) == x \in States /\ Tracked(x, A) /\ OneEach(x) /\ Flows(x, A, l)

\* What issuing operations keeps.
Keeps(x, y, A, l) == Good(y, A, l) /\ Waits(y) /\ Same(x, y)

Ordered(l) ==
  /\ l.wire = [i \in 1..Len(l.wire) |-> i]
  /\ l.read = [i \in 1..Len(l.read) |-> i]

\* What a method that blocks may still have to do.
Ends  == {<<"unset", "destroy">>, <<"notify", "destroy">>}
Finishing(e) == {<<"finish", "drain", e, "destroy">>,
                 <<"drain", "finish", "drain", e, "destroy">>}
Closing(e) ==
  {<<e, "destroy">>, <<"shutdown", e, "destroy">>, <<"last_write", "shutdown", e, "destroy">>,
   <<"drain", e, "destroy">>}
Finishes == {<<"drain", "finish">>, <<"finish">>} \cup Finishing("unset") \cup Finishing("notify")
Plans    == {<<>>, <<"destroy">>} \cup Finishes \cup Closing("unset") \cup Closing("notify")

\* Where the worker is: the wait leaves no completion, a finish belongs to a
\* finished call, and nothing runs before the start and after the destruction.
InPlan(x, w) ==
  /\ w \in Plans
  /\ w # <<>> => x.s.phase = "open"
  /\ x.s.phase # "open" => x.s.completions = {}
  /\ ~x.s.observer => w = <<"destroy">> \/ x.s.phase = "destroyed"
  /\ w # <<>> /\ Head(w) \in {"finish", "unset", "notify", "destroy"} => x.s.completions = {}
  /\ w # <<>> /\ Head(w) = "drain" => x.s.finished \/ x.s.completions = {}
  /\ w \in Finishes => x.s.finished

\* The stream, what has arrived, the history and the worker together.
Whole(x, q, p, l, w) ==
  /\ p \in Entries /\ q \in Seq(Entries) /\ l \in Logs
  /\ Distinct(q, p)
  /\ Good(x, Arrived(q, p), l)
  /\ Waits(x)
  /\ Ordered(l)
  /\ InPlan(x, w)
  /\ x.s.phase = "new" => l.sent = Len(l.read)

IInv == Whole(Now, queue, poller, log, worker)

-----------------------------------------------------------------------------
(* The operators *)

\* What NewCompletion and the call into gRPC change.
LEMMA IssueIs ==
  ASSUME NEW x \in States, NEW kind \in Kinds, NEW m, m \in Nat,
         \A i \in x.c.pending : kind # "finish" /\ x.o[i].kind # kind
  PROVE  LET y  == Issue(x, kind, m)
             id == Len(x.o) + 1
         IN  /\ y \in States
             /\ y.s = [x.s EXCEPT !.completions = @ \cup {id}]
             /\ y.s.completions = x.s.completions \cup {id}
             /\ y.c.pending = x.c.pending \cup {id} /\ y.c.state = x.c.state
             /\ Len(x.o) \in Nat /\ DOMAIN x.o = 1..Len(x.o) /\ DOMAIN y.o = 1..id
             /\ y.o[id] = [kind |-> kind, message |-> m, off |-> FALSE, callback |-> TRUE]
             /\ \A i \in DOMAIN x.o : y.o[i] = x.o[i]
<1> DEFINE id == Len(x.o) + 1
           op == [kind |-> kind, message |-> m, off |-> FALSE, callback |-> TRUE]
           s2 == [x.s EXCEPT !.completions = @ \cup {id}]
           c2 == [x.c EXCEPT !.pending = @ \cup {id}]
<1>1. x.s \in Streams /\ x.o \in Seq(Ops) /\ x.c \in Calls /\ x.f = {}
      /\ x = [s |-> x.s, o |-> x.o, c |-> x.c, f |-> x.f]
  BY DEF States
<1>2. {i \in x.c.pending : kind = "finish" \/ x.o[i].kind = kind} = {}
  OBVIOUS
<1>3. Fail({} # {}, "two operations at once") = {}
  BY DEF Fail
<1>4. Issue(x, kind, m) = [s |-> s2, o |-> Append(x.o, op), c |-> c2, f |-> {}]
  <2> DEFINE g == Fail({i \in x.c.pending : kind = "finish" \/ x.o[i].kind = kind} # {},
                       "two operations at once")
  <2>1. g = {}
    BY <1>2, <1>3
  <2>2. Issue(x, kind, m) =
          [x EXCEPT !.o = Append(@, op), !.s.completions = @ \cup {id},
                    !.c.pending = @ \cup {id}, !.f = @ \cup g]
    BY DEF Issue
  <2> HIDE DEF g, op, id
  <2>3. Issue(x, kind, m) =
          [x EXCEPT !.o = Append(@, op), !.s = s2, !.c = c2, !.f = @ \cup g]
    BY <1>1, <2>2
  <2>4. x.f \cup g = {}
    BY <1>1, <2>1
  <2> HIDE DEF s2, c2
  <2> QED
    BY <1>1, <2>3, <2>4
<1>5. id \in Nat /\ Len(x.o) \in Nat
  BY <1>1
<1>6. s2 \in Streams /\ s2.completions = x.s.completions \cup {id}
  BY <1>1, <1>5 DEF Streams
<1>7. c2 \in Calls /\ c2.pending = x.c.pending \cup {id} /\ c2.state = x.c.state
  BY <1>1, <1>5 DEF Calls
<1>8. op \in Ops
  BY DEF Ops
<1>9. /\ Append(x.o, op) \in Seq(Ops)
      /\ DOMAIN x.o = 1..Len(x.o) /\ DOMAIN Append(x.o, op) = 1..id
      /\ Append(x.o, op)[id] = op
      /\ \A i \in DOMAIN x.o : Append(x.o, op)[i] = x.o[i]
  BY <1>1, <1>8
<1> HIDE DEF s2, c2, op, id
<1>10. [s |-> s2, o |-> Append(x.o, op), c |-> c2, f |-> {}] \in States
  BY <1>6, <1>7, <1>9 DEF States
<1>11. /\ Issue(x, kind, m).s = s2 /\ Issue(x, kind, m).c = c2
       /\ Issue(x, kind, m).o = Append(x.o, op)
  BY <1>4
<1> QED
  BY <1>4, <1>5, <1>6, <1>7, <1>9, <1>10, <1>11 DEF s2, op, id

\* The message that goes out next.
IsNext(x, l, m) == m = Len(l.wire) + 1 /\ l.written - Len(x.s.writes) = Len(l.wire) + 1

\* A new operation is tracked; its kind is free, and it carries the message that
\* is next.
Issued(x, y, kind, A, l) ==
  /\ Good(y, A, l) /\ Same(x, y) /\ y.s.active = x.s.active
  /\ y.s.writes = x.s.writes /\ (Waits(x) => Waits(y))
  /\ \E i \in y.s.completions : y.o[i].kind = kind

\* Issue does that, when gRPC admits the operation.
LEMMA IssueKeeps ==
  ASSUME NEW x, NEW A, NEW l \in Logs, Good(x, A, l), NEW kind \in Kinds, NEW m, m \in Nat,
         kind = "finish" => x.c.pending = {},
         kind \in {"read", "write"} => \A i \in x.s.completions : x.o[i].kind # kind,
         kind = "read" => l.sent = Len(l.read),
         kind = "write" => x.s.active /\ IsNext(x, l, m)
  PROVE  Issued(x, Issue(x, kind, m), kind, A, l)
<1> DEFINE y  == Issue(x, kind, m)
           id == Len(x.o) + 1
<1>1. x \in States /\ Tracked(x, A) /\ OneEach(x) /\ Flows(x, A, l)
  BY DEF Good
<1>2. \A i \in x.c.pending : kind # "finish" /\ x.o[i].kind # kind
  BY <1>1 DEF Tracked, Kinds
<1>3. /\ y \in States
      /\ y.s = [x.s EXCEPT !.completions = @ \cup {id}]
      /\ y.s.completions = x.s.completions \cup {id}
      /\ y.c.pending = x.c.pending \cup {id}
      /\ Len(x.o) \in Nat /\ DOMAIN x.o = 1..Len(x.o) /\ DOMAIN y.o = 1..id
      /\ y.o[id] = [kind |-> kind, message |-> m, off |-> FALSE, callback |-> TRUE]
      /\ \A i \in DOMAIN x.o : y.o[i] = x.o[i]
  BY <1>1, <1>2, IssueIs
<1>4. /\ y.s.writes = x.s.writes /\ y.s.active = x.s.active /\ y.s.finished = x.s.finished
  BY <1>1, <1>3 DEF States, Streams
<1> HIDE DEF y
<1>5. id \notin DOMAIN x.o /\ id \in DOMAIN y.o /\ \A i \in DOMAIN x.o : i \in DOMAIN y.o
  BY <1>3
<1>6. /\ y.o[id].kind = kind /\ y.o[id].message = m
      /\ y.o[id].off = FALSE /\ y.o[id].callback = TRUE
  BY <1>3
<1> HIDE DEF id
<1>7. \A i \in x.s.completions : i \in DOMAIN x.o /\ i # id /\ y.o[i] = x.o[i]
  BY <1>1, <1>3, <1>5 DEF Tracked
<1>8. \A e \in A : e.op \in DOMAIN x.o /\ e.op # id /\ y.o[e.op] = x.o[e.op]
  BY <1>1, <1>3, <1>5 DEF Tracked
<1>9. Tracked(y, A)
  <2>1. y.c.pending \subseteq y.s.completions
    BY <1>1, <1>3 DEF Tracked
  <2>2. ASSUME NEW i \in y.s.completions
        PROVE  /\ i \in DOMAIN y.o /\ y.o[i].callback
               /\ y.o[i].off => \E e \in A : e.op = i
               /\ ~y.o[i].off <=> i \in y.c.pending
    <3>1. CASE i = id
      BY <1>3, <1>5, <1>6, <3>1
    <3>2. CASE i \in x.s.completions
      BY <1>1, <1>3, <1>5, <1>7, <3>2 DEF Tracked
    <3> QED
      BY <1>3, <3>1, <3>2
  <2>3. \A e \in A : /\ e.op \in DOMAIN y.o /\ y.o[e.op].off
                     /\ y.o[e.op].callback => e.op \in y.s.completions
    BY <1>1, <1>3, <1>5, <1>8 DEF Tracked
  <2> QED
    BY <2>1, <2>2, <2>3 DEF Tracked
<1>10. OneEach(y)
  <2>1. ASSUME NEW i \in y.s.completions, NEW j \in y.s.completions,
               y.o[i].kind = y.o[j].kind, y.o[i].kind \in {"read", "write"}
        PROVE  i = j
    <3>1. CASE i \in x.s.completions /\ j \in x.s.completions
      BY <1>1, <1>7, <2>1, <3>1 DEF OneEach
    <3>2. CASE i = id \/ j = id
      BY <1>3, <1>6, <1>7, <2>1, <3>2
    <3> QED
      BY <1>3, <3>1, <3>2
  <2>2. ASSUME ~y.s.active, NEW i \in y.s.completions
        PROVE  y.o[i].kind # "write"
    BY <1>1, <1>3, <1>4, <1>6, <1>7, <2>2 DEF OneEach
  <2> QED
    BY <2>1, <2>2 DEF OneEach
<1>11. Flows(y, A, l)
  <2>1. ASSUME NEW i \in y.c.pending
        PROVE  /\ y.o[i].kind = "write" => /\ y.o[i].message = Len(l.wire) + 1
                                           /\ l.written - Len(y.s.writes) = Len(l.wire) + 1
               /\ y.o[i].kind = "read" => l.sent = Len(l.read)
    <3>1. CASE i = id
      BY <1>4, <1>6, <3>1 DEF IsNext
    <3>2. CASE i \in x.c.pending
      <4>1. y.o[i] = x.o[i]
        BY <1>1, <1>7, <3>2 DEF Tracked
      <4> QED
        BY <1>1, <1>4, <3>2, <4>1 DEF Flows
    <3> QED
      BY <1>3, <3>1, <3>2
  <2>3. \A e \in A : e.ok /\ y.o[e.op].callback =>
          /\ y.o[e.op].kind = "write" => l.written - Len(y.s.writes) = Len(l.wire)
          /\ y.o[e.op].kind = "read" => /\ y.o[e.op].message = Len(l.read) + 1
                                        /\ l.sent = Len(l.read) + 1
    BY <1>1, <1>4, <1>8 DEF Flows
  <2> QED
    BY <1>1, <1>4, <2>1, <2>3 DEF Flows
<1>12. ASSUME Waits(x) PROVE Waits(y)
  BY <1>3, <1>4, <1>7, <1>12 DEF Waits
<1>13. \E i \in y.s.completions : y.o[i].kind = kind
  BY <1>3, <1>6
<1>14. Same(x, y)
  BY <1>1, <1>3 DEF Same, States, Streams
<1> QED
  BY <1>3, <1>4, <1>9, <1>10, <1>11, <1>12, <1>13, <1>14 DEF Good, Issued, y

\* Numbers that go on to n.
LEMMA UpTo ==
  ASSUME NEW w, w \in Seq(Nat), NEW n, n \in Nat,
         \A k \in 1..Len(w) : w[k] = n - Len(w) + k
  PROVE  w = [k \in 1..Len(w) |-> n - Len(w) + k]
<1>1. w = [k \in 1..Len(w) |-> w[k]]
  OBVIOUS
<1> QED
  BY <1>1

\* TryStartWrite: the first message that waits becomes the active write.
LEMMA TryStartKeeps ==
  ASSUME NEW x, NEW A, NEW l \in Logs, Good(x, A, l),
         x.s.active /\ ~x.s.finished => \E i \in x.s.completions : x.o[i].kind = "write"
  PROVE  Keeps(x, TryStartWrite(x), A, l)
<1>1. x \in States /\ Tracked(x, A) /\ OneEach(x) /\ Flows(x, A, l)
  BY DEF Good
<1>2. CASE x.s.writes = <<>> \/ x.s.active
  <2>1. TryStartWrite(x) = x
    BY <1>2 DEF TryStartWrite
  <2> QED
    BY <1>2, <2>1 DEF Keeps, Waits, Same
<1>3. CASE x.s.writes # <<>> /\ ~x.s.active
  <2> DEFINE w == x.s.writes
             s2 == [x.s EXCEPT !.active = TRUE, !.writes = Tail(w)]
             z == [x EXCEPT !.s = s2]
  <2>1. TryStartWrite(x) = Issue(z, "write", Head(w))
    <3>1. x.s \in Streams /\ x = [s |-> x.s, o |-> x.o, c |-> x.c, f |-> x.f]
      BY <1>1 DEF States
    <3>2. [x EXCEPT !.s.active = TRUE, !.s.writes = Tail(@)] = z
      BY <3>1 DEF Streams
    <3> HIDE DEF z
    <3> QED
      BY <1>3, <3>2 DEF TryStartWrite
  <2>2. w \in Seq(Nat) /\ w # <<>> /\ Len(w) \in Nat \ {0} /\ l.written \in Nat
        /\ Head(w) = w[1] /\ Head(w) \in Nat /\ Tail(w) \in Seq(Nat)
        /\ Len(Tail(w)) = Len(w) - 1
        /\ \A k \in 1..(Len(w) - 1) : Tail(w)[k] = w[k + 1]
        /\ Len(l.wire) \in Nat
    BY <1>1, <1>3 DEF States, Streams, Logs
  <2>3. /\ w = [k \in 1..Len(w) |-> l.written - Len(w) + k]
        /\ l.written - Len(w) = Len(l.wire)
    BY <1>1, <1>3 DEF Flows
  <2>4. /\ z.s = s2 /\ z.o = x.o /\ z.c = x.c /\ z \in States
        /\ s2.completions = x.s.completions /\ s2.writes = Tail(w) /\ s2.active = TRUE
        /\ Same(x, z)
    <3>1. s2 \in Streams
      BY <1>1, <2>2 DEF States, Streams
    <3>2. /\ s2.completions = x.s.completions /\ s2.writes = Tail(w) /\ s2.active = TRUE
          /\ s2.phase = x.s.phase /\ s2.observer = x.s.observer
          /\ s2.finished = x.s.finished
      BY <1>1 DEF States, Streams
    <3> HIDE DEF s2
    <3>3. z.s = s2 /\ z.o = x.o /\ z.c = x.c /\ z \in States
      BY <1>1, <3>1 DEF States
    <3> QED
      BY <3>2, <3>3 DEF Same
  <2> HIDE DEF w, z, s2
  <2>5. Tail(w) = [k \in 1..Len(Tail(w)) |-> l.written - Len(Tail(w)) + k]
    <3>1. \A k \in 1..Len(Tail(w)) : Tail(w)[k] = l.written - Len(Tail(w)) + k
      <4> SUFFICES ASSUME NEW k \in 1..Len(Tail(w))
                   PROVE  Tail(w)[k] = l.written - Len(Tail(w)) + k
        OBVIOUS
      <4>1. k + 1 \in 1..Len(w) /\ Tail(w)[k] = w[k + 1]
        BY <2>2
      <4>2. w[k + 1] = l.written - Len(w) + (k + 1)
        BY <2>3, <4>1
      <4>3. l.written - Len(w) + (k + 1) = l.written - (Len(w) - 1) + k
        BY <2>2
      <4> QED
        BY <2>2, <4>1, <4>2, <4>3
    <3> QED
      BY <2>2, <3>1, UpTo
  <2>6. \A i \in x.s.completions : x.o[i].kind # "write"
    BY <1>1, <1>3 DEF OneEach
  <2>7. Flows(z, A, l)
    BY <1>1, <2>4, <2>5, <2>6 DEF Flows, Tracked
  <2>8. Good(z, A, l)
    BY <1>1, <2>4, <2>7 DEF Good, Tracked, OneEach
  <2>9. IsNext(z, l, Head(w))
    <3>1. Head(w) = Len(l.wire) + 1
      BY <2>2, <2>3
    <3>2. l.written - Len(Tail(w)) = Len(l.wire) + 1
      BY <2>2, <2>3
    <3> QED
      BY <2>4, <3>1, <3>2 DEF IsNext
  <2>10. Issued(z, Issue(z, "write", Head(w)), "write", A, l)
    <3>1. "write" \in Kinds /\ \A i \in z.s.completions : z.o[i].kind # "write"
      BY <2>4, <2>6 DEF Kinds
    <3>2. z.s.active /\ "write" # "finish" /\ "write" # "read"
      BY <2>4
    <3>3. Head(w) \in Nat
      BY <2>2
    <3> QED
      BY <2>8, <2>9, <3>1, <3>2, <3>3, IssueKeeps
  <2> QED
    BY <2>1, <2>4, <2>10 DEF Issued, Keeps, Waits, Same
<1> QED
  BY <1>2, <1>3

\* EnqueueWrite of the next message.
LEMMA EnqueueKeeps ==
  ASSUME NEW x, NEW A, NEW l \in Logs, Good(x, A, l), Waits(x)
  PROVE  LET l2 == [l EXCEPT !.written = @ + 1]
         IN  l2 \in Logs /\ Keeps(x, EnqueueWrite(x, l.written + 1), A, l2)
<1> DEFINE w == Append(x.s.writes, l.written + 1)
           s2 == [x.s EXCEPT !.writes = w]
           z == [x EXCEPT !.s = s2]
           l2 == [l EXCEPT !.written = @ + 1]
<1>1. x \in States /\ Tracked(x, A) /\ OneEach(x) /\ Flows(x, A, l)
  BY DEF Good
<1>2. /\ l.written \in Nat /\ l2 \in Logs /\ l2.written = l.written + 1
      /\ l2.wire = l.wire /\ l2.sent = l.sent /\ l2.read = l.read /\ Len(l.wire) \in Nat
  <2>1. l.written \in Nat /\ l.written + 1 \in Nat /\ l.wire \in Seq(Nat)
    BY DEF Logs
  <2>2. l2 = [l EXCEPT !.written = l.written + 1]
    BY DEF Logs
  <2> DEFINE n == l.written + 1
  <2> HIDE DEF n
  <2>3. LET k == [l EXCEPT !.written = n]
        IN  k \in Logs /\ k.written = n /\ k.wire = l.wire /\ k.sent = l.sent /\ k.read = l.read
    BY <2>1 DEF Logs, n
  <2> QED
    BY <2>1, <2>2, <2>3 DEF n
<1>3. EnqueueWrite(x, l.written + 1) = TryStartWrite(z)
  <2>1. x.s \in Streams /\ x = [s |-> x.s, o |-> x.o, c |-> x.c, f |-> x.f]
    BY <1>1 DEF States
  <2>2. [x EXCEPT !.s.writes = Append(@, l.written + 1)] = z
    BY <2>1 DEF Streams
  <2> HIDE DEF z
  <2> QED
    BY <2>2 DEF EnqueueWrite
<1>4. /\ x.s.writes \in Seq(Nat) /\ w \in Seq(Nat) /\ Len(w) = Len(x.s.writes) + 1
      /\ Len(x.s.writes) \in Nat
      /\ w[Len(w)] = l.written + 1 /\ \A k \in 1..Len(x.s.writes) : w[k] = x.s.writes[k]
  BY <1>1, <1>2 DEF States, Streams
<1>5. /\ z.s = s2 /\ z.o = x.o /\ z.c = x.c /\ z \in States
      /\ s2.completions = x.s.completions /\ s2.writes = w /\ s2.active = x.s.active
      /\ Same(x, z)
  <2>1. s2 \in Streams
    BY <1>1, <1>4 DEF States, Streams
  <2>2. /\ s2.completions = x.s.completions /\ s2.writes = w /\ s2.active = x.s.active
        /\ s2.phase = x.s.phase /\ s2.observer = x.s.observer
        /\ s2.finished = x.s.finished
    BY <1>1 DEF States, Streams
  <2> HIDE DEF s2
  <2>3. z.s = s2 /\ z.o = x.o /\ z.c = x.c /\ z \in States
    BY <1>1, <2>1 DEF States
  <2> QED
    BY <2>2, <2>3 DEF Same
<1> HIDE DEF w, z, s2, l2
<1>6. w = [k \in 1..Len(w) |-> l2.written - Len(w) + k]
  <2> DEFINE n == l.written
             q == Len(x.s.writes)
  <2>1. n \in Nat /\ q \in Nat /\ l2.written = n + 1 /\ Len(w) = q + 1 /\ w[q + 1] = n + 1
        /\ \A k \in 1..q : w[k] = x.s.writes[k]
    BY <1>2, <1>4
  <2>2. \A k \in 1..q : x.s.writes[k] = n - q + k
    BY <1>1 DEF Flows
  <2> HIDE DEF n, q
  <2>3. \A k \in 1..(q + 1) : w[k] = (n + 1) - (q + 1) + k
    <3> SUFFICES ASSUME NEW k \in 1..(q + 1) PROVE w[k] = (n + 1) - (q + 1) + k
      OBVIOUS
    <3>1. CASE k = q + 1
      BY <2>1, <3>1
    <3>2. CASE k # q + 1
      <4>1. k \in 1..q /\ n - q + k = (n + 1) - (q + 1) + k
        BY <2>1, <3>2
      <4>2. w[k] = n - q + k
        BY <2>1, <2>2, <4>1
      <4> QED
        BY <4>1, <4>2
    <3> QED
      BY <3>1, <3>2
  <2>4. n + 1 \in Nat
    BY <2>1
  <2>5. \A k \in 1..Len(w) : w[k] = (n + 1) - Len(w) + k
    BY <2>1, <2>3
  <2>6. w = [k \in 1..Len(w) |-> (n + 1) - Len(w) + k]
    BY <1>4, <2>4, <2>5, UpTo
  <2> QED
    BY <2>1, <2>6
<1>7. l2.written - Len(w) = l.written - Len(x.s.writes)
  <2>1. \A n \in Nat, q \in Nat : (n + 1) - (q + 1) = n - q
    OBVIOUS
  <2>2. l.written \in Nat /\ l2.written = l.written + 1
    BY <1>2
  <2> QED
    BY <1>4, <2>1, <2>2
<1>8. Flows(z, A, l2)
  BY <1>1, <1>2, <1>5, <1>6, <1>7 DEF Flows
<1>9. Good(z, A, l2)
  BY <1>1, <1>5, <1>8 DEF Good, Tracked, OneEach
<1>10. z.s.active /\ ~z.s.finished => \E i \in z.s.completions : z.o[i].kind = "write"
  BY <1>5 DEF Waits, Same
<1>11. Keeps(z, TryStartWrite(z), A, l2)
  BY <1>2, <1>9, <1>10, TryStartKeeps
<1> QED
  BY <1>2, <1>3, <1>5, <1>11 DEF Keeps, Same, l2

\* ReadNext, when no read is under way and what was read is delivered.
LEMMA ReadNextKeeps ==
  ASSUME NEW x, NEW A, NEW l \in Logs, Good(x, A, l), Waits(x),
         \A i \in x.s.completions : x.o[i].kind # "read",
         l.sent = Len(l.read)
  PROVE  Keeps(x, ReadNext(x), A, l)
<1>1. CASE x.s.observer
  <2>1. "read" \in Kinds /\ 0 \in Nat
    BY DEF Kinds
  <2> QED
    BY <1>1, <2>1, IssueKeeps DEF Issued, Keeps, ReadNext
<1>2. CASE ~x.s.observer
  BY <1>2 DEF Keeps, ReadNext, Same
<1> QED
  BY <1>1, <1>2

\* Tails of short sequences.
LEMMA Tails ==
  /\ \A a : Tail(<<a>>) = <<>>
  /\ \A a, b : Tail(<<a, b>>) = <<b>>
  /\ \A a, b, c : Tail(<<a, b, c>>) = <<b, c>>
  /\ \A a, b, c, d : Tail(<<a, b, c, d>>) = <<b, c, d>>
  /\ \A a, b, c, d, e : Tail(<<a, b, c, d, e>>) = <<b, c, d, e>>
<1>1. (\A a : Tail(<<a>>) = <<>>) /\ (\A a, b : Tail(<<a, b>>) = <<b>>)
  OBVIOUS
<1>2. \A a, b, c : Tail(<<a, b, c>>) = <<b, c>>
  OBVIOUS
<1>3. \A a, b, c, d : Tail(<<a, b, c, d>>) = <<b, c, d>>
  OBVIOUS
<1>4. \A a, b, c, d, e : Tail(<<a, b, c, d, e>>) = <<b, c, d, e>>
  OBVIOUS
<1> QED
  BY <1>1, <1>2, <1>3, <1>4

\* Concatenation, element by element.
Joined(S, s, t, u) ==
  /\ u \in Seq(S) /\ Len(u) = Len(s) + Len(t)
  /\ \A i \in 1..Len(s) : u[i] = s[i]
  /\ \A i \in 1..Len(t) : u[Len(s) + i] = t[i]

\* \o is that.
LEMMA Cat ==
  ASSUME NEW S, NEW s, s \in Seq(S), NEW t, t \in Seq(S)
  PROVE  Joined(S, s, t, s \o t)
<1>1. Len(s) \in Nat /\ Len(t) \in Nat
  OBVIOUS
<1>2. /\ s \o t \in Seq(S) /\ Len(s \o t) = Len(s) + Len(t)
      /\ \A i \in 1 .. Len(s) + Len(t) :
           (s \o t)[i] = IF i <= Len(s) THEN s[i] ELSE t[i - Len(s)]
  BY ConcatProperties
<1> QED
  BY <1>1, <1>2 DEF Joined

\* The last write, before the steps of a stop.
LEMMA Cat13 ==
  ASSUME NEW a, NEW b, NEW c, NEW d
  PROVE  <<a>> \o <<b, c, d>> = <<a, b, c, d>>
<1> DEFINE s == <<a>>
           t == <<b, c, d>>
           S == {a, b, c, d}
           u == s \o t
<1>1. /\ s \in Seq(S) /\ t \in Seq(S) /\ Len(s) = 1 /\ Len(t) = 3
      /\ s[1] = a
      /\ t[1] = b /\ t[2] = c /\ t[3] = d
  OBVIOUS
<1> HIDE DEF s, t, S
<1>2. Joined(S, s, t, u)
  BY <1>1, Cat
<1> HIDE DEF u
<1>3. /\ Len(u) = 4 /\ u[1] = a
      /\ u[1 + 1] = b /\ u[1 + 2] = c /\ u[1 + 3] = d
  BY <1>1, <1>2 DEF Joined
<1>4. u \in Seq(S) /\ u[2] = b /\ u[3] = c /\ u[4] = d
  BY <1>2, <1>3 DEF Joined
<1>5. u = <<u[1], u[2], u[3], u[4]>>
  BY <1>3, <1>4
<1> QED
  BY <1>3, <1>4, <1>5 DEF s, t, u

\* The steps that finish a call, and one more wait.
LEMMA Cat21 ==
  ASSUME NEW a, NEW b, NEW c
  PROVE  <<a, b>> \o <<c>> = <<a, b, c>>
<1> DEFINE s == <<a, b>>
           t == <<c>>
           S == {a, b, c}
           u == s \o t
<1>1. /\ s \in Seq(S) /\ t \in Seq(S) /\ Len(s) = 2 /\ Len(t) = 1
      /\ s[1] = a /\ s[2] = b
      /\ t[1] = c
  OBVIOUS
<1> HIDE DEF s, t, S
<1>2. Joined(S, s, t, u)
  BY <1>1, Cat
<1> HIDE DEF u
<1>3. /\ Len(u) = 3 /\ u[1] = a /\ u[2] = b
      /\ u[2 + 1] = c
  BY <1>1, <1>2 DEF Joined
<1>4. u \in Seq(S) /\ u[3] = c
  BY <1>2, <1>3 DEF Joined
<1>5. u = <<u[1], u[2], u[3]>>
  BY <1>3, <1>4
<1> QED
  BY <1>3, <1>4, <1>5 DEF s, t, u

\* A wait before the end of a plan.
LEMMA Cat12 ==
  ASSUME NEW a, NEW b, NEW c
  PROVE  <<a>> \o <<b, c>> = <<a, b, c>>
<1> DEFINE s == <<a>>
           t == <<b, c>>
           S == {a, b, c}
           u == s \o t
<1>1. /\ s \in Seq(S) /\ t \in Seq(S) /\ Len(s) = 1 /\ Len(t) = 2
      /\ s[1] = a
      /\ t[1] = b /\ t[2] = c
  OBVIOUS
<1> HIDE DEF s, t, S
<1>2. Joined(S, s, t, u)
  BY <1>1, Cat
<1> HIDE DEF u
<1>3. /\ Len(u) = 3 /\ u[1] = a
      /\ u[1 + 1] = b /\ u[1 + 2] = c
  BY <1>1, <1>2 DEF Joined
<1>4. u \in Seq(S) /\ u[2] = b /\ u[3] = c
  BY <1>2, <1>3 DEF Joined
<1>5. u = <<u[1], u[2], u[3]>>
  BY <1>3, <1>4
<1> QED
  BY <1>3, <1>4, <1>5 DEF s, t, u

\* The steps that finish a call and a wait, before the end of a plan.
LEMMA Cat32 ==
  ASSUME NEW a, NEW b, NEW c, NEW d, NEW e
  PROVE  <<a, b, c>> \o <<d, e>> = <<a, b, c, d, e>>
<1> DEFINE s == <<a, b, c>>
           t == <<d, e>>
           S == {a, b, c, d, e}
           u == s \o t
<1>1. /\ s \in Seq(S) /\ t \in Seq(S) /\ Len(s) = 3 /\ Len(t) = 2
      /\ s[1] = a /\ s[2] = b /\ s[3] = c
      /\ t[1] = d /\ t[2] = e
  OBVIOUS
<1> HIDE DEF s, t, S
<1>2. Joined(S, s, t, u)
  BY <1>1, Cat
<1> HIDE DEF u
<1>3. /\ Len(u) = 5 /\ u[1] = a /\ u[2] = b /\ u[3] = c
      /\ u[3 + 1] = d /\ u[3 + 2] = e
  BY <1>1, <1>2 DEF Joined
<1>4. u \in Seq(S) /\ u[4] = d /\ u[5] = e
  BY <1>2, <1>3 DEF Joined
<1>5. u = <<u[1], u[2], u[3], u[4], u[5]>>
  BY <1>3, <1>4
<1> QED
  BY <1>3, <1>4, <1>5 DEF s, t, u

\* What follows the head h of a plan, when the rest is r.
Follows(w, h, r) ==
  /\ r \in Plans
  /\ r \in Finishes => w \in Finishes
  /\ h = "drain" => r # <<>> /\ Head(r) \in {"finish", "unset", "notify"}
  /\ h = "finish" => w \in Finishes /\ (r # <<>> => Head(r) = "drain")
  /\ h = "last_write" => r # <<>> /\ Head(r) = "shutdown"
  /\ h = "shutdown" => r \in Ends
  /\ h \in {"unset", "notify"} => r = <<"destroy">>
  /\ h = "destroy" => r = <<>>
  /\ w = <<"destroy">> <=> h = "destroy"

\* A plan is followed step by step.
LEMMA PlanSteps ==
  ASSUME NEW w, w \in Plans, w # <<>>
  PROVE  Follows(w, Head(w), Tail(w))
<1>1. ASSUME NEW e, e \in {"unset", "notify"}
      PROVE  /\ <<e, "destroy">> \in Plans /\ <<"shutdown", e, "destroy">> \in Plans
             /\ <<"drain", e, "destroy">> \in Plans
             /\ <<"finish", "drain", e, "destroy">> \in Plans
             /\ <<"finish", "drain", e, "destroy">> \in Finishes
             /\ <<"drain", "finish", "drain", e, "destroy">> \in Finishes
             /\ <<e, "destroy">> \in Ends
  BY <1>1, Zenon DEF Plans, Finishes, Finishing, Closing, Ends
<1>2. /\ <<>> \in Plans /\ <<"destroy">> \in Plans /\ <<"finish">> \in Plans
      /\ <<"finish">> \in Finishes /\ <<"drain", "finish">> \in Finishes
  BY Zenon DEF Plans, Finishes
<1>3. <<>> \notin Finishes /\ <<"destroy">> \notin Finishes
  BY DEF Finishes, Finishing
<1>4. \A e \in {"unset", "notify"} : /\ <<e, "destroy">> \notin Finishes
                                    /\ <<"shutdown", e, "destroy">> \notin Finishes
                                    /\ <<"drain", e, "destroy">> \notin Finishes
  BY DEF Finishes, Finishing
<1>5. ASSUME w = <<"destroy">>
      PROVE  Follows(w, Head(w), Tail(w))
  <2>1. Head(w) = "destroy" /\ Tail(w) = <<>>
    BY <1>5, Tails
  <2>2. w = <<"destroy">> <=> Head(w) = "destroy"
    BY <1>5
  <2> QED
    BY <1>1, <1>2, <1>3, <1>4, <1>5, <2>1, <2>2 DEF Follows
<1>6. ASSUME w = <<"finish">>
      PROVE  Follows(w, Head(w), Tail(w))
  <2>1. Head(w) = "finish" /\ Tail(w) = <<>>
    BY <1>6, Tails
  <2>2. w = <<"destroy">> <=> Head(w) = "destroy"
    BY <1>6
  <2> QED
    BY <1>1, <1>2, <1>3, <1>4, <1>6, <2>1, <2>2 DEF Follows
<1>7. ASSUME w = <<"drain", "finish">>
      PROVE  Follows(w, Head(w), Tail(w))
  <2>1. Head(w) = "drain" /\ Tail(w) = <<"finish">>
    BY <1>7, Tails
  <2>2. <<"finish">> # <<>> /\ Head(<<"finish">>) = "finish"
    OBVIOUS
  <2>3. w = <<"destroy">> <=> Head(w) = "destroy"
    BY <1>7
  <2> QED
    BY <1>1, <1>2, <1>3, <1>4, <1>7, <2>1, <2>2, <2>3 DEF Follows
<1>8. ASSUME NEW e, e \in {"unset", "notify"}, w = <<e, "destroy">>
      PROVE  Follows(w, Head(w), Tail(w))
  <2>1. Head(w) = e /\ Tail(w) = <<"destroy">>
    BY <1>8, Tails
  <2>2. <<"destroy">> # <<>> /\ Head(<<"destroy">>) = "destroy"
    OBVIOUS
  <2>3. w = <<"destroy">> <=> Head(w) = "destroy"
    BY <1>8
  <2> QED
    BY <1>1, <1>2, <1>3, <1>4, <1>8, <2>1, <2>2, <2>3 DEF Follows
<1>9. ASSUME NEW e, e \in {"unset", "notify"}, w = <<"shutdown", e, "destroy">>
      PROVE  Follows(w, Head(w), Tail(w))
  <2>1. Head(w) = "shutdown" /\ Tail(w) = <<e, "destroy">>
    BY <1>9, Tails
  <2>2. <<e, "destroy">> # <<>> /\ Head(<<e, "destroy">>) = e
    OBVIOUS
  <2>3. w = <<"destroy">> <=> Head(w) = "destroy"
    BY <1>9
  <2> QED
    BY <1>1, <1>2, <1>3, <1>4, <1>9, <2>1, <2>2, <2>3 DEF Follows
<1>10. ASSUME NEW e, e \in {"unset", "notify"}, w = <<"last_write", "shutdown", e, "destroy">>
      PROVE  Follows(w, Head(w), Tail(w))
  <2>1. Head(w) = "last_write" /\ Tail(w) = <<"shutdown", e, "destroy">>
    BY <1>10, Tails
  <2>2. <<"shutdown", e, "destroy">> # <<>> /\ Head(<<"shutdown", e, "destroy">>) = "shutdown"
    OBVIOUS
  <2>3. w = <<"destroy">> <=> Head(w) = "destroy"
    BY <1>10
  <2> QED
    BY <1>1, <1>2, <1>3, <1>4, <1>10, <2>1, <2>2, <2>3 DEF Follows
<1>11. ASSUME NEW e, e \in {"unset", "notify"}, w = <<"drain", e, "destroy">>
      PROVE  Follows(w, Head(w), Tail(w))
  <2>1. Head(w) = "drain" /\ Tail(w) = <<e, "destroy">>
    BY <1>11, Tails
  <2>2. <<e, "destroy">> # <<>> /\ Head(<<e, "destroy">>) = e
    OBVIOUS
  <2>3. w = <<"destroy">> <=> Head(w) = "destroy"
    BY <1>11
  <2> QED
    BY <1>1, <1>2, <1>3, <1>4, <1>11, <2>1, <2>2, <2>3 DEF Follows
<1>12. ASSUME NEW e, e \in {"unset", "notify"}, w = <<"finish", "drain", e, "destroy">>
      PROVE  Follows(w, Head(w), Tail(w))
  <2>1. Head(w) = "finish" /\ Tail(w) = <<"drain", e, "destroy">>
    BY <1>12, Tails
  <2>2. <<"drain", e, "destroy">> # <<>> /\ Head(<<"drain", e, "destroy">>) = "drain"
    OBVIOUS
  <2>3. w = <<"destroy">> <=> Head(w) = "destroy"
    BY <1>12
  <2> QED
    BY <1>1, <1>2, <1>3, <1>4, <1>12, <2>1, <2>2, <2>3 DEF Follows
<1>13. ASSUME NEW e, e \in {"unset", "notify"}, w = <<"drain", "finish", "drain", e, "destroy">>
      PROVE  Follows(w, Head(w), Tail(w))
  <2>1. Head(w) = "drain" /\ Tail(w) = <<"finish", "drain", e, "destroy">>
    BY <1>13, Tails
  <2>2. /\ <<"finish", "drain", e, "destroy">> # <<>>
        /\ Head(<<"finish", "drain", e, "destroy">>) = "finish"
    OBVIOUS
  <2>3. w = <<"destroy">> <=> Head(w) = "destroy"
    BY <1>13
  <2> QED
    BY <1>1, <1>2, <1>3, <1>4, <1>13, <2>1, <2>2, <2>3 DEF Follows
<1> QED
  BY <1>5, <1>6, <1>7, <1>8, <1>9, <1>10, <1>11, <1>12, <1>13
  DEF Plans, Finishes, Finishing, Closing

\* The worker takes up what has arrived first.
LEMMA TakeUp ==
  ASSUME NEW q, q \in Seq(Entries), NEW p, p \in Entries, Distinct(q, p), q # <<>>
  PROVE  /\ Tail(q) \in Seq(Entries) /\ Head(q) \in Entries
         /\ Distinct(Tail(q), p)
         /\ Head(q) \in Arrived(q, p)
         /\ Arrived(Tail(q), p) = Arrived(q, p) \ {Head(q)}
         /\ \A d \in Arrived(q, p) : d.op = Head(q).op => d = Head(q)
<1>1. /\ Tail(q) \in Seq(Entries) /\ Head(q) \in Entries /\ Head(q) = q[1]
      /\ 1 \in DOMAIN q /\ DOMAIN q = 1..Len(q) /\ Len(q) \in Nat
      /\ DOMAIN Tail(q) = 1..(Len(q) - 1)
      /\ \A k \in DOMAIN Tail(q) : Tail(q)[k] = q[k + 1]
  OBVIOUS
<1>2. \A k \in DOMAIN Tail(q) : k + 1 \in DOMAIN q /\ k + 1 # 1
  BY <1>1
<1>3. \A k \in DOMAIN q : k # 1 => k - 1 \in DOMAIN Tail(q) /\ Tail(q)[k - 1] = q[k]
  BY <1>1
<1>4. Distinct(Tail(q), p)
  <2>1. ASSUME NEW j \in DOMAIN Tail(q), NEW k \in DOMAIN Tail(q),
               Tail(q)[j].op = Tail(q)[k].op
        PROVE  j = k
    <3>1. q[j + 1].op = q[k + 1].op
      BY <1>1, <2>1
    <3>2. j + 1 = k + 1
      BY <1>2, <3>1 DEF Distinct
    <3> QED
      BY <1>1, <3>2
  <2>2. \A k \in DOMAIN Tail(q) : Tail(q)[k].op # p.op /\ Tail(q)[k].op # 0
    BY <1>1, <1>2 DEF Distinct
  <2> QED
    BY <2>1, <2>2 DEF Distinct
<1>5. \A d \in Arrived(q, p) : d.op = Head(q).op => d = Head(q)
  BY <1>1 DEF Distinct, Arrived
<1>6. ASSUME NEW k \in DOMAIN q, k # 1 PROVE q[k] # q[1]
  BY <1>1, <1>6 DEF Distinct
<1>7. Head(q) # p
  BY <1>1 DEF Distinct
<1>8. Arrived(Tail(q), p) = Arrived(q, p) \ {Head(q)}
  <2>1. {Tail(q)[k] : k \in DOMAIN Tail(q)} = {q[k] : k \in DOMAIN q} \ {q[1]}
    <3>1. ASSUME NEW k \in DOMAIN Tail(q)
          PROVE  Tail(q)[k] \in {q[j] : j \in DOMAIN q} \ {q[1]}
      BY <1>1, <1>2, <1>6
    <3>2. ASSUME NEW k \in DOMAIN q, q[k] # q[1]
          PROVE  q[k] \in {Tail(q)[j] : j \in DOMAIN Tail(q)}
      BY <1>1, <1>3, <3>2
    <3> QED
      BY <3>1, <3>2
  <2> QED
    BY <1>1, <1>7, <2>1 DEF Arrived
<1> QED
  BY <1>1, <1>4, <1>5, <1>8 DEF Arrived

\* The polling thread enqueues what it has.
LEMMA PutDown ==
  ASSUME NEW q, q \in Seq(Entries), NEW p, p \in Entries, Distinct(q, p), p # NoOp
  PROVE  /\ Append(q, p) \in Seq(Entries)
         /\ Distinct(Append(q, p), NoOp)
         /\ Arrived(Append(q, p), NoOp) = Arrived(q, p)
<1>1. /\ Append(q, p) \in Seq(Entries)
      /\ Len(q) \in Nat /\ DOMAIN q = 1..Len(q) /\ DOMAIN Append(q, p) = 1..(Len(q) + 1)
      /\ \A k \in DOMAIN q : Append(q, p)[k] = q[k]
      /\ Append(q, p)[Len(q) + 1] = p
  OBVIOUS
<1>2. DOMAIN Append(q, p) = DOMAIN q \cup {Len(q) + 1} /\ Len(q) + 1 \notin DOMAIN q
  BY <1>1
<1> DEFINE n == Len(q) + 1
           r == Append(q, p)
<1>3. /\ r[n] = p /\ DOMAIN r = DOMAIN q \cup {n} /\ n \notin DOMAIN q
      /\ \A k \in DOMAIN q : r[k] = q[k]
  BY <1>1, <1>2
<1> HIDE DEF n, r
<1>4. NoOp.op = 0
  BY DEF NoOp
<1>5. Distinct(r, NoOp)
  BY <1>3, <1>4 DEF Distinct
<1>6. Arrived(r, NoOp) = Arrived(q, p)
  BY <1>3 DEF Arrived
<1> QED
  BY <1>1, <1>5, <1>6 DEF r

\* gRPC gives an operation to the polling thread.
LEMMA PickUp ==
  ASSUME NEW q, q \in Seq(Entries), Distinct(q, NoOp), NEW p, p \in Entries, p.op # 0,
         \A k \in DOMAIN q : q[k].op # p.op
  PROVE  Distinct(q, p) /\ Arrived(q, p) = Arrived(q, NoOp) \cup {p} /\ p # NoOp
<1>1. NoOp.op = 0 /\ p # NoOp
  BY DEF NoOp
<1> QED
  BY <1>1 DEF Distinct, Arrived

\* What Remove changes.
LEMMA RemoveIs ==
  ASSUME NEW x, x \in States, NEW id, id \in x.s.completions, x.s.phase # "destroyed"
  PROVE  LET y == Remove(x, id)
         IN  /\ y \in States /\ y.o = x.o /\ y.c = x.c
             /\ y.s.completions = x.s.completions \ {id}
             /\ y.s.writes = x.s.writes /\ y.s.active = x.s.active /\ Same(x, y)
<1> DEFINE s2 == [x.s EXCEPT !.completions = @ \ {id}]
           g1 == Fail(id \notin x.s.completions, "missing completion")
           g2 == Fail(x.s.phase = "destroyed", "callback of a destroyed stream")
<1>1. x.s \in Streams /\ x = [s |-> x.s, o |-> x.o, c |-> x.c, f |-> x.f] /\ x.f = {}
  BY DEF States
<1>2. g1 = {} /\ g2 = {}
  BY Zenon DEF Fail
<1>3. Remove(x, id) = [x EXCEPT !.s.completions = @ \ {id}, !.f = @ \cup g1 \cup g2]
  BY DEF Remove
<1>4. s2 \in Streams /\ s2.completions = x.s.completions \ {id}
      /\ s2.writes = x.s.writes /\ s2.active = x.s.active
      /\ s2.phase = x.s.phase /\ s2.observer = x.s.observer /\ s2.finished = x.s.finished
  BY <1>1 DEF Streams
<1> HIDE DEF g1, g2
<1>5. Remove(x, id) = [x EXCEPT !.s = s2, !.f = @ \cup g1 \cup g2]
  BY <1>1, <1>3
<1>6. x.f \cup g1 \cup g2 = {}
  BY <1>1, <1>2
<1> HIDE DEF s2
<1>7. Remove(x, id) = [s |-> s2, o |-> x.o, c |-> x.c, f |-> {}]
  BY <1>1, <1>5, <1>6
<1> QED
  BY <1>1, <1>4, <1>7 DEF States, Same

\* A completion whose operation has arrived is removed as it runs.
Removable(x, A, e) ==
  /\ e \in A /\ x.o[e.op].callback
  /\ \A d \in A : d.op = e.op => d = e
  /\ x.s.phase # "destroyed"

\* Nothing else is disturbed.
Removed(x, y, e, A, l) ==
  /\ Good(y, A \ {e}, l) /\ Same(x, y)
  /\ y.o = x.o /\ y.c = x.c /\ y.s.active = x.s.active /\ y.s.writes = x.s.writes
  /\ y.s.completions = x.s.completions \ {e.op} /\ e.op \in x.s.completions

\* Remove does that.
LEMMA RemoveKeeps ==
  ASSUME NEW x, NEW A, NEW l, Good(x, A, l), NEW e, Removable(x, A, e)
  PROVE  Removed(x, Remove(x, e.op), e, A, l)
<1> DEFINE y == Remove(x, e.op)
<1>1. x \in States /\ Tracked(x, A) /\ OneEach(x) /\ Flows(x, A, l)
  BY DEF Good
<1>2. e.op \in x.s.completions /\ x.o[e.op].off /\ e.op \notin x.c.pending
  BY <1>1 DEF Tracked, Removable
<1>3. /\ y \in States /\ y.o = x.o /\ y.c = x.c
      /\ y.s.completions = x.s.completions \ {e.op}
      /\ y.s.writes = x.s.writes /\ y.s.active = x.s.active /\ Same(x, y)
  BY <1>1, <1>2, RemoveIs DEF Removable
<1> HIDE DEF y
<1>4. Tracked(y, A \ {e})
  <2>1. y.c.pending \subseteq y.s.completions
    BY <1>1, <1>2, <1>3 DEF Tracked
  <2>2. ASSUME NEW i, i \in y.s.completions
        PROVE  /\ i \in DOMAIN y.o /\ y.o[i].callback
               /\ y.o[i].off => \E d \in A \ {e} : d.op = i
               /\ ~y.o[i].off <=> i \in y.c.pending
    BY <1>1, <1>2, <1>3, <2>2 DEF Tracked
  <2>3. ASSUME NEW d, d \in A \ {e}
        PROVE  /\ d.op \in DOMAIN y.o /\ y.o[d.op].off
               /\ y.o[d.op].callback => d.op \in y.s.completions
    BY <1>1, <1>2, <1>3, <2>3 DEF Tracked, Removable
  <2> QED
    BY <2>1, <2>2, <2>3 DEF Tracked
<1>5. OneEach(y)
  BY <1>1, <1>3 DEF OneEach
<1>6. Flows(y, A \ {e}, l)
  BY <1>1, <1>3 DEF Flows
<1> QED
  BY <1>2, <1>3, <1>4, <1>5, <1>6 DEF Good, Removed, y

\* A change of the phase, the observer, the registration, the call's state, or to
\* finished.
LEMMA OtherFields ==
  ASSUME NEW x, NEW y, NEW A, NEW l, Good(x, A, l), y \in States,
         y.o = x.o, y.c.pending = x.c.pending, y.s.completions = x.s.completions,
         y.s.writes = x.s.writes, y.s.active = x.s.active
  PROVE  Good(y, A, l)
BY DEF Good, Tracked, OneEach, Flows

\* What MarkFinished changes.
LEMMA MarkFinishedIs ==
  ASSUME NEW x, x \in States, ~x.s.finished
  PROVE  LET y == MarkFinished(x)
         IN  /\ y \in States /\ y.o = x.o /\ y.c = x.c
             /\ y.s.completions = x.s.completions /\ y.s.writes = x.s.writes
             /\ y.s.active = x.s.active /\ y.s.phase = x.s.phase
             /\ y.s.observer = x.s.observer /\ y.s.finished = TRUE
<1> DEFINE s2 == [x.s EXCEPT !.finished = TRUE]
           g == Fail(x.s.finished, "FinishGrpcCall called twice")
<1>1. x.s \in Streams /\ x = [s |-> x.s, o |-> x.o, c |-> x.c, f |-> x.f] /\ x.f = {}
  BY DEF States
<1>2. g = {}
  BY Zenon DEF Fail
<1>3. MarkFinished(x) = [x EXCEPT !.s.finished = TRUE, !.f = @ \cup g]
  BY DEF MarkFinished
<1>4. s2 \in Streams /\ s2.completions = x.s.completions
      /\ s2.writes = x.s.writes /\ s2.active = x.s.active
      /\ s2.phase = x.s.phase /\ s2.observer = x.s.observer /\ s2.finished = TRUE
  BY <1>1 DEF Streams
<1> HIDE DEF g
<1>5. MarkFinished(x) = [x EXCEPT !.s = s2, !.f = @ \cup g]
  BY <1>1, <1>3
<1>6. x.f \cup g = {}
  BY <1>1, <1>2
<1> HIDE DEF s2
<1>7. MarkFinished(x) = [s |-> s2, o |-> x.o, c |-> x.c, f |-> {}]
  BY <1>1, <1>5, <1>6
<1> QED
  BY <1>1, <1>4, <1>7 DEF States

\* A finished call waits for no write.
LEMMA MarkFinishedKeeps ==
  ASSUME NEW x, NEW A, NEW l, Good(x, A, l), ~x.s.finished,
         x.s.writes # <<>> => x.s.active
  PROVE  LET y == MarkFinished(x)
         IN  /\ Good(y, A, l) /\ Waits(y)
             /\ y.s.completions = x.s.completions /\ y.s.phase = x.s.phase
             /\ y.s.observer = x.s.observer /\ y.s.finished = TRUE
<1> DEFINE y == MarkFinished(x)
<1>1. /\ y \in States /\ y.o = x.o /\ y.c = x.c
      /\ y.s.completions = x.s.completions /\ y.s.writes = x.s.writes
      /\ y.s.active = x.s.active /\ y.s.phase = x.s.phase
      /\ y.s.observer = x.s.observer /\ y.s.finished = TRUE
  BY MarkFinishedIs DEF Good
<1> HIDE DEF y
<1>2. Good(y, A, l)
  BY <1>1, OtherFields
<1> QED
  BY <1>1, <1>2 DEF Waits, y

\* FastFinishCompletionsBlocking: when every operation is off the queue, no
\* completion of the stream is left and no callback of what has arrived.
LEMMA CancelKeeps ==
  ASSUME NEW x, NEW A, NEW l, Good(x, A, l), Waits(x),
         \A i \in x.s.completions : x.o[i].off,
         x.s.finished \/ x.s.completions = {}
  PROVE  LET y == CancelCompletions(x)
         IN  Good(y, A, l) /\ Waits(y) /\ Same(x, y) /\ y.s.completions = {}
<1> DEFINE y  == CancelCompletions(x)
           s2 == [x.s EXCEPT !.completions = {}]
           o2 == [i \in DOMAIN x.o |-> IF i \in x.s.completions
                                      THEN [x.o[i] EXCEPT !.callback = FALSE] ELSE x.o[i]]
<1>1. x \in States /\ Tracked(x, A) /\ OneEach(x) /\ Flows(x, A, l)
  BY DEF Good
<1>2. /\ x.s \in Streams /\ x.o \in Seq(Ops) /\ x.c \in Calls
      /\ x = [s |-> x.s, o |-> x.o, c |-> x.c, f |-> {}]
  BY <1>1 DEF States
<1>3. \A op \in Ops : LET p == [op EXCEPT !.callback = FALSE]
                     IN  /\ p \in Ops /\ ~p.callback /\ p.kind = op.kind
                         /\ p.off = op.off /\ p.message = op.message
  BY DEF Ops
<1>4. /\ DOMAIN o2 = DOMAIN x.o /\ o2 \in Seq(Ops)
      /\ \A i \in DOMAIN o2 : /\ o2[i].off = x.o[i].off /\ o2[i].kind = x.o[i].kind
                              /\ o2[i].callback <=> x.o[i].callback /\ i \notin x.s.completions
  <2>1. DOMAIN o2 = 1..Len(x.o) /\ Len(x.o) \in Nat /\ DOMAIN x.o = 1..Len(x.o)
    BY <1>2
  <2>2. \A i \in DOMAIN o2 : /\ o2[i] \in Ops /\ o2[i].off = x.o[i].off
                             /\ o2[i].kind = x.o[i].kind
                             /\ o2[i].callback <=> x.o[i].callback /\ i \notin x.s.completions
    BY <1>2, <1>3, <2>1
  <2>3. o2 = [i \in 1..Len(x.o) |-> o2[i]]
    BY <2>1
  <2> HIDE DEF o2
  <2>4. o2 \in Seq(Ops)
    BY <2>1, <2>2, <2>3
  <2> QED
    BY <2>1, <2>2, <2>4
<1>5. s2 \in Streams /\ s2.completions = {} /\ s2.writes = x.s.writes
      /\ s2.active = x.s.active /\ s2.phase = x.s.phase /\ s2.observer = x.s.observer
      /\ s2.finished = x.s.finished
  BY <1>2 DEF Streams
<1>6. CancelCompletions(x) = [s |-> s2, o |-> o2, c |-> x.c, f |-> {}]
  <2>1. CancelCompletions(x) = [x EXCEPT !.o = o2, !.s = s2]
    BY <1>2 DEF CancelCompletions
  <2>2. x = [s |-> x.s, o |-> x.o, c |-> x.c, f |-> x.f] /\ x.f = {}
    BY <1>1 DEF States
  <2> HIDE DEF o2, s2, y
  <2> QED
    BY <2>1, <2>2
<1> HIDE DEF o2, s2
<1>7. y \in States /\ y.s = s2 /\ y.o = o2 /\ y.c = x.c
  BY <1>2, <1>4, <1>5, <1>6 DEF States
<1> HIDE DEF y
<1>8. x.c.pending = {}
  BY <1>1 DEF Tracked
<1>9. \A e \in A : e.op \in DOMAIN y.o /\ y.o[e.op].off /\ ~y.o[e.op].callback
  BY <1>1, <1>4, <1>7 DEF Tracked
<1>10. Tracked(y, A)
  BY <1>5, <1>7, <1>8, <1>9 DEF Tracked
<1>11. OneEach(y)
  BY <1>5, <1>7 DEF OneEach
<1>12. Flows(y, A, l)
  BY <1>1, <1>5, <1>7, <1>8, <1>9 DEF Flows
<1>13. Waits(y)
  BY <1>5, <1>7 DEF Waits
<1> QED
  BY <1>5, <1>7, <1>10, <1>11, <1>12, <1>13 DEF Good, Same, y

\* Shutdown before it blocks: the call is marked finished, once, if something has
\* to be waited for.
LEMMA ShutdownKeeps ==
  ASSUME NEW x, NEW A, NEW l, Good(x, A, l), Waits(x)
  PROVE  LET y == BeginShutdown(x)
         IN  /\ Good(y, A, l) /\ Waits(y)
             /\ y.s.completions = x.s.completions /\ y.s.phase = x.s.phase
             /\ y.s.observer = x.s.observer
             /\ NeedsFinish(x) => y.s.finished
             /\ x.s.finished => y.s.finished
<1>1. x \in States
  BY DEF Good
<1> DEFINE u  == Unregister(x)
           s2 == [x.s EXCEPT !.registered = FALSE]
           c2 == [x.c EXCEPT !.state = "broken"]
           v  == TryCancel(u)
<1>2. /\ x.s \in Streams /\ x.c \in Calls /\ x.o \in Seq(Ops)
      /\ x = [s |-> x.s, o |-> x.o, c |-> x.c, f |-> {}]
  BY <1>1 DEF States
<1>3. s2 \in Streams /\ s2.completions = x.s.completions /\ s2.writes = x.s.writes
      /\ s2.active = x.s.active /\ s2.phase = x.s.phase /\ s2.observer = x.s.observer
      /\ s2.finished = x.s.finished
  BY <1>2 DEF Streams
<1>4. c2 \in Calls /\ c2.pending = x.c.pending
  BY <1>2 DEF Calls
<1>5. u = [x EXCEPT !.s = s2]
  BY <1>2 DEF Unregister
<1> HIDE DEF s2
<1>6. u \in States /\ u.s = s2 /\ u.c = x.c /\ u.o = x.o
  BY <1>2, <1>3, <1>5 DEF States
<1>7. v = [u EXCEPT !.c = c2]
  BY <1>2, <1>6 DEF TryCancel, States
<1> HIDE DEF c2, u
<1>8. v \in States /\ v.s = s2 /\ v.c = c2 /\ v.o = x.o
  BY <1>4, <1>6, <1>7 DEF States
<1> HIDE DEF v
<1>9. Good(u, A, l) /\ Good(v, A, l)
  BY <1>3, <1>4, <1>6, <1>8, OtherFields
<1>10. CASE NeedsFinish(x)
  <2>1. BeginShutdown(x) = MarkFinished(v) /\ ~v.s.finished /\ (v.s.writes # <<>> => v.s.active)
    BY <1>3, <1>8, <1>10 DEF BeginShutdown, NeedsFinish, Waits, u, v
  <2> QED
    BY <1>3, <1>8, <1>9, <2>1, MarkFinishedKeeps
<1>11. CASE ~NeedsFinish(x)
  <2>1. BeginShutdown(x) = u
    BY <1>11 DEF BeginShutdown, u
  <2> QED
    BY <1>3, <1>6, <1>9, <1>11, <2>1 DEF Waits
<1> QED
  BY <1>10, <1>11

\* Numbers from 1 on.
LEMMA Counted ==
  ASSUME NEW s, s \in Seq(Nat), \A i \in 1..Len(s) : s[i] = i
  PROVE  s = [i \in 1..Len(s) |-> i]
<1>1. s = [i \in 1..Len(s) |-> s[i]]
  OBVIOUS
<1> QED
  BY <1>1

\* A read that has arrived is delivered: nothing else of the history changes.
Delivered(y, B, l) ==
  /\ Good(y, B, l) /\ l \in Logs /\ l.sent = Len(l.read) /\ Ordered(l)
  /\ \A i \in y.s.completions : y.o[i].kind # "read"

\* Its completion leaves the stream without a read.
LEMMA DeliverKeeps ==
  ASSUME NEW x, NEW A, NEW l, l \in Logs, Good(x, A, l), NEW e, Removable(x, A, e),
         e.ok, x.o[e.op].kind = "read", Ordered(l)
  PROVE  Delivered(Remove(x, e.op), A \ {e},
                   [l EXCEPT !.read = Append(@, x.o[e.op].message)])
<1> DEFINE y == Remove(x, e.op)
           m == x.o[e.op].message
           r == Append(l.read, m)
           l2 == [l EXCEPT !.read = r]
           B == A \ {e}
<1>1. x \in States /\ Tracked(x, A) /\ OneEach(x) /\ Flows(x, A, l)
  BY DEF Good
<1>0. Removed(x, y, e, A, l)
  BY RemoveKeeps
<1> HIDE DEF y
<1>2. /\ Good(y, B, l) /\ y.o = x.o
      /\ y.s.completions = x.s.completions \ {e.op} /\ e.op \in x.s.completions
      /\ y.s.writes = x.s.writes /\ y.s.active = x.s.active /\ y.c = x.c
  BY <1>0 DEF Removed
<1>3. y \in States /\ Tracked(y, B) /\ OneEach(y) /\ Flows(y, B, l)
  BY <1>2 DEF Good
<1>4. m = Len(l.read) + 1 /\ l.sent = Len(l.read) + 1
  BY <1>1 DEF Flows, Removable
<1>5. l.read \in Seq(Nat) /\ Len(l.read) \in Nat /\ m \in Nat
  BY <1>4 DEF Logs
<1>6. r \in Seq(Nat) /\ Len(r) = Len(l.read) + 1
      /\ r = [i \in 1..Len(r) |-> i]
  <2>1. \A i \in 1..Len(l.read) : l.read[i] = i
    BY DEF Ordered
  <2> DEFINE q == l.read
  <2>2. q \in Seq(Nat) /\ Len(q) \in Nat /\ m = Len(q) + 1 /\ \A i \in 1..Len(q) : q[i] = i
    BY <1>4, <1>5, <2>1
  <2> HIDE DEF q, m
  <2>3. LET s == Append(q, m)
        IN  /\ s \in Seq(Nat) /\ Len(s) = Len(q) + 1
            /\ \A i \in 1..Len(s) : s[i] = i
    BY <2>2
  <2>4. LET s == Append(q, m) IN s = [i \in 1..Len(s) |-> i]
    BY <2>3, Counted
  <2> QED
    BY <2>3, <2>4 DEF q
<1> HIDE DEF r, m
<1>7. l2 \in Logs /\ l2.read = r /\ l2.sent = l.sent /\ l2.wire = l.wire /\ l2.written = l.written
  BY <1>6 DEF Logs
<1> HIDE DEF l2
<1>8. \A i \in y.s.completions : y.o[i].kind # "read"
  BY <1>1, <1>2 DEF OneEach
<1>9. Flows(y, B, l2)
  <2>1. \A i \in y.c.pending : y.o[i].kind # "read"
    BY <1>3, <1>8 DEF Tracked
  <2>2. \A d \in B : d.ok /\ y.o[d.op].callback => y.o[d.op].kind # "read"
    BY <1>3, <1>8 DEF Tracked
  <2> QED
    BY <1>3, <1>7, <2>1, <2>2 DEF Flows
<1>10. Good(y, B, l2) /\ Ordered(l2)
  BY <1>3, <1>6, <1>7, <1>9 DEF Good, Ordered
<1> QED
  BY <1>4, <1>6, <1>7, <1>8, <1>10 DEF Delivered, y, l2, r, m

\* A write that has come back is given up, and the next one starts.
LEMMA DequeueKeeps ==
  ASSUME NEW x, NEW A, NEW l, l \in Logs, Good(x, A, l), NEW e, Removable(x, A, e),
         e.ok, x.o[e.op].kind = "write"
  PROVE  Keeps(x, DequeueNextWrite(Remove(x, e.op)), A \ {e}, l)
<1> DEFINE y == Remove(x, e.op)
           s2 == [y.s EXCEPT !.active = FALSE]
           z == [y EXCEPT !.s = s2]
           B == A \ {e}
<1>1. x \in States /\ Tracked(x, A) /\ OneEach(x) /\ Flows(x, A, l)
  BY DEF Good
<1>0. Removed(x, y, e, A, l)
  BY RemoveKeeps
<1> HIDE DEF y
<1>2. /\ Good(y, B, l) /\ y.o = x.o /\ Same(x, y)
      /\ y.s.completions = x.s.completions \ {e.op} /\ e.op \in x.s.completions
      /\ y.s.writes = x.s.writes
  BY <1>0 DEF Removed
<1>3. \A i \in y.s.completions : y.o[i].kind # "write"
  BY <1>1, <1>2 DEF OneEach
<1>4. l.written - Len(x.s.writes) = Len(l.wire)
  BY <1>1 DEF Flows, Removable
<1>5. y \in States /\ Tracked(y, B) /\ OneEach(y) /\ Flows(y, B, l)
      /\ y = [s |-> y.s, o |-> y.o, c |-> y.c, f |-> {}] /\ y.s \in Streams
  BY <1>2 DEF Good, States
<1>6. DequeueNextWrite(y) = TryStartWrite(z)
  <2>1. [y EXCEPT !.s.active = FALSE] = z
    BY <1>5 DEF Streams
  <2> HIDE DEF z
  <2> QED
    BY <2>1 DEF DequeueNextWrite
<1>7. s2 \in Streams /\ s2.completions = y.s.completions /\ s2.writes = y.s.writes
      /\ s2.active = FALSE /\ s2.phase = y.s.phase /\ s2.observer = y.s.observer
      /\ s2.finished = y.s.finished
  BY <1>5 DEF Streams
<1> HIDE DEF s2
<1>8. z \in States /\ z.s = s2 /\ z.o = y.o /\ z.c = y.c
  BY <1>5, <1>7 DEF States
<1> HIDE DEF z
<1>9. Good(z, B, l)
  <2>1. Tracked(z, B) /\ OneEach(z)
    BY <1>3, <1>5, <1>7, <1>8 DEF Tracked, OneEach
  <2>2. Flows(z, B, l)
    BY <1>2, <1>4, <1>5, <1>7, <1>8 DEF Flows
  <2> QED
    BY <1>8, <2>1, <2>2 DEF Good
<1>10. Keeps(z, TryStartWrite(z), B, l)
  BY <1>7, <1>8, <1>9, TryStartKeeps
<1> QED
  BY <1>2, <1>6, <1>7, <1>8, <1>10 DEF Keeps, Same, y

-----------------------------------------------------------------------------
(* The actions *)

\* The state after an operation is the record it computes.
LEMMA BecomesIs ==
  ASSUME NEW y, y \in States, Becomes(y)
  PROVE  Now' = y
BY DEF Becomes, Now, States

\* The stream and what has arrived, by name.
LEMMA Parts ==
  ASSUME IInv
  PROVE  /\ poller \in Entries /\ queue \in Seq(Entries) /\ log \in Logs
         /\ Distinct(queue, poller) /\ Good(Now, Arrived(queue, poller), log)
         /\ Waits(Now) /\ Ordered(log) /\ InPlan(Now, worker)
         /\ Now \in States /\ failed = {}
         /\ Now.s = stream /\ Now.o = ops /\ Now.c = call
         /\ stream \in Streams /\ ops \in Seq(Ops) /\ call \in Calls
BY DEF IInv, Whole, Good, States, Now

\* An idle worker, with a stream in use.
LEMMA IdlePlan ==
  ASSUME NEW y, y.s.phase = "open", y.s.observer
  PROVE  InPlan(y, <<>>)
<1>1. <<>> \in Plans
  BY Zenon DEF Plans
<1>2. <<>> \notin Finishes
  BY DEF Finishes, Finishing
<1> QED
  BY <1>1, <1>2 DEF InPlan

\* A worker that will shut the stream down.
LEMMA ClosePlan ==
  ASSUME NEW y, y.s.phase = "open", y.s.observer,
         NEW e, e \in {"unset", "notify"}, NEW w,
         w \in {<<"shutdown", e, "destroy">>, <<"last_write", "shutdown", e, "destroy">>}
  PROVE  InPlan(y, w)
<1>1. w \in Plans
  BY Zenon DEF Plans, Closing
<1>2. w \notin Finishes
  BY DEF Finishes, Finishing
<1>3. w # <<>> /\ Head(w) \in {"shutdown", "last_write"}
  <2>1. CASE w = <<"shutdown", e, "destroy">>
    BY <2>1
  <2>2. CASE w = <<"last_write", "shutdown", e, "destroy">>
    BY <2>2
  <2> QED
    BY <2>1, <2>2
<1> QED
  BY <1>1, <1>2, <1>3 DEF InPlan

\* Init.
LEMMA InitKeeps == Init => IInv
<1> SUFFICES ASSUME Init PROVE IInv
  OBVIOUS
<1>1. /\ poller = NoOp /\ queue = <<>> /\ worker = <<>> /\ ops = <<>>
      /\ log = [written |-> 0, wire |-> <<>>, sent |-> 0, read |-> <<>>, finishes |-> 0]
      /\ NoOp = [op |-> 0, ok |-> FALSE]
      /\ stream = [phase |-> "new", observer |-> TRUE, registered |-> TRUE,
                   finished |-> FALSE, completions |-> {}, writes |-> <<>>, active |-> FALSE]
      /\ call = [state |-> "idle", pending |-> {}] /\ failed = {}
  BY DEF Init, NoOp
<1>2. poller \in Entries /\ queue \in Seq(Entries) /\ log \in Logs
  BY <1>1 DEF Entries, Logs
<1>3. Arrived(queue, poller) = {}
  BY <1>1 DEF Arrived
<1>4. Distinct(queue, poller)
  BY <1>1 DEF Distinct
<1>5. Now.s = stream /\ Now.o = ops /\ Now.c = call /\ Now \in States
  <2>1. stream \in Streams /\ ops \in Seq(Ops) /\ call \in Calls
    BY <1>1 DEF Streams, Calls
  <2> QED
    BY <1>1, <2>1 DEF Now, States
<1>6. Good(Now, {}, log)
  <2>1. Tracked(Now, {}) /\ OneEach(Now)
    BY <1>1, <1>5 DEF Tracked, OneEach
  <2>2. Flows(Now, {}, log)
    <3>1. Now.s.writes = <<>> /\ Now.c.pending = {} /\ log.written = 0 /\ log.wire = <<>>
      BY <1>1, <1>5
    <3>2. <<>> = [k \in 1..Len(<<>>) |-> 0 - Len(<<>>) + k]
      <4> DEFINE w == <<>>
      <4>1. w \in Seq(Nat) /\ 0 \in Nat /\ \A k \in 1..Len(w) : w[k] = 0 - Len(w) + k
        OBVIOUS
      <4> HIDE DEF w
      <4>2. w = [k \in 1..Len(w) |-> 0 - Len(w) + k]
        BY <4>1, UpTo
      <4> QED
        BY <4>2 DEF w
    <3>3. Now.s.writes = [k \in 1..Len(Now.s.writes) |-> log.written - Len(Now.s.writes) + k]
      BY <3>1, <3>2
    <3>4. log.written - Len(Now.s.writes) = Len(log.wire)
      <4>1. Len(<<>>) = 0 /\ 0 - 0 = 0
        OBVIOUS
      <4> QED
        BY <3>1, <4>1
    <3> QED
      BY <3>1, <3>3, <3>4 DEF Flows
  <2> QED
    BY <1>5, <2>1, <2>2 DEF Good
<1>7. Waits(Now)
  BY <1>1, <1>5 DEF Waits
<1>8. Ordered(log)
  <2>1. log.wire = <<>> /\ log.read = <<>>
    BY <1>1
  <2> QED
    BY <2>1 DEF Ordered
<1>9. InPlan(Now, worker)
  <2>1. <<>> \in Plans
    BY Zenon DEF Plans
  <2>2. <<>> \notin Finishes
    BY DEF Finishes, Finishing
  <2> QED
    BY <1>1, <1>5, <2>1, <2>2 DEF InPlan
<1>10. log.sent = Len(log.read)
  BY <1>1
<1> QED
  BY <1>2, <1>3, <1>4, <1>6, <1>7, <1>8, <1>9, <1>10 DEF IInv, Whole

\* The start issues the first read.
LEMMA StartStep ==
  ASSUME IInv, Start
  PROVE  IInv'
<1> DEFINE x == Now
           A == Arrived(queue, poller)
           z == [Now EXCEPT !.s.phase = "open", !.c.state = "live"]
           s2 == [stream EXCEPT !.phase = "open"]
           c2 == [call EXCEPT !.state = "live"]
<1>1. stream.phase = "new" /\ Becomes(ReadNext(z)) /\ UNCHANGED <<poller, queue, worker, log>>
  BY DEF Start
<1>2. log.sent = Len(log.read)
  BY <1>1, Parts DEF IInv, Whole
<1>3. stream.completions = {} /\ worker = <<>> /\ stream.observer
  <2>1. InPlan(Now, worker) /\ Now.s = stream
    BY Parts
  <2>2. worker = <<>> /\ stream.completions = {}
    BY <1>1, <2>1 DEF InPlan
  <2>3. worker # <<"destroy">>
    BY <2>2
  <2> QED
    BY <1>1, <2>1, <2>2, <2>3 DEF InPlan
<1>4. z = [Now EXCEPT !.s = s2, !.c = c2]
  BY Parts DEF Now
<1>5. /\ s2 \in Streams /\ s2.completions = {} /\ s2.writes = stream.writes
      /\ s2.active = stream.active /\ s2.phase = "open" /\ s2.observer
      /\ s2.finished = stream.finished
  BY <1>3, Parts DEF Streams
<1>6. c2 \in Calls /\ c2.pending = call.pending
  BY Parts DEF Calls
<1> HIDE DEF s2, c2
<1>7. z \in States /\ z.s = s2 /\ z.c = c2 /\ z.o = ops
  <2>1. Now = [s |-> stream, o |-> ops, c |-> call, f |-> failed]
    BY DEF Now
  <2> HIDE DEF z
  <2>2. z = [s |-> s2, o |-> ops, c |-> c2, f |-> failed]
    BY <1>4, <2>1
  <2>3. failed = {} /\ ops \in Seq(Ops)
    BY Parts
  <2> QED
    BY <1>5, <1>6, <2>2, <2>3 DEF States
<1> HIDE DEF z
<1>8. Good(z, A, log) /\ Waits(z)
  <2>1. Good(z, A, log)
    BY <1>3, <1>5, <1>6, <1>7, Parts, OtherFields
  <2> QED
    BY <1>3, <1>5, <1>6, <1>7, <2>1, Parts DEF Waits
<1>9. Keeps(z, ReadNext(z), A, log)
  BY <1>2, <1>5, <1>7, <1>8, Parts, ReadNextKeeps
<1>10. Now' = ReadNext(z)
  BY <1>1, <1>9, BecomesIs DEF Keeps, Good
<1> HIDE DEF A
<1>11. InPlan(Now', worker')
  BY <1>1, <1>3, <1>5, <1>7, <1>9, <1>10, IdlePlan DEF Keeps, Same
<1>12. Good(Now', A, log) /\ Waits(Now')
  BY <1>9, <1>10 DEF Keeps
<1> QED
  BY <1>1, <1>2, <1>11, <1>12, Parts DEF IInv, Whole, A

\* A message that is written waits, or goes out.
LEMMA WriteStep ==
  ASSUME IInv, stream.phase = "open", stream.observer,
         Becomes(EnqueueWrite(Now, log.written + 1)),
         log' = [log EXCEPT !.written = @ + 1], UNCHANGED <<poller, queue>>,
         worker' = <<>> \/ \E e \in {"unset", "notify"} :
           worker' \in {<<"shutdown", e, "destroy">>, <<"last_write", "shutdown", e, "destroy">>}
  PROVE  IInv'
<1> DEFINE A == Arrived(queue, poller)
           l2 == [log EXCEPT !.written = @ + 1]
<1>1. l2 \in Logs /\ Keeps(Now, EnqueueWrite(Now, log.written + 1), A, l2)
  BY Parts, EnqueueKeeps
<1>2. Now' = EnqueueWrite(Now, log.written + 1)
  BY <1>1, BecomesIs DEF Keeps, Good
<1>3. Good(Now', A, log') /\ Waits(Now') /\ Now'.s.phase = "open" /\ Now'.s.observer
  BY <1>1, <1>2, Parts DEF Keeps, Same
<1>4. InPlan(Now', worker')
  BY <1>3, IdlePlan, ClosePlan
<1>5. Ordered(log')
  <2>1. log'.wire = log.wire /\ log'.read = log.read
    BY Parts DEF Logs
  <2> QED
    BY <2>1, Parts DEF Ordered
<1> HIDE DEF A
<1> QED
  BY <1>1, <1>3, <1>4, <1>5, Parts DEF IInv, Whole, A

\* An operation that only sets the worker to work.
LEMMA CloseStep ==
  ASSUME IInv, stream.phase = "open", stream.observer,
         UNCHANGED <<stream, ops, call, poller, queue, log, failed>>,
         \E e \in {"unset", "notify"} : worker' = <<"shutdown", e, "destroy">>
  PROVE  IInv'
<1>1. Now' = Now
  BY DEF Now
<1>2. InPlan(Now', worker')
  BY <1>1, Parts, ClosePlan
<1> DEFINE A == Arrived(queue, poller)
<1> HIDE DEF A
<1>3. Good(Now', A, log') /\ A' = A
  BY <1>1, Parts DEF A
<1> QED
  BY <1>1, <1>2, <1>3, Parts DEF IInv, Whole, A

\* A stream in use has its observer.
LEMMA InUseHas ==
  ASSUME IInv, InUse
  PROVE  stream.phase = "open" /\ stream.observer /\ worker = <<>>
BY Parts DEF InUse, InPlan

\* What the owner of the stream does.
LEMMA OwnerStep ==
  ASSUME IInv, Owner
  PROVE  IInv'
<1>1. CASE Start
  BY <1>1, StartStep
<1>2. CASE Write
  BY <1>2, InUseHas, WriteStep DEF Write
<1>3. CASE Stop
  BY <1>3, InUseHas, CloseStep DEF Stop
<1>4. CASE WriteAndFinish
  <2>1. CASE stream.finished
    BY <1>4, <2>1, InUseHas, CloseStep DEF WriteAndFinish
  <2>2. CASE ~stream.finished
    <3>1. <<>> \o <<"shutdown", "unset", "destroy">> = <<"shutdown", "unset", "destroy">>
      OBVIOUS
    <3>2. <<"last_write">> \o <<"shutdown", "unset", "destroy">> =
            <<"last_write", "shutdown", "unset", "destroy">>
      BY Cat13
    <3> QED
      BY <1>4, <2>2, <3>1, <3>2, InUseHas, WriteStep DEF WriteAndFinish
  <2> QED
    BY <2>1, <2>2
<1>5. CASE ConnectivityChanges
  BY <1>5, InUseHas, CloseStep DEF ConnectivityChanges
<1> QED
  BY <1>1, <1>2, <1>3, <1>4, <1>5 DEF Owner

\* A completion that comes up with its callback belongs to a stream in use.
LEMMA UpIs ==
  ASSUME IInv, worker = <<>>, queue # <<>>
  PROVE  LET e == Head(queue)
             A == Arrived(queue, poller)
         IN  /\ e = NextUp /\ Tail(queue) \in Seq(Entries) /\ Distinct(Tail(queue), poller)
             /\ Arrived(Tail(queue), poller) = A \ {e}
             /\ e \in A
             /\ ops[e.op].callback => /\ Removable(Now, A, e)
                                     /\ stream.phase = "open" /\ stream.observer
<1> DEFINE e == Head(queue)
           A == Arrived(queue, poller)
<1>1. /\ Tail(queue) \in Seq(Entries) /\ Distinct(Tail(queue), poller) /\ e \in A
      /\ Arrived(Tail(queue), poller) = A \ {e}
      /\ \A d \in A : d.op = e.op => d = e
  BY Parts, TakeUp
<1> HIDE DEF e, A
<1>2. ASSUME ops[e.op].callback
      PROVE  Removable(Now, A, e) /\ stream.phase = "open" /\ stream.observer
  <2>1. Tracked(Now, A) /\ InPlan(Now, worker) /\ Now.s = stream /\ Now.o = ops
    BY Parts DEF Good, A
  <2>2. e.op \in stream.completions
    BY <1>1, <1>2, <2>1 DEF Tracked
  <2>3. stream.phase = "open" /\ worker # <<"destroy">>
    BY <2>1, <2>2 DEF InPlan
  <2>4. stream.observer
    BY <2>1, <2>3 DEF InPlan
  <2> QED
    BY <1>1, <1>2, <2>1, <2>3, <2>4 DEF Removable
<1> QED
  BY <1>1, <1>2 DEF NextUp, e, A

\* A completion of another kind is no write.
LEMMA RemovedWaits ==
  ASSUME NEW x, NEW y, NEW e, NEW A, NEW l, Removed(x, y, e, A, l), Waits(x),
         x.o[e.op].kind # "write" \/ x.s.finished
  PROVE  Waits(y)
BY DEF Removed, Waits, Same

\* A cancelled completion is skipped.
LEMMA SkipStep ==
  ASSUME IInv, SkipCancelled
  PROVE  IInv'
<1> DEFINE e == Head(queue)
           A == Arrived(queue, poller)
           B == A \ {e}
<1>1. /\ worker = <<>> /\ queue # <<>> /\ ~ops[e.op].callback /\ queue' = Tail(queue)
      /\ UNCHANGED <<stream, ops, call, poller, worker, log, failed>>
  BY DEF SkipCancelled, NextUp
<1>2. /\ queue' \in Seq(Entries) /\ Distinct(queue', poller') /\ Arrived(queue', poller') = B
      /\ e \in A
  BY <1>1, UpIs
<1>3. Now' = Now
  BY <1>1 DEF Now
<1>4. Good(Now, A, log) /\ Now.o = ops
  BY Parts
<1> HIDE DEF A, e
<1>5. Good(Now, B, log)
  <2>1. Tracked(Now, B) 
    BY <1>1, <1>2, <1>4 DEF Good, Tracked
  <2>2. Flows(Now, B, log)
    BY <1>4 DEF Good, Flows
  <2> QED
    BY <1>4, <2>1, <2>2 DEF Good
<1> QED
  BY <1>1, <1>2, <1>3, <1>5, Parts DEF IInv, Whole

\* What is common to the callbacks that run: the stream is in use, and the rest is
\* what has arrived without the completion.
LEMMA RunStep ==
  ASSUME IInv, worker = <<>>, queue # <<>>, ops[NextUp.op].callback,
         queue' = Tail(queue), UNCHANGED poller, log' \in Logs, Ordered(log'),
         Good(Now', Arrived(queue, poller) \ {NextUp}, log'), Waits(Now'),
         Now'.s.phase # "new", InPlan(Now', worker')
  PROVE  IInv'
<1> DEFINE e == Head(queue)
           A == Arrived(queue, poller)
<1>1. /\ e = NextUp /\ queue' \in Seq(Entries) /\ Distinct(queue', poller')
      /\ Arrived(queue', poller') = A \ {e}
  BY UpIs
<1> HIDE DEF e
<1>2. Good(Now', Arrived(queue', poller'), log')
  BY <1>1
<1> HIDE DEF A
<1> QED
  BY <1>1, <1>2, Parts DEF IInv, Whole

\* A message is delivered, and the next read issued.
LEMMA OnReadStep ==
  ASSUME IInv, OnRead
  PROVE  IInv'
<1> DEFINE e == NextUp
           A == Arrived(queue, poller)
           B == A \ {e}
           y == Remove(Now, e.op)
           l2 == [log EXCEPT !.read = Append(@, ops[e.op].message)]
<1>1. /\ worker = <<>> /\ queue # <<>> /\ ops[e.op].callback
      /\ ops[e.op].kind = "read" /\ e.ok
      /\ queue' = Tail(queue) /\ UNCHANGED <<poller, worker>>
      /\ Becomes(ReadNext(y)) /\ log' = IF stream.observer THEN l2 ELSE log
  BY DEF OnRead, Runs
<1>2. Removable(Now, A, e) /\ stream.phase = "open" /\ stream.observer
  BY <1>1, UpIs
<1>3. Now.s = stream /\ Now.o = ops /\ log \in Logs /\ Good(Now, A, log) /\ Ordered(log)
      /\ Waits(Now) /\ log' = l2
  BY <1>1, <1>2, Parts
<1> HIDE DEF A, e, l2
<1>4. Removed(Now, y, e, A, log)
  BY <1>2, <1>3, RemoveKeeps
<1>5. Waits(y) /\ y.s.phase = "open" /\ y.s.observer
  BY <1>1, <1>2, <1>3, <1>4, RemovedWaits DEF Removed, Same
<1>6. /\ Good(y, B, l2) /\ l2 \in Logs /\ l2.sent = Len(l2.read) /\ Ordered(l2)
      /\ \A i \in y.s.completions : y.o[i].kind # "read"
  <2> DEFINE l3 == [log EXCEPT !.read = Append(@, Now.o[e.op].message)]
  <2>1. Delivered(y, B, l3)
    BY <1>1, <1>2, <1>3, DeliverKeeps
  <2>2. l3 = l2
    BY <1>3 DEF l2
  <2> HIDE DEF y, l3
  <2> QED
    BY <2>1, <2>2 DEF Delivered
<1> HIDE DEF y
<1>7. Keeps(y, ReadNext(y), B, l2)
  BY <1>5, <1>6, ReadNextKeeps
<1>8. Now' = ReadNext(y)
  BY <1>1, <1>7, BecomesIs DEF Keeps, Good
<1>9. Good(Now', B, log') /\ Waits(Now') /\ Now'.s.phase = "open" /\ Now'.s.observer
  BY <1>3, <1>5, <1>7, <1>8 DEF Keeps, Same
<1>10. InPlan(Now', worker')
  BY <1>1, <1>9, IdlePlan
<1> QED
  BY <1>1, <1>3, <1>6, <1>9, <1>10, RunStep DEF e, A

\* A write has come back: the next message goes out.
LEMMA OnWriteStep ==
  ASSUME IInv, OnWrite
  PROVE  IInv'
<1> DEFINE e == NextUp
           A == Arrived(queue, poller)
           B == A \ {e}
           y == DequeueNextWrite(Remove(Now, e.op))
<1>1. /\ worker = <<>> /\ queue # <<>> /\ ops[e.op].callback
      /\ ops[e.op].kind = "write" /\ e.ok
      /\ queue' = Tail(queue) /\ UNCHANGED <<poller, worker, log>>
      /\ Becomes(IF stream.observer THEN y ELSE Remove(Now, e.op))
  BY DEF OnWrite, Runs
<1>2. Removable(Now, A, e) /\ stream.phase = "open" /\ stream.observer
  BY <1>1, UpIs
<1>3. Now.s = stream /\ Now.o = ops /\ log \in Logs /\ Good(Now, A, log) /\ Ordered(log)
  BY <1>1, <1>2, Parts
<1> HIDE DEF A, e
<1>4. Keeps(Now, y, B, log)
  BY <1>1, <1>2, <1>3, DequeueKeeps
<1> HIDE DEF y
<1>5. Now' = y
  BY <1>1, <1>2, <1>4, BecomesIs DEF Keeps, Good
<1>6. Good(Now', B, log') /\ Waits(Now') /\ Now'.s.phase = "open" /\ Now'.s.observer
  BY <1>1, <1>2, <1>3, <1>4, <1>5 DEF Keeps, Same
<1>7. InPlan(Now', worker')
  BY <1>1, <1>6, IdlePlan
<1> QED
  BY <1>1, <1>3, <1>6, <1>7, RunStep DEF e, A

\* A failed operation finishes the call, the first time.
LEMMA OnFailedStep ==
  ASSUME IInv, OnOperationFailed
  PROVE  IInv'
<1> DEFINE e == NextUp
           A == Arrived(queue, poller)
           B == A \ {e}
           y == Remove(Now, e.op)
           z == MarkFinished(y)
<1>1. /\ worker = <<>> /\ queue # <<>> /\ ops[e.op].callback
      /\ queue' = Tail(queue) /\ UNCHANGED <<poller, log>>
      /\ stream.finished => Becomes(y) /\ UNCHANGED worker
      /\ ~stream.finished => Becomes(z) /\ worker' = <<"drain", "finish">>
  BY DEF OnOperationFailed, Runs, FinishGrpcCall
<1>2. Removable(Now, A, e) /\ stream.phase = "open" /\ stream.observer
  BY <1>1, UpIs
<1>3. Now.s = stream /\ Now.o = ops /\ log \in Logs /\ Good(Now, A, log) /\ Ordered(log)
      /\ Waits(Now)
  BY Parts
<1> HIDE DEF A, e
<1>4. Removed(Now, y, e, A, log)
  BY <1>2, <1>3, RemoveKeeps
<1> HIDE DEF y
<1>5. /\ Good(y, B, log) /\ y.s.phase = "open" /\ y.s.observer
      /\ y.s.finished = stream.finished /\ (y.s.writes # <<>> => y.s.active)
  BY <1>2, <1>3, <1>4 DEF Removed, Same, Waits
<1>6. CASE stream.finished
  <2>1. Waits(y)
    BY <1>3, <1>4, <1>6, RemovedWaits
  <2>2. Now' = y
    BY <1>1, <1>5, <1>6, BecomesIs DEF Good
  <2>3. InPlan(Now', worker')
    BY <1>1, <1>5, <1>6, <2>2, IdlePlan
  <2> QED
    BY <1>1, <1>3, <1>5, <2>1, <2>2, <2>3, RunStep DEF e, A
<1>7. CASE ~stream.finished
  <2>1. /\ Good(z, B, log) /\ Waits(z) /\ z.s.phase = "open" /\ z.s.observer
        /\ z.s.finished = TRUE
    BY <1>5, <1>7, MarkFinishedKeeps
  <2> HIDE DEF z
  <2>2. Now' = z
    BY <1>1, <1>7, <2>1, BecomesIs DEF Good
  <2>3. InPlan(z, <<"drain", "finish">>)
    <3>1. <<"drain", "finish">> \in Plans
      BY Zenon DEF Plans, Finishes
    <3>2. <<"drain", "finish">> # <<>> /\ Head(<<"drain", "finish">>) = "drain"
      OBVIOUS
    <3> QED
      BY <2>1, <3>1, <3>2 DEF InPlan
  <2> QED
    BY <1>1, <1>3, <1>7, <2>1, <2>2, <2>3, RunStep DEF e, A
<1> QED
  BY <1>6, <1>7

\* The status has arrived: the stream is about to be shut down.
LEMMA OnFinishStep ==
  ASSUME IInv, OnFinish
  PROVE  IInv'
<1> DEFINE e == NextUp
           A == Arrived(queue, poller)
           y == Remove(Now, e.op)
<1>1. /\ worker = <<>> /\ queue # <<>> /\ ops[e.op].callback /\ ops[e.op].kind = "finish"
      /\ queue' = Tail(queue) /\ UNCHANGED <<poller, log>>
      /\ Becomes(y) /\ worker' = <<"shutdown", "notify", "destroy">>
  BY DEF OnFinish, Runs
<1>2. Removable(Now, A, e) /\ stream.phase = "open" /\ stream.observer
  BY <1>1, UpIs
<1>3. Now.s = stream /\ Now.o = ops /\ log \in Logs /\ Good(Now, A, log) /\ Ordered(log)
      /\ Waits(Now)
  BY Parts
<1> HIDE DEF A, e
<1>4. Removed(Now, y, e, A, log)
  BY <1>2, <1>3, RemoveKeeps
<1> HIDE DEF y
<1>5. Waits(y)
  BY <1>1, <1>3, <1>4, RemovedWaits
<1>6. Good(y, A \ {e}, log) /\ y.s.phase = "open" /\ y.s.observer
  BY <1>2, <1>3, <1>4 DEF Removed, Same
<1>7. Now' = y
  BY <1>1, <1>6, BecomesIs DEF Good
<1>8. InPlan(Now', worker')
  BY <1>1, <1>6, <1>7, ClosePlan
<1> QED
  BY <1>1, <1>3, <1>5, <1>6, <1>7, <1>8, RunStep DEF e, A

\* Where a worker that has steps left is.
LEMMA AtHead ==
  ASSUME IInv, worker # <<>>
  PROVE  /\ Follows(worker, Head(worker), Tail(worker))
         /\ stream.phase = "open"
         /\ Head(worker) # "destroy" => stream.observer
         /\ Head(worker) \in {"finish", "unset", "notify", "destroy"} => stream.completions = {}
         /\ Head(worker) = "drain" => stream.finished \/ stream.completions = {}
         /\ worker \in Finishes => stream.finished
<1>1. InPlan(Now, worker) /\ Now.s = stream
  BY Parts
<1>2. Follows(worker, Head(worker), Tail(worker))
  BY <1>1, PlanSteps DEF InPlan
<1>3. Head(worker) # "destroy" => worker # <<"destroy">>
  BY <1>2 DEF Follows
<1> QED
  BY <1>1, <1>2, <1>3 DEF InPlan

\* The steps change neither what has arrived nor, but for the notification, the
\* history.
LEMMA WorkStep ==
  ASSUME IInv, UNCHANGED <<poller, queue>>,
         log' = log \/ \E n \in Nat : log' = [log EXCEPT !.finishes = n],
         Good(Now', Arrived(queue, poller), log), Waits(Now'),
         Now'.s.phase # "new", InPlan(Now', worker')
  PROVE  IInv'
<1> DEFINE A == Arrived(queue, poller)
<1>1. log' \in Logs /\ log'.wire = log.wire /\ log'.read = log.read
      /\ log'.written = log.written /\ log'.sent = log.sent
  BY Parts DEF Logs
<1> HIDE DEF A
<1>2. Good(Now', A, log')
  <2>1. Flows(Now', A, log')
    BY <1>1 DEF Good, Flows, A
  <2> QED
    BY <2>1 DEF Good, A
<1>3. Ordered(log')
  BY <1>1, Parts DEF Ordered
<1> QED
  BY <1>1, <1>2, <1>3, Parts DEF IInv, Whole, A

\* The wait is over.
LEMMA DrainStep ==
  ASSUME IInv, worker # <<>>, Drain
  PROVE  IInv'
<1> DEFINE A == Arrived(queue, poller)
           y == CancelCompletions(Now)
<1>1. /\ Head(worker) = "drain" /\ \A i \in stream.completions : ops[i].off
      /\ Becomes(y) /\ worker' = Tail(worker) /\ UNCHANGED <<poller, queue, log>>
  BY DEF Drain
<1>2. Now.s = stream /\ Now.o = ops /\ Good(Now, A, log) /\ Waits(Now)
  BY Parts
<1>3. /\ Follows(worker, "drain", Tail(worker)) /\ stream.phase = "open" /\ stream.observer
      /\ stream.finished \/ stream.completions = {}
      /\ worker \in Finishes => stream.finished
  BY <1>1, AtHead
<1>4. Good(y, A, log) /\ Waits(y) /\ Same(Now, y) /\ y.s.completions = {}
  BY <1>1, <1>2, <1>3, CancelKeeps
<1> HIDE DEF y, A
<1>5. Now' = y
  BY <1>1, <1>4, BecomesIs DEF Good
<1>6. Tail(worker) \in Plans /\ (Tail(worker) \in Finishes => worker \in Finishes)
      /\ Tail(worker) # <<>>
      /\ Head(Tail(worker)) \in {"finish", "unset", "notify"}
  BY <1>3 DEF Follows
<1>7. InPlan(y, Tail(worker))
  BY <1>2, <1>3, <1>4, <1>6 DEF InPlan, Same
<1> QED
  BY <1>1, <1>2, <1>3, <1>4, <1>5, <1>7, WorkStep DEF A, Same

\* The finish is issued alone.
LEMMA IssueFinishStep ==
  ASSUME IInv, worker # <<>>, IssueFinish
  PROVE  IInv'
<1> DEFINE A == Arrived(queue, poller)
           y == Issue(Now, "finish", 0)
<1>1. /\ Head(worker) = "finish" /\ Becomes(y) /\ worker' = Tail(worker)
      /\ UNCHANGED <<poller, queue, log>>
  BY DEF IssueFinish
<1>2. Now.s = stream /\ Now.c = call /\ Good(Now, A, log) /\ Waits(Now) /\ log \in Logs
  BY Parts
<1>3. /\ Follows(worker, "finish", Tail(worker)) /\ stream.phase = "open" /\ stream.observer
      /\ stream.completions = {} /\ (worker \in Finishes => stream.finished)
  BY <1>1, AtHead
<1>4. stream.finished /\ Tail(worker) \in Plans
      /\ (Tail(worker) # <<>> => Head(Tail(worker)) = "drain")
  BY <1>3 DEF Follows
<1>5. Now.c.pending = {}
  BY <1>2, <1>3 DEF Good, Tracked
<1>6. "finish" \in Kinds /\ 0 \in Nat /\ "finish" # "read" /\ "finish" # "write"
  BY DEF Kinds
<1>7. Issued(Now, y, "finish", A, log)
  BY <1>2, <1>5, <1>6, IssueKeeps
<1> HIDE DEF y, A
<1>8. Now' = y
  BY <1>1, <1>7, BecomesIs DEF Issued, Good
<1>9. Good(y, A, log) /\ Waits(y) /\ y.s.phase = "open" /\ y.s.observer /\ y.s.finished
  BY <1>2, <1>3, <1>4, <1>7 DEF Issued, Same
<1>10. InPlan(y, Tail(worker))
  BY <1>4, <1>9 DEF InPlan
<1> QED
  BY <1>1, <1>8, <1>9, <1>10, WorkStep DEF A

\* The last write was waited for.
LEMMA LastWriteStep ==
  ASSUME IInv, worker # <<>>, LastWriteDoneOrTimeout
  PROVE  IInv'
<1>1. /\ Head(worker) = "last_write" /\ worker' = Tail(worker) /\ Now' = Now
      /\ UNCHANGED <<poller, queue, log>>
  BY DEF LastWriteDoneOrTimeout, Now
<1>2. Now.s = stream /\ Good(Now, Arrived(queue, poller), log) /\ Waits(Now)
      /\ InPlan(Now, worker)
  BY Parts
<1>3. Follows(worker, "last_write", Tail(worker)) /\ stream.phase = "open" /\ stream.observer
      /\ (worker \in Finishes => stream.finished)
  BY <1>1, AtHead
<1>4. Tail(worker) \in Plans /\ Head(Tail(worker)) = "shutdown"
      /\ (Tail(worker) \in Finishes => worker \in Finishes)
  BY <1>3 DEF Follows
<1>5. InPlan(Now, Tail(worker))
  BY <1>2, <1>3, <1>4 DEF InPlan
<1> QED
  BY <1>1, <1>2, <1>3, <1>5, WorkStep

\* What Shutdown still has to do, before the rest r of the plan.
LEMMA ShutdownPlan ==
  ASSUME NEW y, NEW b \in BOOLEAN, y.s.phase = "open", y.s.observer,
         b => y.s.finished, y.s.finished \/ y.s.completions = {}, NEW r \in Ends
  PROVE  InPlan(y, (IF b THEN FinishGrpcCall \o <<"drain">> ELSE <<"drain">>) \o r)
<1> PICK e \in {"unset", "notify"} : r = <<e, "destroy">>
  BY DEF Ends
<1>1. CASE b
  <2> DEFINE w == <<"drain", "finish", "drain", e, "destroy">>
  <2>1. FinishGrpcCall \o <<"drain">> = <<"drain", "finish", "drain">>
    BY Cat21 DEF FinishGrpcCall
  <2>2. <<"drain", "finish", "drain">> \o r = w
    BY Cat32
  <2>3. w \in Plans
    BY Zenon DEF Plans, Finishes, Finishing
  <2>4. w # <<>> /\ Head(w) = "drain"
    OBVIOUS
  <2> HIDE DEF w
  <2>5. InPlan(y, w)
    BY <1>1, <2>3, <2>4 DEF InPlan
  <2> QED
    BY <1>1, <2>1, <2>2, <2>5
<1>2. CASE ~b
  <2> DEFINE w == <<"drain", e, "destroy">>
  <2>1. <<"drain">> \o r = w
    BY Cat12
  <2>2. w \in Plans
    BY Zenon DEF Plans, Closing
  <2>3. w \notin Finishes
    BY DEF Finishes, Finishing
  <2>4. w # <<>> /\ Head(w) = "drain"
    OBVIOUS
  <2> HIDE DEF w
  <2>5. InPlan(y, w)
    BY <2>2, <2>3, <2>4 DEF InPlan
  <2> QED
    BY <1>2, <2>1, <2>5
<1> QED
  BY <1>1, <1>2

\* Shutdown begins.
LEMMA ShutdownStep ==
  ASSUME IInv, worker # <<>>, Shutdown
  PROVE  IInv'
<1> DEFINE A == Arrived(queue, poller)
           y == BeginShutdown(Now)
           b == NeedsFinish(Now)
           r == Tail(worker)
<1>1. /\ Head(worker) = "shutdown" /\ Becomes(y) /\ UNCHANGED <<poller, queue, log>>
      /\ worker' = (IF b THEN FinishGrpcCall \o <<"drain">> ELSE <<"drain">>) \o r
  BY DEF Shutdown, ShutdownSteps
<1>2. Now.s = stream /\ Good(Now, A, log) /\ Waits(Now) /\ Now \in States
  BY Parts
<1>3. Follows(worker, "shutdown", r) /\ stream.phase = "open" /\ stream.observer
  BY <1>1, AtHead
<1>4. r \in Ends
  BY <1>3 DEF Follows
<1>5. /\ Good(y, A, log) /\ Waits(y) /\ y.s.completions = stream.completions
      /\ y.s.phase = "open" /\ y.s.observer
      /\ b => y.s.finished
      /\ stream.finished => y.s.finished
  BY <1>2, <1>3, ShutdownKeeps
<1>6. b \in BOOLEAN /\ (y.s.finished \/ y.s.completions = {})
  BY <1>2, <1>5 DEF NeedsFinish, States, Streams
<1> HIDE DEF y, A, b, r
<1>7. Now' = y
  BY <1>1, <1>5, BecomesIs DEF Good
<1>8. InPlan(y, worker')
  BY <1>1, <1>4, <1>5, <1>6, ShutdownPlan
<1> QED
  BY <1>1, <1>5, <1>7, <1>8, WorkStep DEF A

\* The observer is forgotten, or told and forgotten.
LEMMA ForgetStep ==
  ASSUME IInv, worker # <<>>, UnsetObserver \/ Notify
  PROVE  IInv'
<1> DEFINE A == Arrived(queue, poller)
           s2 == [stream EXCEPT !.observer = FALSE]
<1>1. /\ Head(worker) \in {"unset", "notify"} /\ worker' = Tail(worker) /\ stream' = s2
      /\ UNCHANGED <<poller, queue, ops, call, failed>>
      /\ log' = log \/ log' = [log EXCEPT !.finishes = IF stream.observer THEN @ + 1 ELSE @]
  BY DEF UnsetObserver, Notify
<1>2. Now.s = stream /\ Good(Now, A, log) /\ Waits(Now) /\ Now.o = ops /\ Now.c = call
      /\ stream \in Streams /\ ops \in Seq(Ops) /\ call \in Calls /\ failed = {}
      /\ log \in Logs
  BY Parts
<1>3. Follows(worker, Head(worker), Tail(worker)) /\ stream.phase = "open"
      /\ stream.completions = {}
  BY <1>1, AtHead
<1>4. Tail(worker) = <<"destroy">>
  BY <1>1, <1>3 DEF Follows
<1>5. /\ s2 \in Streams /\ s2.completions = {} /\ s2.writes = stream.writes
      /\ s2.active = stream.active /\ s2.phase = "open" /\ s2.finished = stream.finished
  BY <1>2, <1>3 DEF Streams
<1> HIDE DEF s2, A
<1>6. Now' \in States /\ Now'.s = s2 /\ Now'.o = Now.o /\ Now'.c = Now.c
  BY <1>1, <1>2, <1>5 DEF Now, States
<1>7. Good(Now', A, log)
  BY <1>2, <1>3, <1>5, <1>6, OtherFields
<1>8. Waits(Now')
  BY <1>2, <1>3, <1>5, <1>6 DEF Waits
<1>9. InPlan(Now', <<"destroy">>)
  <2>1. <<"destroy">> \in Plans
    BY Zenon DEF Plans
  <2>2. <<"destroy">> \notin Finishes
    BY DEF Finishes, Finishing
  <2>3. Head(<<"destroy">>) = "destroy"
    OBVIOUS
  <2> QED
    BY <1>5, <1>6, <2>1, <2>2, <2>3 DEF InPlan
<1>10. log' = log \/ \E n \in Nat : log' = [log EXCEPT !.finishes = n]
  <2> DEFINE n == IF stream.observer THEN log.finishes + 1 ELSE log.finishes
  <2>1. n \in Nat
    BY <1>2 DEF Logs
  <2>2. log' = log \/ log' = [log EXCEPT !.finishes = n]
    BY <1>1
  <2> HIDE DEF n
  <2> QED
    BY <2>1, <2>2
<1> QED
  BY <1>1, <1>4, <1>5, <1>6, <1>7, <1>8, <1>9, <1>10, WorkStep DEF A

\* The stream is destroyed after gRPC has given everything back.
LEMMA DestroyStep ==
  ASSUME IInv, worker # <<>>, Destroy
  PROVE  IInv'
<1> DEFINE A == Arrived(queue, poller)
           s2 == [stream EXCEPT !.phase = "destroyed"]
           g1 == Fail(stream.completions # {}, "destroyed without shutdown")
           g2 == Fail(call.pending # {}, "gRPC uses a destroyed call")
<1>1. /\ Head(worker) = "destroy" /\ worker' = Tail(worker) /\ stream' = s2
      /\ failed' = failed \cup g1 \cup g2
      /\ UNCHANGED <<poller, queue, ops, call, log>>
  BY DEF Destroy
<1>2. Now.s = stream /\ Good(Now, A, log) /\ Waits(Now) /\ Now.o = ops /\ Now.c = call
      /\ stream \in Streams /\ ops \in Seq(Ops) /\ call \in Calls /\ failed = {}
  BY Parts
<1>3. Follows(worker, "destroy", Tail(worker)) /\ stream.completions = {}
  BY <1>1, AtHead
<1>4. Tail(worker) = <<>>
  BY <1>3 DEF Follows
<1>5. call.pending = {}
  BY <1>2, <1>3 DEF Good, Tracked
<1>6. g1 = {} /\ g2 = {}
  BY <1>3, <1>5, Zenon DEF Fail
<1>7. /\ s2 \in Streams /\ s2.completions = {} /\ s2.writes = stream.writes
      /\ s2.active = stream.active /\ s2.phase = "destroyed" /\ s2.finished = stream.finished
  BY <1>2, <1>3 DEF Streams
<1> HIDE DEF s2, A, g1, g2
<1>8. failed' = {}
  BY <1>1, <1>2, <1>6
<1>9. Now' \in States /\ Now'.s = s2 /\ Now'.o = Now.o /\ Now'.c = Now.c
  BY <1>1, <1>2, <1>7, <1>8 DEF Now, States
<1>10. Good(Now', A, log)
  BY <1>2, <1>3, <1>7, <1>9, OtherFields
<1>11. Waits(Now')
  BY <1>2, <1>3, <1>7, <1>9 DEF Waits
<1>12. InPlan(Now', <<>>)
  <2>1. <<>> \in Plans
    BY Zenon DEF Plans
  <2>2. <<>> \notin Finishes
    BY DEF Finishes, Finishing
  <2> QED
    BY <1>7, <1>9, <2>1, <2>2 DEF InPlan
<1> QED
  BY <1>1, <1>4, <1>7, <1>9, <1>10, <1>11, <1>12, WorkStep DEF A

\* The steps of the methods that block.
LEMMA ContinueStep ==
  ASSUME IInv, Continue
  PROVE  IInv'
BY DrainStep, IssueFinishStep, LastWriteStep, ShutdownStep, ForgetStep, DestroyStep DEF Continue

\* The call breaks.
LEMMA BreakStep ==
  ASSUME IInv, Break
  PROVE  IInv'
<1> DEFINE A == Arrived(queue, poller)
           c2 == [call EXCEPT !.state = "broken"]
<1>1. call' = c2 /\ UNCHANGED <<stream, ops, poller, queue, worker, log, failed>>
  BY DEF Break
<1>2. Now.s = stream /\ Good(Now, A, log) /\ Waits(Now) /\ Now.o = ops /\ Now.c = call
      /\ stream \in Streams /\ ops \in Seq(Ops) /\ call \in Calls /\ failed = {}
      /\ InPlan(Now, worker)
  BY Parts
<1>3. c2 \in Calls /\ c2.pending = call.pending
  BY <1>2 DEF Calls
<1> HIDE DEF c2, A
<1>4. Now' \in States /\ Now'.s = Now.s /\ Now'.o = Now.o /\ Now'.c = c2
  BY <1>1, <1>2, <1>3 DEF Now, States
<1>5. Good(Now', A, log)
  BY <1>2, <1>3, <1>4, OtherFields
<1>6. Waits(Now') /\ InPlan(Now', worker)
  BY <1>2, <1>4 DEF Waits, InPlan
<1>7. A' = A
  BY <1>1 DEF A
<1>8. log'.sent = Len(log'.read) \/ Now'.s.phase # "new"
  BY <1>1, <1>4 DEF IInv, Whole
<1> QED
  BY <1>1, <1>5, <1>6, <1>8, Parts DEF IInv, Whole, A

\* The polling thread enqueues a callback.
LEMMA CompleteStep ==
  ASSUME IInv, Complete
  PROVE  IInv'
<1>1. /\ poller # NoOp /\ queue' = Append(queue, poller) /\ poller' = NoOp
      /\ UNCHANGED <<stream, ops, call, worker, log, failed>>
  BY DEF Complete
<1>2. Now' = Now
  BY <1>1 DEF Now
<1>3. NoOp \in Entries
  BY DEF NoOp, Entries
<1>4. /\ queue' \in Seq(Entries) /\ Distinct(queue', poller')
      /\ Arrived(queue', poller') = Arrived(queue, poller)
  BY <1>1, PutDown, Parts
<1> QED
  BY <1>1, <1>2, <1>3, <1>4 DEF IInv, Whole

\* An operation that comes back: what happens to the stream's side of it.
Returns(x, y, i) ==
  /\ i \in x.c.pending /\ y.c.pending = x.c.pending \ {i}
  /\ y.s = x.s /\ DOMAIN y.o = DOMAIN x.o
  /\ \A j \in DOMAIN x.o \ {i} : y.o[j] = x.o[j]
  /\ y.o[i].kind = x.o[i].kind /\ y.o[i].callback = x.o[i].callback /\ y.o[i].off

\* And to the history.
Counts(x, y, e, l, l2) ==
  /\ l2.written = l.written /\ Len(l2.read) = Len(l.read)
  /\ IF e.ok /\ x.o[e.op].kind = "read"
     THEN l2.sent = l.sent + 1 /\ y.o[e.op].message = l.sent + 1
     ELSE l2.sent = l.sent
  /\ Len(l2.wire) = IF e.ok /\ x.o[e.op].kind = "write" THEN Len(l.wire) + 1 ELSE Len(l.wire)

\* The operation has arrived, with the message that is next.
LEMMA TakeOffKeeps ==
  ASSUME NEW x, NEW y, NEW A, NEW l, NEW l2, NEW i, NEW e, l \in Logs, l2 \in Logs,
         Good(x, A, l), y \in States, e.op = i, Returns(x, y, i), Counts(x, y, e, l, l2)
  PROVE  Good(y, A \cup {e}, l2)
<1>0. /\ i \in x.c.pending /\ y.c.pending = x.c.pending \ {i}
      /\ y.s = x.s /\ DOMAIN y.o = DOMAIN x.o
      /\ \A j \in DOMAIN x.o : j # i => y.o[j] = x.o[j]
      /\ y.o[i].kind = x.o[i].kind /\ y.o[i].callback = x.o[i].callback /\ y.o[i].off
  BY DEF Returns
<1>1. x \in States /\ Tracked(x, A) /\ OneEach(x) /\ Flows(x, A, l)
  BY DEF Good
<1>2. i \in x.s.completions /\ i \in DOMAIN x.o /\ ~x.o[i].off /\ x.o[i].callback
  BY <1>0, <1>1 DEF Tracked
<1>8. /\ l.written \in Nat /\ Len(x.s.writes) \in Nat /\ Len(l.wire) \in Nat
      /\ Len(l.read) \in Nat /\ l.sent \in Nat
  BY <1>1 DEF States, Streams, Logs
<1>9. /\ l2.written = l.written /\ Len(l2.read) = Len(l.read)
      /\ e.ok /\ x.o[i].kind = "read" => l2.sent = l.sent + 1 /\ y.o[i].message = l.sent + 1
      /\ ~e.ok \/ x.o[i].kind # "read" => l2.sent = l.sent
      /\ e.ok /\ x.o[i].kind = "write" => Len(l2.wire) = Len(l.wire) + 1
      /\ ~e.ok \/ x.o[i].kind # "write" => Len(l2.wire) = Len(l.wire)
  BY DEF Counts
<1>3. \A d \in A : d.op \in DOMAIN x.o /\ d.op # i
                  /\ (x.o[d.op].callback => d.op \in x.s.completions)
  BY <1>0, <1>1, <1>2 DEF Tracked
<1>4. \A j \in x.s.completions :
        /\ j \in DOMAIN x.o
        /\ j # i /\ x.o[i].kind = x.o[j].kind => x.o[i].kind \notin {"read", "write"}
  BY <1>1, <1>2 DEF Tracked, OneEach
<1>5. Tracked(y, A \cup {e})
  <2>1. y.c.pending \subseteq y.s.completions
    BY <1>0, <1>1 DEF Tracked
  <2>2. ASSUME NEW j, j \in y.s.completions
        PROVE  /\ j \in DOMAIN y.o /\ y.o[j].callback
               /\ y.o[j].off => \E d \in A \cup {e} : d.op = j
               /\ ~y.o[j].off <=> j \in y.c.pending
    <3>1. j \in x.s.completions /\ j \in DOMAIN x.o
      BY <1>0, <1>4, <2>2
    <3>2. CASE j = i
      BY <1>0, <1>2, <3>1, <3>2
    <3>3. CASE j # i
      <4>1. y.o[j] = x.o[j] /\ (j \in y.c.pending <=> j \in x.c.pending)
        BY <1>0, <3>1, <3>3
      <4>2. /\ x.o[j].callback /\ (x.o[j].off => \E d \in A : d.op = j)
            /\ ~x.o[j].off <=> j \in x.c.pending
        BY <1>1, <3>1 DEF Tracked
      <4> QED
        BY <1>0, <3>1, <4>1, <4>2
    <3> QED
      BY <3>2, <3>3
  <2>3. ASSUME NEW d, d \in A \cup {e}
        PROVE  /\ d.op \in DOMAIN y.o /\ y.o[d.op].off
               /\ y.o[d.op].callback => d.op \in y.s.completions
    <3>1. CASE d \in A
      BY <1>0, <1>1, <1>3, <3>1 DEF Tracked
    <3>2. CASE d = e
      BY <1>0, <1>2, <3>2
    <3> QED
      BY <2>3, <3>1, <3>2
  <2> QED
    BY <2>1, <2>2, <2>3 DEF Tracked
<1>6. OneEach(y)
  BY <1>0, <1>1, <1>4 DEF OneEach
<1>7. Flows(y, A \cup {e}, l2)
  <2>1. y.s.writes = [k \in 1..Len(y.s.writes) |-> l2.written - Len(y.s.writes) + k]
    BY <1>0, <1>1, <1>9 DEF Flows
  <2>2. ~y.s.active => l2.written - Len(y.s.writes) = Len(l2.wire)
    BY <1>0, <1>1, <1>2, <1>9 DEF Flows, OneEach
  <2>3. ASSUME NEW j, j \in y.c.pending
        PROVE  /\ y.o[j].kind = "write" => /\ y.o[j].message = Len(l2.wire) + 1
                                           /\ l2.written - Len(y.s.writes) = Len(l2.wire) + 1
               /\ y.o[j].kind = "read" => l2.sent = Len(l2.read)
    <3>1. j \in x.c.pending /\ j # i /\ j \in x.s.completions /\ j \in DOMAIN x.o
      BY <1>0, <1>1, <2>3 DEF Tracked
    <3>2. CASE x.o[j].kind = "write"
      BY <1>0, <1>1, <1>4, <1>9, <3>1, <3>2 DEF Flows
    <3>3. CASE x.o[j].kind = "read"
      BY <1>0, <1>1, <1>4, <1>9, <3>1, <3>3 DEF Flows
    <3> QED
      BY <1>0, <3>1, <3>2, <3>3
  <2>4. ASSUME NEW d, d \in A \cup {e}, d.ok, y.o[d.op].callback
        PROVE  /\ y.o[d.op].kind = "write" => l2.written - Len(y.s.writes) = Len(l2.wire)
               /\ y.o[d.op].kind = "read" => /\ y.o[d.op].message = Len(l2.read) + 1
                                             /\ l2.sent = Len(l2.read) + 1
    <3>1. CASE d \in A
      <4>1. /\ d.op \in DOMAIN x.o /\ d.op # i /\ d.op \in x.s.completions
            /\ x.o[d.op].callback
        BY <1>0, <1>3, <2>4, <3>1
      <4>2. CASE x.o[d.op].kind = "write"
        BY <1>0, <1>1, <1>4, <1>9, <2>4, <3>1, <4>1, <4>2 DEF Flows
      <4>3. CASE x.o[d.op].kind = "read"
        BY <1>0, <1>1, <1>4, <1>9, <2>4, <3>1, <4>1, <4>3 DEF Flows
      <4> QED
        BY <1>0, <4>1, <4>2, <4>3
    <3>2. CASE d = e
      <4>1. CASE x.o[i].kind = "write"
        <5>1. /\ l.written - Len(x.s.writes) = Len(l.wire) + 1
              /\ Len(l2.wire) = Len(l.wire) + 1
          BY <1>0, <1>1, <1>9, <2>4, <3>2, <4>1 DEF Flows
        <5> QED
          BY <1>0, <1>8, <1>9, <3>2, <4>1, <5>1
      <4>2. CASE x.o[i].kind = "read"
        <5>1. l.sent = Len(l.read) /\ l2.sent = l.sent + 1 /\ y.o[i].message = l.sent + 1
          BY <1>0, <1>1, <1>9, <2>4, <3>2, <4>2 DEF Flows
        <5> QED
          BY <1>0, <1>8, <1>9, <3>2, <4>2, <5>1
      <4> QED
        BY <1>0, <3>2, <4>1, <4>2
    <3> QED
      BY <2>4, <3>1, <3>2
  <2> QED
    BY <2>1, <2>2, <2>3, <2>4 DEF Flows
<1> QED
  BY <1>5, <1>6, <1>7 DEF Good

\* What an operation that comes back leaves of the history.
Logged(l, l2, kind, ok) ==
  /\ l2 \in Logs /\ Ordered(l2) /\ l2.written = l.written /\ Len(l2.read) = Len(l.read)
  /\ l2.sent = IF ok /\ kind = "read" THEN l.sent + 1 ELSE l.sent
  /\ Len(l2.wire) = IF ok /\ kind = "write" THEN Len(l.wire) + 1 ELSE Len(l.wire)

Entry(l, kind, m, ok) ==
  IF ~ok THEN l
  ELSE CASE kind = "read"   -> [l EXCEPT !.sent = @ + 1]
         [] kind = "write"  -> [l EXCEPT !.wire = Append(@, m)]
         [] kind = "finish" -> l

\* The messages on the wire stay in order.
LEMMA TakeOffLog ==
  ASSUME NEW l, l \in Logs, Ordered(l), NEW kind, NEW m, m \in Nat, NEW ok \in BOOLEAN,
         kind \in Kinds, ok /\ kind = "write" => m = Len(l.wire) + 1
  PROVE  Logged(l, Entry(l, kind, m, ok), kind, ok)
<1> DEFINE l2 == Entry(l, kind, m, ok)
<1>0. l2 = IF ~ok THEN l
           ELSE CASE kind = "read"   -> [l EXCEPT !.sent = @ + 1]
                  [] kind = "write"  -> [l EXCEPT !.wire = Append(@, m)]
                  [] kind = "finish" -> l
  BY DEF Entry
<1> SUFFICES Logged(l, l2, kind, ok)
  OBVIOUS
<1> HIDE DEF l2
<1>1. CASE ok /\ kind = "read"
  <2> DEFINE n == l.sent + 1
  <2>1. l2 = [l EXCEPT !.sent = n] /\ n \in Nat
    BY <1>0, <1>1 DEF Logs
  <2> HIDE DEF n
  <2>2. /\ l2 \in Logs /\ l2.written = l.written /\ l2.wire = l.wire /\ l2.read = l.read
        /\ l2.sent = n
    BY <2>1 DEF Logs
  <2>3. Ordered(l2)
    BY <2>2 DEF Ordered
  <2> QED
    BY <1>1, <2>2, <2>3 DEF Logged, n
<1>2. CASE ok /\ kind = "write"
  <2> DEFINE w == Append(l.wire, m)
  <2>1. l2 = [l EXCEPT !.wire = w]
    BY <1>0, <1>2
  <2>2. w \in Seq(Nat) /\ Len(w) = Len(l.wire) + 1 /\ w = [i \in 1..Len(w) |-> i]
    <3> DEFINE q == l.wire
    <3>1. q \in Seq(Nat) /\ Len(q) \in Nat /\ m = Len(q) + 1 /\ \A i \in 1..Len(q) : q[i] = i
      BY <1>2 DEF Ordered, Logs
    <3> HIDE DEF q
    <3>2. LET s == Append(q, m)
          IN  s \in Seq(Nat) /\ Len(s) = Len(q) + 1 /\ \A i \in 1..Len(s) : s[i] = i
      BY <3>1
    <3>3. LET s == Append(q, m) IN s = [i \in 1..Len(s) |-> i]
      BY <3>2, Counted
    <3> QED
      BY <3>2, <3>3 DEF q
  <2> HIDE DEF w
  <2>3. /\ l2 \in Logs /\ l2.written = l.written /\ l2.wire = w /\ l2.read = l.read
        /\ l2.sent = l.sent
    BY <2>1, <2>2 DEF Logs
  <2>4. Ordered(l2)
    BY <2>2, <2>3 DEF Ordered
  <2> QED
    BY <1>2, <2>2, <2>3, <2>4 DEF Logged
<1>3. CASE ~ok \/ kind = "finish"
  <2>1. l2 = l
    BY <1>0, <1>3
  <2> QED
    BY <1>3, <2>1 DEF Logged
<1> QED
  BY <1>1, <1>2, <1>3 DEF Kinds

\* An operation comes back.
LEMMA TakeOffStep ==
  ASSUME IInv, NEW i, TakeOff(i)
  PROVE  IInv'
<1> DEFINE A == Arrived(queue, poller)
<1>1. PICK ok \in BOOLEAN :
        /\ poller' = [op |-> i, ok |-> ok]
        /\ ops' = [ops EXCEPT ![i].off = TRUE,
                              ![i].message = IF ops[i].kind = "read" /\ ok
                                             THEN log.sent + 1 ELSE @]
        /\ log' = IF ~ok THEN log
                  ELSE CASE ops[i].kind = "read"   -> [log EXCEPT !.sent = @ + 1]
                         [] ops[i].kind = "write"  -> [log EXCEPT !.wire =
                                                         Append(@, ops[i].message)]
                         [] ops[i].kind = "finish" -> log
  BY DEF TakeOff
<1>2. /\ poller = NoOp /\ i \in call.pending
      /\ call' = [call EXCEPT !.pending = @ \ {i}]
      /\ UNCHANGED <<stream, queue, worker, failed>>
  BY DEF TakeOff
<1>3. Now.s = stream /\ Good(Now, A, log) /\ Waits(Now) /\ Now.o = ops /\ Now.c = call
      /\ stream \in Streams /\ ops \in Seq(Ops) /\ call \in Calls /\ failed = {}
      /\ InPlan(Now, worker) /\ log \in Logs /\ Ordered(log)
      /\ queue \in Seq(Entries) /\ Distinct(queue, poller)
  BY Parts
<1>4. Tracked(Now, A) /\ Flows(Now, A, log)
  BY <1>3 DEF Good
<1> HIDE DEF A
<1>5. i \in stream.completions /\ i \in DOMAIN ops /\ ~ops[i].off /\ i \in Nat /\ i # 0
  <2>1. i \in stream.completions /\ i \in DOMAIN ops /\ ~ops[i].off
    BY <1>2, <1>3, <1>4 DEF Tracked
  <2>2. DOMAIN ops = 1..Len(ops) /\ Len(ops) \in Nat
    BY <1>3
  <2> QED
    BY <2>1, <2>2
<1>6. ops[i] \in Ops
  BY <1>3, <1>5
<1> DEFINE m == IF ops[i].kind = "read" /\ ok THEN log.sent + 1 ELSE ops[i].message
           op == [ops[i] EXCEPT !.off = TRUE, !.message = m]
<1>7. m \in Nat /\ ops[i].message \in Nat /\ ops[i].kind \in Kinds
  BY <1>3, <1>6 DEF Ops, Logs
<1>8. ops' = [ops EXCEPT ![i] = op]
  BY <1>1, <1>3, <1>5, <1>6 DEF Ops
<1>9. op \in Ops /\ op.off /\ op.kind = ops[i].kind /\ op.callback = ops[i].callback
      /\ op.message = m
  <2> HIDE DEF m
  <2> QED
    BY <1>6, <1>7 DEF Ops
<1>10. /\ ops' \in Seq(Ops) /\ DOMAIN ops' = DOMAIN ops /\ ops'[i] = op
       /\ \A j \in DOMAIN ops \ {i} : ops'[j] = ops[j]
  <2> HIDE DEF op
  <2> QED
    BY <1>3, <1>5, <1>8, <1>9
<1> HIDE DEF op
<1>11. call' \in Calls /\ call'.pending = call.pending \ {i}
  BY <1>2, <1>3 DEF Calls
<1>12. Now' \in States /\ Now'.s = stream /\ Now'.o = ops' /\ Now'.c = call'
  BY <1>2, <1>3, <1>10, <1>11 DEF Now, States
<1>13. Returns(Now, Now', i)
  BY <1>2, <1>3, <1>9, <1>10, <1>11, <1>12 DEF Returns
<1>14. ok /\ ops[i].kind = "write" => ops[i].message = Len(log.wire) + 1
  BY <1>2, <1>3, <1>4 DEF Flows
<1>15. /\ log' \in Logs /\ Ordered(log') /\ log'.written = log.written
       /\ Len(log'.read) = Len(log.read)
       /\ log'.sent = IF ok /\ ops[i].kind = "read" THEN log.sent + 1 ELSE log.sent
       /\ Len(log'.wire) = IF ok /\ ops[i].kind = "write" THEN Len(log.wire) + 1
                                                         ELSE Len(log.wire)
  <2>1. log' = Entry(log, ops[i].kind, ops[i].message, ok)
    BY <1>1 DEF Entry
  <2>2. Logged(log, Entry(log, ops[i].kind, ops[i].message, ok), ops[i].kind, ok)
    BY <1>3, <1>7, <1>14, TakeOffLog
  <2> QED
    BY <2>1, <2>2 DEF Logged
<1>16. poller'.op = i /\ poller'.ok = ok /\ poller' \in Entries
  BY <1>1, <1>5 DEF Entries
<1>17. Counts(Now, Now', poller', log, log')
  BY <1>3, <1>9, <1>10, <1>12, <1>15, <1>16 DEF Counts
<1>18. Good(Now', A \cup {poller'}, log')
  BY <1>3, <1>12, <1>13, <1>15, <1>16, <1>17, TakeOffKeeps
<1>19. Distinct(queue', poller') /\ Arrived(queue', poller') = A \cup {poller'}
  <2>1. \A k \in DOMAIN queue : queue[k].op # i
    BY <1>3, <1>4, <1>5 DEF Tracked, Arrived, A
  <2> QED
    BY <1>2, <1>3, <1>5, <1>16, <2>1, PickUp DEF A
<1>20. Waits(Now')
  <2>1. \A j \in stream.completions : ops'[j].kind = ops[j].kind
    BY <1>3, <1>4, <1>9, <1>10 DEF Tracked
  <2> QED
    BY <1>3, <1>12, <2>1 DEF Waits
<1>21. InPlan(Now', worker') /\ stream.phase = "open"
  BY <1>2, <1>3, <1>5, <1>12 DEF InPlan
<1> QED
  BY <1>2, <1>3, <1>12, <1>15, <1>16, <1>18, <1>19, <1>20, <1>21 DEF IInv, Whole

\* Nothing happens.
LEMMA StutterStep ==
  ASSUME IInv, UNCHANGED vars
  PROVE  IInv'
<1>1. Now' = Now /\ queue' = queue /\ poller' = poller /\ log' = log /\ worker' = worker
  BY DEF vars, Now
<1> QED
  BY <1>1 DEF IInv

-----------------------------------------------------------------------------

\* The inductive invariant: every completion of the stream is with gRPC or on its
\* way to the worker, and what a blocking method has left to do fits the stream.
THEOREM Invariance == Spec => []IInv
<1>1. Init => IInv
  BY InitKeeps
<1>2. IInv /\ [Next]_vars => IInv'
  <2> SUFFICES ASSUME IInv, [Next]_vars PROVE IInv'
    OBVIOUS
  <2>1. CASE Owner
    BY <2>1, OwnerStep
  <2>2. CASE OnCompletion
    BY <2>2, SkipStep, OnReadStep, OnWriteStep, OnFailedStep, OnFinishStep DEF OnCompletion
  <2>3. CASE Continue
    BY <2>3, ContinueStep
  <2>4. CASE Break
    BY <2>4, BreakStep
  <2>5. CASE Complete
    BY <2>5, CompleteStep
  <2>6. CASE \E i \in DOMAIN ops : TakeOff(i)
    BY <2>6, TakeOffStep
  <2>7. CASE UNCHANGED vars
    BY <2>7, StutterStep
  <2> QED
    BY <2>1, <2>2, <2>3, <2>4, <2>5, <2>6, <2>7 DEF Next
<1> QED
  BY <1>1, <1>2, PTL DEF Spec

\* In whatever order operations come back, fail and are cancelled, and whenever the
\* owner stops: no callback reaches a stream that is shut down or destroyed, gRPC has
\* one read and one write at a time, and a finish is issued once, alone.
THEOREM CallbacksAreSafe == Spec => []CompletionsAreSafe
<1>1. IInv => CompletionsAreSafe
  BY Parts DEF CompletionsAreSafe
<1> QED
  BY <1>1, Invariance, PTL

-----------------------------------------------------------------------------
(* A read is under way *)

\* A stream in use has a read under way until the call fails.
Reading(s, o) ==
  s.phase = "open" /\ ~s.finished => \E i \in s.completions : o[i].kind = "read"

\* More operations.
More(x, y) ==
  /\ y.s.phase = x.s.phase /\ y.s.finished = x.s.finished
  /\ \A i \in x.s.completions : i \in y.s.completions /\ y.o[i].kind = x.o[i].kind

Shaped(x) == x \in States /\ x.s.completions \subseteq DOMAIN x.o

\* Another record of the stream, with the same completions.
LEMMA StreamChanges ==
  ASSUME NEW x, Shaped(x), NEW s2 \in Streams,
         s2.completions = x.s.completions, s2.phase = x.s.phase, s2.finished = x.s.finished
  PROVE  LET z == [x EXCEPT !.s = s2]
         IN  Shaped(z) /\ More(x, z)
<1> DEFINE z == [x EXCEPT !.s = s2]
<1>1. z.s = s2 /\ z.o = x.o /\ z \in States
  BY DEF Shaped, States
<1> HIDE DEF z
<1>2. Shaped(z) /\ More(x, z)
  BY <1>1 DEF Shaped, More
<1> QED
  BY <1>2 DEF z

\* More operations leave a read under way.
LEMMA MoreReads ==
  ASSUME NEW x, NEW y, More(x, y), Reading(x.s, x.o)
  PROVE  Reading(y.s, y.o)
BY DEF More, Reading

\* Issue adds an operation of its kind.
LEMMA IssueAdds ==
  ASSUME NEW x, Shaped(x), NEW kind, NEW m
  PROVE  LET y == Issue(x, kind, m)
         IN  More(x, y) /\ \E i \in y.s.completions : y.o[i].kind = kind
<1> DEFINE id == Len(x.o) + 1
           op == [kind |-> kind, message |-> m, off |-> FALSE, callback |-> TRUE]
           g == Fail({i \in x.c.pending : kind = "finish" \/ x.o[i].kind = kind} # {},
                     "two operations at once")
           y == Issue(x, kind, m)
<1>1. y = [x EXCEPT !.o = Append(@, op), !.s.completions = @ \cup {id},
                    !.c.pending = @ \cup {id}, !.f = @ \cup g]
  BY DEF Issue
<1> HIDE DEF y, g
<1>2. y.o = Append(x.o, op) /\ y.s = [x.s EXCEPT !.completions = @ \cup {id}]
  BY <1>1 DEF Shaped, States
<1>3. /\ y.s.completions = x.s.completions \cup {id}
      /\ y.s.phase = x.s.phase /\ y.s.finished = x.s.finished
  BY <1>2 DEF Shaped, States, Streams
<1>4. op.kind = kind
  OBVIOUS
<1> HIDE DEF op
<1>5. y.o[id] = op /\ \A i \in DOMAIN x.o : y.o[i] = x.o[i]
  BY <1>2 DEF Shaped, States
<1>6. More(x, y)
  BY <1>3, <1>5 DEF More, Shaped
<1> QED
  BY <1>3, <1>4, <1>5, <1>6 DEF y

\* TryStartWrite keeps the operations there are.
LEMMA TryStartAdds ==
  ASSUME NEW x, Shaped(x)
  PROVE  More(x, TryStartWrite(x))
<1>1. CASE x.s.writes = <<>> \/ x.s.active
  BY <1>1 DEF TryStartWrite, More
<1>2. CASE ~(x.s.writes = <<>> \/ x.s.active)
  <2> DEFINE s2 == [x.s EXCEPT !.active = TRUE, !.writes = Tail(@)]
             z == [x EXCEPT !.s = s2]
  <2>1. x.s \in Streams /\ x = [s |-> x.s, o |-> x.o, c |-> x.c, f |-> x.f]
    BY DEF Shaped, States
  <2>2. Tail(x.s.writes) \in Seq(Nat)
    BY <1>2, <2>1 DEF Streams
  <2>3. /\ s2 \in Streams /\ s2.completions = x.s.completions
        /\ s2.phase = x.s.phase /\ s2.finished = x.s.finished
    BY <2>1, <2>2 DEF Streams
  <2>4. TryStartWrite(x) = Issue(z, "write", Head(x.s.writes))
    <3>1. [x EXCEPT !.s.active = TRUE, !.s.writes = Tail(@)] = z
      BY <2>1 DEF Streams
    <3> HIDE DEF z
    <3> QED
      BY <1>2, <3>1 DEF TryStartWrite
  <2> HIDE DEF s2
  <2>5. Shaped(z) /\ More(x, z)
    BY <2>3, StreamChanges
  <2> HIDE DEF z
  <2>6. More(z, Issue(z, "write", Head(x.s.writes)))
    BY <2>5, IssueAdds
  <2> QED
    BY <2>4, <2>5, <2>6 DEF More
<1> QED
  BY <1>1, <1>2

\* And so do the methods that call it.
LEMMA EnqueueAdds ==
  ASSUME NEW x, Shaped(x), NEW m \in Nat
  PROVE  More(x, EnqueueWrite(x, m))
<1> DEFINE w == Append(x.s.writes, m)
           s2 == [x.s EXCEPT !.writes = w]
           z == [x EXCEPT !.s = s2]
<1>1. x.s \in Streams /\ x = [s |-> x.s, o |-> x.o, c |-> x.c, f |-> x.f]
  BY DEF Shaped, States
<1>2. /\ s2 \in Streams /\ s2.completions = x.s.completions
      /\ s2.phase = x.s.phase /\ s2.finished = x.s.finished
  <2>1. w \in Seq(Nat)
    BY <1>1 DEF Streams
  <2> HIDE DEF w
  <2> QED
    BY <1>1, <2>1 DEF Streams
<1>3. EnqueueWrite(x, m) = TryStartWrite(z)
  <2>1. [x EXCEPT !.s.writes = Append(@, m)] = z
    BY <1>1 DEF Streams
  <2> HIDE DEF z
  <2> QED
    BY <2>1 DEF EnqueueWrite
<1> HIDE DEF s2
<1>4. Shaped(z) /\ More(x, z)
  BY <1>2, StreamChanges
<1> HIDE DEF z
<1> QED
  BY <1>3, <1>4, TryStartAdds DEF More

\* The same for the next write after one that has come back.
LEMMA DequeueAdds ==
  ASSUME NEW x, Shaped(x)
  PROVE  More(x, DequeueNextWrite(x))
<1> DEFINE s2 == [x.s EXCEPT !.active = FALSE]
           z == [x EXCEPT !.s = s2]
<1>1. x.s \in Streams /\ x = [s |-> x.s, o |-> x.o, c |-> x.c, f |-> x.f]
  BY DEF Shaped, States
<1>2. /\ s2 \in Streams /\ s2.completions = x.s.completions
      /\ s2.phase = x.s.phase /\ s2.finished = x.s.finished
  BY <1>1 DEF Streams
<1>3. DequeueNextWrite(x) = TryStartWrite(z)
  <2>1. [x EXCEPT !.s.active = FALSE] = z
    BY <1>1 DEF Streams
  <2> HIDE DEF z
  <2> QED
    BY <2>1 DEF DequeueNextWrite
<1> HIDE DEF s2
<1>4. Shaped(z) /\ More(x, z)
  BY <1>2, StreamChanges
<1> HIDE DEF z
<1> QED
  BY <1>3, <1>4, TryStartAdds DEF More

\* The calls of the owner leave a read under way, and the first one issues it.
LEMMA OwnerReads ==
  ASSUME IInv, Reading(stream, ops), Owner
  PROVE  Reading(stream', ops')
<1>1. /\ Now.s = stream /\ Now.o = ops /\ Now.c = call /\ stream \in Streams
      /\ ops \in Seq(Ops) /\ call \in Calls /\ log \in Logs /\ InPlan(Now, worker)
      /\ Tracked(Now, Arrived(queue, poller))
  BY Parts DEF Good
<1>2. Shaped(Now)
  BY Parts DEF Good, Shaped, Tracked
<1>3. log.written + 1 \in Nat
  BY <1>1 DEF Logs
<1>4. ASSUME Becomes(EnqueueWrite(Now, log.written + 1))
      PROVE  Reading(stream', ops')
  BY <1>1, <1>2, <1>3, <1>4, EnqueueAdds, MoreReads DEF Becomes
<1>5. CASE UNCHANGED <<stream, ops>>
  BY <1>5
<1>6. CASE Start
  <2> DEFINE s2 == [stream EXCEPT !.phase = "open"]
             c2 == [call EXCEPT !.state = "live"]
             z == [Now EXCEPT !.s = s2, !.c = c2]
  <2>1. stream.phase = "new" /\ Becomes(ReadNext(z))
    <3>1. [Now EXCEPT !.s.phase = "open", !.c.state = "live"] = z
      BY <1>1 DEF Now, Streams, Calls
    <3> HIDE DEF z
    <3> QED
      BY <1>6, <3>1 DEF Start
  <2>2. stream.observer
    <3>1. worker = <<>>
      BY <1>1, <2>1 DEF InPlan
    <3> QED
      BY <1>1, <2>1, <3>1 DEF InPlan
  <2>3. s2 \in Streams /\ s2.completions = stream.completions /\ s2.observer
    BY <1>1, <2>2 DEF Streams
  <2>4. c2 \in Calls
    BY <1>1 DEF Calls
  <2> HIDE DEF s2, c2
  <2>5. z \in States /\ z.s = s2 /\ z.o = ops
    BY <1>1, <1>2, <2>3, <2>4 DEF Shaped, States
  <2> HIDE DEF z
  <2>6. Shaped(z) /\ z.s.observer
    BY <1>1, <1>2, <2>3, <2>5 DEF Shaped
  <2>7. \E i \in stream'.completions : ops'[i].kind = "read"
    BY <2>1, <2>6, IssueAdds DEF ReadNext, Becomes
  <2> QED
    BY <2>7 DEF Reading
<1> QED
  BY <1>4, <1>5, <1>6 DEF Owner, Write, Stop, WriteAndFinish, ConnectivityChanges

\* A read that has come back is followed by another, unless the call has failed.
LEMMA CompletionReads ==
  ASSUME IInv, Reading(stream, ops), OnCompletion
  PROVE  Reading(stream', ops')
<1> DEFINE e == NextUp
           A == Arrived(queue, poller)
           y == Remove(Now, e.op)
<1>1. /\ Now.s = stream /\ Now.o = ops /\ Now.c = call /\ Good(Now, A, log)
  BY Parts
<1>2. CASE SkipCancelled
  BY <1>2 DEF SkipCancelled
<1> HIDE DEF e, A
<1>3. ASSUME NEW kind, NEW ok, Runs(kind, ok)
      PROVE  /\ y.o = ops /\ y.s.completions = stream.completions \ {e.op} /\ Shaped(y)
             /\ y.s.phase = stream.phase /\ y.s.finished = stream.finished
             /\ stream.observer /\ y.s.observer
             /\ kind # "read" => Reading(y.s, y.o)
  <2>1. worker = <<>> /\ queue # <<>> /\ ops[e.op].callback /\ ops[e.op].kind = kind
    BY <1>3 DEF Runs, e
  <2>2. Removable(Now, A, e) /\ stream.phase = "open" /\ stream.observer
    BY <2>1, UpIs DEF e, A
  <2>3. Removed(Now, y, e, A, log)
    BY <1>1, <2>2, RemoveKeeps
  <2> HIDE DEF y
  <2>4. /\ y.o = ops /\ y.s.completions = stream.completions \ {e.op}
        /\ y.s.phase = stream.phase /\ y.s.finished = stream.finished /\ y.s.observer
    BY <1>1, <2>2, <2>3 DEF Removed, Same
  <2>5. Shaped(y)
    BY <2>3 DEF Removed, Good, States, Tracked, Shaped
  <2>6. kind # "read" => Reading(y.s, y.o)
    BY <2>1, <2>4 DEF Reading
  <2> QED
    BY <2>2, <2>4, <2>5, <2>6
<1> HIDE DEF y
<1>4. CASE OnRead
  <2>1. Runs("read", TRUE) /\ Becomes(ReadNext(y))
    BY <1>4 DEF OnRead, y, e
  <2>2. Shaped(y) /\ y.s.observer
    BY <1>3, <2>1
  <2>3. \E i \in stream'.completions : ops'[i].kind = "read"
    BY <2>1, <2>2, IssueAdds DEF ReadNext, Becomes
  <2> QED
    BY <2>3 DEF Reading
<1>5. CASE OnWrite
  <2>1. Runs("write", TRUE)
        /\ Becomes(IF stream.observer THEN DequeueNextWrite(y) ELSE y)
    BY <1>5 DEF OnWrite, y, e
  <2>2. Shaped(y) /\ stream.observer /\ Reading(y.s, y.o)
    <3>1. "write" # "read"
      OBVIOUS
    <3> QED
      BY <1>3, <2>1, <3>1, Zenon
  <2>3. Reading(DequeueNextWrite(y).s, DequeueNextWrite(y).o)
    BY <2>2, DequeueAdds, MoreReads
  <2> QED
    BY <2>1, <2>2, <2>3 DEF Becomes
<1>6. CASE OnOperationFailed
  <2>1. PICK kind \in {"read", "write"} : Runs(kind, FALSE)
    BY <1>6 DEF OnOperationFailed
  <2>2. Shaped(y) /\ y.s.finished = stream.finished
    BY <1>3, <2>1
  <2>3. CASE stream.finished
    <3>1. Becomes(y)
      BY <1>6, <2>3 DEF OnOperationFailed, y, e
    <3> QED
      BY <2>2, <2>3, <3>1 DEF Becomes, Reading
  <2>4. CASE ~stream.finished
    <3>1. Becomes(MarkFinished(y))
      BY <1>6, <2>4 DEF OnOperationFailed, y, e
    <3>2. MarkFinished(y).s.finished
      BY <2>2 DEF MarkFinished, Shaped, States, Streams
    <3> QED
      BY <3>1, <3>2 DEF Becomes, Reading
  <2> QED
    BY <2>3, <2>4
<1>7. CASE OnFinish
  <2>1. Runs("finish", TRUE) /\ Becomes(y)
    BY <1>7 DEF OnFinish, y, e
  <2>2. Reading(y.s, y.o)
    <3>1. "finish" # "read"
      OBVIOUS
    <3> QED
      BY <1>3, <2>1, <3>1, Zenon
  <2> QED
    BY <2>1, <2>2 DEF Becomes
<1> QED
  BY <1>2, <1>4, <1>5, <1>6, <1>7 DEF OnCompletion

\* A method that blocks ends the call before it takes the read away.
LEMMA ContinueReads ==
  ASSUME IInv, Reading(stream, ops), Continue
  PROVE  Reading(stream', ops')
<1>1. /\ Now.s = stream /\ Now.o = ops /\ Now.c = call /\ stream \in Streams
      /\ ops \in Seq(Ops) /\ call \in Calls
      /\ Tracked(Now, Arrived(queue, poller))
  BY Parts DEF Good
<1>2. Shaped(Now)
  BY Parts DEF Good, Shaped, Tracked
<1>3. worker # <<>> /\ stream.phase = "open"
  BY AtHead DEF Continue
<1>4. stream.completions = {} => stream.finished
  BY <1>3 DEF Reading
<1>5. ASSUME stream'.finished
      PROVE  Reading(stream', ops')
  BY <1>5 DEF Reading
<1>6. CASE Drain
  <2> DEFINE o2 == [i \in DOMAIN ops |-> IF i \in stream.completions
                                         THEN [ops[i] EXCEPT !.callback = FALSE] ELSE ops[i]]
             y == [Now EXCEPT !.o = o2, !.s.completions = {}]
  <2>1. stream.finished
    BY <1>3, <1>4, <1>6, AtHead DEF Drain
  <2>2. CancelCompletions(Now) = y
    BY <1>1 DEF CancelCompletions, Now
  <2>3. y.s = [stream EXCEPT !.completions = {}]
    BY DEF Now
  <2> HIDE DEF y
  <2>4. stream'.finished
    BY <1>1, <1>6, <2>1, <2>2, <2>3 DEF Drain, Becomes, Streams
  <2> QED
    BY <1>5, <2>4
<1>7. CASE IssueFinish
  <2>1. More(Now, Issue(Now, "finish", 0))
    BY <1>2, IssueAdds
  <2> QED
    BY <1>1, <1>7, <2>1, MoreReads DEF IssueFinish, Becomes
<1>8. CASE LastWriteDoneOrTimeout
  BY <1>8 DEF LastWriteDoneOrTimeout
<1>9. CASE Shutdown
  <2> DEFINE x == Unregister(Now)
             z == TryCancel(x)
  <2>1. Becomes(BeginShutdown(Now))
    BY <1>9 DEF Shutdown
  <2>2. x.s = [stream EXCEPT !.registered = FALSE] /\ x \in States
    BY <1>1, <1>2 DEF Unregister, Shaped, States, Streams
  <2> HIDE DEF x
  <2>5. z.s = x.s /\ z \in States
    BY <2>2 DEF TryCancel, States, Calls
  <2>3. CASE NeedsFinish(Now)
    <3>1. stream' = MarkFinished(z).s
      BY <2>1, <2>3 DEF BeginShutdown, Becomes, x
    <3> HIDE DEF z
    <3>2. MarkFinished(z).s.finished
      BY <2>5 DEF MarkFinished, States, Streams
    <3> QED
      BY <1>5, <3>1, <3>2
  <2>4. CASE ~NeedsFinish(Now)
    <3>1. stream.finished
      BY <1>1, <1>4, <2>4 DEF NeedsFinish, Streams
    <3>2. stream' = x.s
      BY <2>1, <2>4 DEF BeginShutdown, Becomes, x
    <3>3. stream'.finished
      BY <1>1, <2>2, <3>1, <3>2 DEF Streams
    <3> QED
      BY <1>5, <3>3
  <2> QED
    BY <2>3, <2>4
<1>10. CASE UnsetObserver \/ Notify \/ Destroy
  <2>1. stream.finished
    BY <1>3, <1>4, <1>10, AtHead DEF UnsetObserver, Notify, Destroy
  <2>2. stream'.finished
    BY <1>1, <1>10, <2>1 DEF UnsetObserver, Notify, Destroy, Streams
  <2> QED
    BY <1>5, <2>2
<1> QED
  BY <1>6, <1>7, <1>8, <1>9, <1>10 DEF Continue

\* Every step leaves a read under way.
LEMMA ReadingStep ==
  ASSUME IInv, Reading(stream, ops), [Next]_vars
  PROVE  Reading(stream', ops')
<1>1. ASSUME NEW i, TakeOff(i)
      PROVE  Reading(stream', ops')
  <2>1. PICK o : ops' = [ops EXCEPT ![i].off = TRUE, ![i].message = o]
    BY <1>1 DEF TakeOff
  <2>2. stream' = stream /\ ops \in Seq(Ops) /\ Tracked(Now, Arrived(queue, poller))
        /\ Now.s = stream /\ Now.o = ops /\ Now.c = call /\ i \in call.pending
    BY <1>1, Parts DEF TakeOff, Good
  <2>3. \A j \in DOMAIN ops : ops[j] \in Ops
    BY <2>2
  <2>4. stream.completions \subseteq DOMAIN ops /\ i \in DOMAIN ops
    BY <2>2 DEF Tracked
  <2>5. \A j \in DOMAIN ops : ops'[j].kind = ops[j].kind
    BY <2>1, <2>3, <2>4 DEF Ops
  <2> QED
    BY <2>2, <2>4, <2>5 DEF Reading
<1>2. CASE Break \/ Complete \/ UNCHANGED vars
  BY <1>2 DEF Break, Complete, vars
<1> QED
  BY <1>1, <1>2, OwnerReads, CompletionReads, ContinueReads DEF Next

\* Messages go out and come in one by one, in order and without gaps, and until the
\* call fails a buffered message has an active write that will take it along, and an
\* open stream has a read under way.
THEOREM MessagesKeepFlowing == Spec => []MessagesFlow
<1>1. Init => Reading(stream, ops)
  BY DEF Init, Reading
<1>2. IInv /\ Reading(stream, ops) /\ [Next]_vars => Reading(stream, ops)'
  BY ReadingStep
<1>3. IInv /\ Reading(stream, ops) => MessagesFlow
  BY Parts DEF MessagesFlow, Ordered, Waits, Reading
<1> QED
  BY <1>1, <1>2, <1>3, Invariance, PTL DEF Spec
=============================================================================
