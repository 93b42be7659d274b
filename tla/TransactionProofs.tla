-------------------------- MODULE TransactionProofs --------------------------
(* The reads of a transaction are current when it commits, and transactions  *)
(* implement AtomicStore: for every number of clients, documents and          *)
(* attempts, every program, and every failure.                                *)
EXTENDS Transactions, FiniteSetTheorems, WellFoundedInduction, TLAPS

TxFields == {"pc", "versions", "values", "mutations", "written", "writeError",
             "permanentError"}

IsTx(t) ==
  /\ DOMAIN t = TxFields
  /\ t.writeError \in BOOLEAN
  /\ \E S : t.mutations \in Seq(S)

\* A missing document has no content, and no version is from the future.
DbOK ==
  /\ clock \in Nat
  /\ DOMAIN db = Docs
  /\ \A d \in Docs : /\ db[d].version \in 0..clock
                     /\ db[d].version = NoVersion => db[d].value = 0

\* What an attempt has read of a document is right while the version lasts.
ReadsOK(t) ==
  /\ IsFiniteSet(DOMAIN t.versions)
  /\ DOMAIN t.versions \subseteq Docs
  /\ DOMAIN t.values = DOMAIN t.versions
  /\ \A d \in DOMAIN t.versions :
       /\ t.versions[d] \in 0..clock
       /\ t.versions[d] = NoVersion => t.values[d] = 0
       /\ t.versions[d] = db[d].version => t.values[d] = db[d].value

\* The first of the mutations of d carries the version that was read.
Guards(m, d, version) ==
  /\ m.doc = d
  /\ \/ m.pre.kind = "missing" /\ version = NoVersion
     \/ m.pre.kind = "update_time" /\ m.pre.version = version

Guarded(ms, d, version) ==
  \E i \in DOMAIN ms : /\ Guards(ms[i], d, version)
                       /\ \A j \in DOMAIN ms : j < i => ms[j].doc # d

\* While the user's function runs, the documents it has written are those of
\* its mutations, and a write of a document that it has read before is guarded.
WritesOK(t) ==
  /\ \A i \in DOMAIN t.mutations : t.mutations[i].doc \in t.written
  /\ ~t.writeError =>
       /\ \A d \in t.written : \E i \in DOMAIN t.mutations : t.mutations[i].doc = d
       /\ \A d \in DOMAIN t.versions \cap t.written :
            Guarded(t.mutations, d, t.versions[d])

AllGuarded(t) == \A d \in DOMAIN t.versions : Guarded(t.mutations, d, t.versions[d])

Runners == [phase    : {"backoff", "running", "committing", "done"},
            attempts : Int,
            answer   : {"none", "pending", "ok"} \cup Codes,
            result   : {"none", "ok"} \cup Codes]

ClientOK(c) ==
  /\ IsTx(tx[c])
  /\ ReadsOK(tx[c])
  /\ Running(c) => WritesOK(tx[c])
  /\ runner[c].answer = "pending" => runner[c].phase = "committing" /\ AllGuarded(tx[c])

IInv ==
  /\ DbOK
  /\ runner \in [Clients -> Runners]
  /\ programs \in [Clients -> Seq(Steps)]
  /\ DOMAIN tx = Clients
  /\ \A c \in Clients : ClientOK(c)

-----------------------------------------------------------------------------
(* The operators *)

\* SetToSeq puts every element of a finite set into the sequence, once.
LEMMA SetToSeqIsOnto ==
  ASSUME NEW S, IsFiniteSet(S)
  PROVE  /\ Cardinality(S) \in Nat
         /\ SetToSeq(S) \in [1..Cardinality(S) -> S]
         /\ IsInjective(SetToSeq(S))
         /\ \A x \in S : \E i \in 1..Cardinality(S) : SetToSeq(S)[i] = x
<1> DEFINE n == Cardinality(S)
<1>1. n \in Nat /\ ExistsBijection(1..n, S)
  BY FS_CardinalityType
<1>2. PICK b \in Bijection(1..n, S) : TRUE
  BY <1>1 DEF ExistsBijection
<1>3. b \in [1..n -> S] /\ IsInjective(b)
  BY <1>2 DEF Bijection, Injection
<1>4. SetToSeq(S) \in [1..n -> S] /\ IsInjective(SetToSeq(S))
  BY <1>3 DEF SetToSeq
<1>5. SetToSeq(S) \in Injection(1..n, S)
  BY <1>4 DEF Injection
<1>6. Cardinality(1..n) = n
  BY <1>1, FS_Interval
<1>7. SetToSeq(S) \in Surjection(1..n, S)
  BY <1>5, <1>6, FS_Injection
<1> QED
  BY <1>1, <1>4, <1>7 DEF Surjection

\* A new attempt has read and written nothing.
LEMMA NewIsOK ==
  IsTx(NewTransaction) /\ ReadsOK(NewTransaction) /\ WritesOK(NewTransaction)
<1>1. DOMAIN NewTransaction = TxFields
  BY DEF NewTransaction, TxFields
<1>2. NewTransaction.mutations \in Seq({})
  BY DEF NewTransaction
<1>3. DOMAIN NewTransaction.versions = {} /\ DOMAIN NewTransaction.values = {}
  BY DEF NewTransaction
<1>4. IsFiniteSet({})
  BY FS_EmptySet
<1>5. IsTx(NewTransaction)
  BY <1>1, <1>2 DEF IsTx, NewTransaction
<1>6. ReadsOK(NewTransaction)
  BY <1>3, <1>4 DEF ReadsOK
<1>7. WritesOK(NewTransaction)
  BY DEF WritesOK, NewTransaction
<1> QED
  BY <1>5, <1>6, <1>7

\* Transaction::RecordVersion of a document that was not read before, or that
\* still has the version that was read.
LEMMA RecordIsOK ==
  ASSUME DbOK, NEW t, IsTx(t), ReadsOK(t), WritesOK(t), t.mutations = <<>>,
         NEW d \in Docs, d \in DOMAIN t.versions => t.versions[d] = db[d].version
  PROVE  LET u == Record(t, d, db[d]) IN IsTx(u) /\ ReadsOK(u) /\ WritesOK(u)
<1> DEFINE u == Record(t, d, db[d])
<1>1. /\ DOMAIN u = TxFields
      /\ u.mutations = t.mutations /\ u.written = t.written
      /\ u.writeError = t.writeError
      /\ u.versions = [e \in DOMAIN t.versions \cup {d} |->
                         IF e = d THEN db[d].version ELSE t.versions[e]]
      /\ u.values = [e \in DOMAIN t.values \cup {d} |->
                       IF e = d THEN db[d].value ELSE t.values[e]]
  BY DEF Record, IsTx, TxFields
<1>2. IsTx(u)
  BY <1>1 DEF IsTx
<1> HIDE DEF u
<1>3. DOMAIN u.versions = DOMAIN t.versions \cup {d} /\ DOMAIN u.values = DOMAIN u.versions
  BY <1>1 DEF ReadsOK
<1>4. IsFiniteSet(DOMAIN u.versions)
  BY <1>3, FS_AddElement DEF ReadsOK
<1>5. ASSUME NEW e \in DOMAIN u.versions
      PROVE  /\ u.versions[e] \in 0..clock
             /\ u.versions[e] = NoVersion => u.values[e] = 0
             /\ u.versions[e] = db[e].version => u.values[e] = db[e].value
  <2>1. CASE e = d
    BY <1>1, <1>3, <2>1 DEF DbOK
  <2>2. CASE e # d
    <3>1. e \in DOMAIN t.versions /\ u.versions[e] = t.versions[e] /\ u.values[e] = t.values[e]
      BY <1>1, <1>3, <2>2 DEF ReadsOK
    <3> QED
      BY <3>1 DEF ReadsOK
  <2> QED
    BY <2>1, <2>2
<1>6. ReadsOK(u)
  BY <1>3, <1>4, <1>5 DEF ReadsOK
<1>7. WritesOK(u)
  BY <1>1 DEF WritesOK
<1> QED
  BY <1>2, <1>6, <1>7 DEF u

\* Appending a mutation leaves the guards of the earlier ones in place.
LEMMA AppendKeepsGuards ==
  ASSUME NEW S, NEW ms \in Seq(S), NEW T, NEW ns \in Seq(T), NEW d, NEW version,
         Guarded(ms, d, version)
  PROVE  Guarded(ms \o ns, d, version)
<1>1. PICK i \in DOMAIN ms : /\ Guards(ms[i], d, version)
                             /\ \A j \in DOMAIN ms : j < i => ms[j].doc # d
  BY DEF Guarded
<1>2. i \in DOMAIN (ms \o ns) /\ (ms \o ns)[i] = ms[i]
  OBVIOUS
<1>3. ASSUME NEW j \in DOMAIN (ms \o ns), j < i
      PROVE  (ms \o ns)[j].doc # d
  <2>1. j \in DOMAIN ms /\ (ms \o ns)[j] = ms[j]
    BY <1>3
  <2> QED
    BY <1>1, <1>3, <2>1
<1> QED
  BY <1>1, <1>2, <1>3 DEF Guarded

\* A mutation that is appended guards a document that no earlier one writes.
LEMMA AppendAddsGuard ==
  ASSUME NEW S, NEW ms \in Seq(S), NEW T, NEW ns \in Seq(T), NEW d, NEW version,
         \A j \in DOMAIN ms : ms[j].doc # d,
         Guarded(ns, d, version)
  PROVE  Guarded(ms \o ns, d, version)
<1>1. PICK i \in DOMAIN ns : /\ Guards(ns[i], d, version)
                             /\ \A j \in DOMAIN ns : j < i => ns[j].doc # d
  BY DEF Guarded
<1>2. i + Len(ms) \in DOMAIN (ms \o ns) /\ (ms \o ns)[i + Len(ms)] = ns[i]
  OBVIOUS
<1>3. ASSUME NEW j \in DOMAIN (ms \o ns), j < i + Len(ms)
      PROVE  (ms \o ns)[j].doc # d
  <2>1. CASE j <= Len(ms)
    BY <2>1
  <2>2. CASE j > Len(ms)
    <3>1. j - Len(ms) \in DOMAIN ns /\ (ms \o ns)[j] = ns[j - Len(ms)]
      BY <2>2
    <3> QED
      BY <1>1, <1>3, <3>1
  <2> QED
    BY <2>1, <2>2
<1> QED
  BY <1>1, <1>2, <1>3 DEF Guarded

\* Transaction::CreatePrecondition guards the first write of a document that was
\* read; so does CreateUpdatePrecondition, unless the update is impossible.
LEMMA FirstWriteIsGuarded ==
  ASSUME NEW t, NEW op, NEW d \in DOMAIN t.versions, d \notin t.written,
         op = "update" => ~UpdateIsImpossible(t, d)
  PROVE  Guards(Mutation(t, op, d), d, t.versions[d])
<1>1. CreatePrecondition(t, d) =
        [kind    |-> IF t.versions[d] = NoVersion THEN "missing" ELSE "update_time",
         version |-> t.versions[d]]
  BY DEF CreatePrecondition
<1>2. CASE op = "update"
  <2>1. t.versions[d] # NoVersion
    BY <1>1, <1>2 DEF UpdateIsImpossible
  <2>2. Mutation(t, op, d).pre = CreatePrecondition(t, d)
    BY <1>1, <1>2 DEF Mutation, CreateUpdatePrecondition
  <2> QED
    BY <1>1, <2>1, <2>2 DEF Guards, Mutation
<1>3. CASE op # "update"
  <2>1. Mutation(t, op, d).pre = CreatePrecondition(t, d)
    BY <1>3 DEF Mutation
  <2> QED
    BY <1>1, <2>1 DEF Guards, Mutation
<1> QED
  BY <1>2, <1>3

\* Transaction::Set, Update and Delete.
LEMMA WriteDocIsOK ==
  ASSUME NEW t, IsTx(t), ReadsOK(t), WritesOK(t), NEW op, NEW d \in Docs
  PROVE  LET u == WriteDoc(t, op, d) IN IsTx(u) /\ ReadsOK(u) /\ WritesOK(u)
<1> DEFINE u == WriteDoc(t, op, d)
           impossible == op = "update" /\ UpdateIsImpossible(t, d)
<1>1. /\ DOMAIN u = TxFields
      /\ u.written = t.written \cup {d}
      /\ u.versions = t.versions /\ u.values = t.values
      /\ u.writeError = IF impossible THEN TRUE ELSE t.writeError
      /\ u.mutations = IF impossible THEN t.mutations
                       ELSE Append(t.mutations, Mutation(t, op, d))
  BY DEF WriteDoc, IsTx, TxFields
<1> HIDE DEF u
<1>2. PICK S : t.mutations \in Seq(S)
  BY DEF IsTx
<1>3. ReadsOK(u)
  BY <1>1 DEF ReadsOK
<1>4. CASE impossible
  <2>1. IsTx(u)
    BY <1>1, <1>4 DEF IsTx
  <2>2. WritesOK(u)
    BY <1>1, <1>4 DEF WritesOK
  <2> QED
    BY <1>3, <2>1, <2>2 DEF u
<1>5. CASE ~impossible
  <2> DEFINE m == Mutation(t, op, d)
  <2>1. m.doc = d
    BY DEF Mutation
  <2>2. d \in DOMAIN t.versions \ t.written => Guards(m, d, t.versions[d])
    BY <1>5, FirstWriteIsGuarded
  <2> HIDE DEF m
  <2>3. u.mutations = t.mutations \o <<m>> /\ <<m>> \in Seq({m})
    BY <1>1, <1>2, <1>5 DEF m
  <2>4. u.mutations \in Seq(S \cup {m}) /\ u.writeError = t.writeError
    <3>1. t.mutations \o <<m>> \in Seq(S \cup {m})
      BY <1>2
    <3>2. u.writeError = t.writeError
      BY <1>1, <1>5
    <3> QED
      BY <2>3, <3>1, <3>2
  <2>5. IsTx(u)
    BY <1>1, <2>4 DEF IsTx
  <2>6. /\ DOMAIN u.mutations = 1..(Len(t.mutations) + 1)
        /\ Len(t.mutations) \in Nat
        /\ u.mutations[Len(t.mutations) + 1] = m
        /\ \A i \in DOMAIN t.mutations : u.mutations[i] = t.mutations[i]
        /\ DOMAIN t.mutations = 1..Len(t.mutations)
    BY <1>2, <2>3
  <2>7. \A i \in DOMAIN u.mutations : u.mutations[i].doc \in u.written
    BY <1>1, <2>1, <2>6 DEF WritesOK
  <2>8. ASSUME ~u.writeError, NEW e \in u.written
        PROVE  \E i \in DOMAIN u.mutations : u.mutations[i].doc = e
    <3>1. CASE e = d
      BY <2>1, <2>6, <3>1
    <3>2. CASE e # d
      <4>1. PICK i \in DOMAIN t.mutations : t.mutations[i].doc = e
        BY <1>1, <2>4, <2>8, <3>2 DEF WritesOK
      <4>2. i \in DOMAIN u.mutations /\ u.mutations[i].doc = e
        BY <2>6, <4>1
      <4> QED
        BY <4>2
    <3> QED
      BY <3>1, <3>2
  <2>9. ASSUME ~u.writeError, NEW e \in DOMAIN u.versions \cap u.written
        PROVE  Guarded(u.mutations, e, u.versions[e])
    <3>1. CASE e \in t.written
      <4>1. Guarded(t.mutations, e, t.versions[e])
        BY <1>1, <2>4, <2>9, <3>1 DEF WritesOK
      <4>2. Guarded(t.mutations \o <<m>>, e, t.versions[e])
        BY <1>2, <2>3, <4>1, AppendKeepsGuards
      <4>3. u.versions[e] = t.versions[e]
        BY <1>1
      <4> QED
        BY <2>3, <4>2, <4>3
    <3>2. CASE e \notin t.written
      <4>1. e = d /\ Guards(m, d, t.versions[d])
        BY <1>1, <2>2, <2>9, <3>2
      <4>2. \A j \in DOMAIN t.mutations : t.mutations[j].doc # d
        BY <3>2, <4>1 DEF WritesOK
      <4>3. Guarded(<<m>>, d, t.versions[d])
        BY <4>1 DEF Guarded
      <4>4. Guarded(t.mutations \o <<m>>, d, t.versions[d])
        BY <1>2, <2>3, <4>2, <4>3, AppendAddsGuard
      <4>5. u.versions[e] = t.versions[d]
        BY <1>1, <4>1
      <4> QED
        BY <2>3, <4>1, <4>4, <4>5
    <3> QED
      BY <3>1, <3>2
  <2>10. WritesOK(u)
    BY <2>7, <2>8, <2>9 DEF WritesOK
  <2> QED
    BY <1>3, <2>5, <2>10 DEF u
<1> QED
  BY <1>4, <1>5

\* Transaction::Commit: the documents that were only read are verified.
LEMMA CommitIsGuarded ==
  ASSUME NEW t, IsTx(t), ReadsOK(t), WritesOK(t), ~t.writeError
  PROVE  /\ \E S : CommitMutations(t) \in Seq(S)
         /\ \A d \in DOMAIN t.versions : Guarded(CommitMutations(t), d, t.versions[d])
<1> DEFINE unwritten == DOMAIN t.versions \ {t.mutations[i].doc : i \in DOMAIN t.mutations}
           s  == SetToSeq(unwritten)
           n  == Cardinality(unwritten)
           ns == [i \in 1..n |-> Mutation(t, "verify", s[i])]
           T  == {ns[i] : i \in 1..n}
<1>1. CommitMutations(t) = t.mutations \o ns
  BY DEF CommitMutations
<1>2. PICK S : t.mutations \in Seq(S)
  BY DEF IsTx
<1>3. IsFiniteSet(unwritten)
  BY FS_Subset DEF ReadsOK
<1>4. n \in Nat /\ s \in [1..n -> unwritten] /\ IsInjective(s)
      /\ \A x \in unwritten : \E i \in 1..n : s[i] = x
  BY <1>3, SetToSeqIsOnto
<1>5. ASSUME NEW d \in DOMAIN t.versions
      PROVE  d \in unwritten <=> d \notin t.written
  BY DEF WritesOK
<1>6. ASSUME NEW i \in 1..n
      PROVE  ns[i].doc = s[i] /\ Guards(ns[i], s[i], t.versions[s[i]])
  <2>1. s[i] \in DOMAIN t.versions /\ s[i] \notin t.written
    BY <1>4, <1>5
  <2>2. ns[i] = Mutation(t, "verify", s[i])
    OBVIOUS
  <2> QED
    BY <2>1, <2>2, FirstWriteIsGuarded DEF Mutation
<1>7. DOMAIN ns = 1..n
  OBVIOUS
<1>8. ns \in [1..n -> T]
  OBVIOUS
<1> HIDE DEF s, n, ns, T
<1>9. ns \in Seq(T)
  BY <1>4, <1>8
<1>10. t.mutations \o ns \in Seq(S \cup T)
  BY <1>2, <1>9
<1>11. ASSUME NEW d \in DOMAIN t.versions
       PROVE  Guarded(t.mutations \o ns, d, t.versions[d])
  <2>1. CASE d \notin unwritten
    <3>1. Guarded(t.mutations, d, t.versions[d])
      BY <1>5, <2>1 DEF WritesOK
    <3> QED
      BY <1>2, <1>9, <3>1, AppendKeepsGuards
  <2>2. CASE d \in unwritten
    <3>1. PICK i \in 1..n : s[i] = d
      BY <1>4, <2>2
    <3>2. ASSUME NEW j \in 1..n, j < i
          PROVE  ns[j].doc # d
      BY <1>4, <1>6, <3>1, <3>2 DEF IsInjective
    <3>3. Guarded(ns, d, t.versions[d])
      BY <1>6, <1>7, <3>1, <3>2 DEF Guarded
    <3>4. \A j \in DOMAIN t.mutations : t.mutations[j].doc # d
      BY <2>2
    <3> QED
      BY <1>2, <1>9, <3>3, <3>4, AppendAddsGuard
  <2> QED
    BY <2>1, <2>2
<1> QED
  BY <1>1, <1>10, <1>11

-----------------------------------------------------------------------------
(* The steps *)

\* A failed attempt runs again or is reported; nothing of it is under way.
LEMMA ErrorEndsAttempt ==
  ASSUME NEW r \in Runners, NEW t, NEW code \in Codes
  PROVE  LET s == HandleTransactionError(r, t, code)
         IN  s \in Runners /\ s.answer = "none" /\ s.phase \in {"backoff", "done"}
<1>1. Run(r) \in Runners /\ Run(r).answer = "none" /\ Run(r).phase = "backoff"
  <2>1. r.attempts - 1 \in Int /\ r \in Runners
    BY DEF Runners
  <2> DEFINE n == r.attempts - 1
             s == [r EXCEPT !.attempts = n, !.phase = "backoff", !.answer = "none"]
  <2>2. Run(r) = s
    BY DEF Run
  <2> HIDE DEF n
  <2>3. n \in Int
    BY <2>1 DEF n
  <2>4. s \in Runners /\ s.answer = "none" /\ s.phase = "backoff"
    BY <2>3 DEF Runners
  <2> QED
    BY <2>2, <2>4
<1>2. Finish(r, code) \in Runners /\ Finish(r, code).answer = "none"
      /\ Finish(r, code).phase = "done"
  BY DEF Finish, Runners
<1>3. HandleTransactionError(r, t, code) \in {Run(r), Finish(r, code)}
  BY DEF HandleTransactionError
<1> QED
  BY <1>1, <1>2, <1>3

\* The backend has refused a mutation with an error code.
LEMMA RefusalIsError ==
  ASSUME NEW ms, NEW i PROVE Refusal(ms, i) \in Codes
BY DEF Refusal, Codes, Permanent, Retryable

\* A step of a client that leaves the backend alone keeps the invariant if it
\* keeps it for that client.
LEMMA ClientStep ==
  ASSUME IInv, NEW c \in Clients, UNCHANGED <<db, clock, programs>>,
         DOMAIN tx' = Clients, runner' \in [Clients -> Runners],
         \A e \in Clients \ {c} : tx'[e] = tx[e] /\ runner'[e] = runner[e],
         ClientOK(c)'
  PROVE  IInv'
<1>1. ASSUME NEW e \in Clients \ {c} PROVE ClientOK(e)'
  <2>1. ClientOK(e) /\ tx'[e] = tx[e] /\ runner'[e] = runner[e]
    BY DEF IInv
  <2>2. IsTx(tx[e])' /\ ReadsOK(tx[e])'
    BY <2>1 DEF ClientOK, IsTx, ReadsOK
  <2>3. WritesOK(tx[e]) => WritesOK(tx[e])'
    BY <2>1 DEF WritesOK
  <2>4. AllGuarded(tx[e]) => AllGuarded(tx[e])'
    BY <2>1 DEF AllGuarded
  <2> QED
    BY <2>1, <2>2, <2>3, <2>4 DEF ClientOK, Running
<1>2. DbOK'
  BY DEF IInv, DbOK
<1> QED
  BY <1>1, <1>2 DEF IInv

\* An attempt that ends, or starts its commit, is not running any more.
LEMMA AbandonStep ==
  ASSUME IInv, NEW c \in Clients, NEW code \in Codes, Abandon(c, code),
         UNCHANGED <<db, clock, programs>>
  PROVE  IInv'
<1>1. runner[c] \in Runners /\ ClientOK(c)
  BY DEF IInv
<1>2. runner'[c] = HandleTransactionError(runner[c], tx[c], code) /\ tx' = tx
      /\ \A e \in Clients \ {c} : runner'[e] = runner[e]
  BY DEF Abandon, IInv
<1>3. runner'[c] \in Runners /\ runner'[c].answer = "none" /\ runner'[c].phase \in {"backoff", "done"}
  BY <1>1, <1>2, ErrorEndsAttempt
<1>4. runner' \in [Clients -> Runners]
  BY <1>3 DEF Abandon, IInv
<1>5. ClientOK(c)'
  <2>1. IsTx(tx[c])' /\ ReadsOK(tx[c])'
    BY <1>1, <1>2 DEF ClientOK, IsTx, ReadsOK
  <2> QED
    BY <1>3, <2>1 DEF ClientOK, Running
<1> QED
  BY <1>2, <1>4, <1>5, ClientStep DEF IInv

\* A step of the user's function changes the transaction object only.
LEMMA FunctionStep ==
  ASSUME IInv, NEW c \in Clients, Running(c), NEW u,
         tx' = [tx EXCEPT ![c] = u], IsTx(u), ReadsOK(u), WritesOK(u),
         UNCHANGED <<db, clock, programs, runner>>
  PROVE  IInv'
<1>1. tx'[c] = u /\ DOMAIN tx' = Clients /\ \A e \in Clients \ {c} : tx'[e] = tx[e]
  BY DEF IInv
<1>2. IsTx(tx[c])' /\ ReadsOK(tx[c])' /\ WritesOK(tx[c])'
  BY <1>1 DEF IsTx, ReadsOK, WritesOK
<1>3. runner'[c].answer # "pending"
  BY DEF IInv, ClientOK, Running
<1>4. ClientOK(c)'
  BY <1>2, <1>3 DEF ClientOK
<1> QED
  BY <1>1, <1>4, ClientStep DEF IInv

\* The next step of a program is a step.
LEMMA StepIsStep ==
  ASSUME IInv, NEW c \in Clients, tx[c].pc \in DOMAIN programs[c]
  PROVE  Step(c) \in Steps
<1>1. programs[c] \in Seq(Steps)
  BY DEF IInv
<1> QED
  BY <1>1 DEF Step

\* The user's function reads a document.
LEMMA LookupStep ==
  ASSUME IInv, NEW c \in Clients, Lookup(c)
  PROVE  IInv'
<1> DEFINE d == Step(c).doc
           u == Record(tx[c], d, db[d])
<1>1. Running(c) /\ tx[c].pc \in DOMAIN programs[c] /\ tx[c].mutations = <<>>
  BY DEF Lookup, AtStep
<1>2. d \in Docs
  BY <1>1, StepIsStep DEF Steps
<1>3. d \in DOMAIN tx[c].versions => tx[c].versions[d] = db[d].version
  BY DEF Lookup
<1>4. IsTx(tx[c]) /\ ReadsOK(tx[c]) /\ WritesOK(tx[c]) /\ DbOK
  BY <1>1 DEF IInv, ClientOK
<1>5. tx' = [tx EXCEPT ![c] = u] /\ UNCHANGED <<db, clock, programs, runner>>
  BY DEF Lookup, IInv
<1> HIDE DEF d
<1>6. IsTx(u) /\ ReadsOK(u) /\ WritesOK(u)
  BY <1>1, <1>2, <1>3, <1>4, RecordIsOK
<1> HIDE DEF u
<1> QED
  BY <1>1, <1>5, <1>6, FunctionStep

\* A second read finds another version: the attempt fails or goes on.
LEMMA LookupChangedStep ==
  ASSUME IInv, NEW c \in Clients, LookupChanged(c)
  PROVE  IInv'
<1>1. Running(c) /\ UNCHANGED <<db, clock, programs>>
  BY DEF LookupChanged, AtStep
<1>2. CASE Abandon(c, "aborted")
  <2>1. "aborted" \in Codes
    BY DEF Codes, Permanent, Retryable
  <2> QED
    BY <1>1, <1>2, <2>1, AbandonStep
<1>3. CASE tx' = [tx EXCEPT ![c].pc = @ + 1] /\ UNCHANGED runner
  <2> DEFINE u == [tx[c] EXCEPT !.pc = @ + 1]
  <2>1. IsTx(tx[c]) /\ ReadsOK(tx[c]) /\ WritesOK(tx[c])
    BY <1>1 DEF IInv, ClientOK
  <2>2. /\ DOMAIN u = TxFields
        /\ u.versions = tx[c].versions /\ u.values = tx[c].values
        /\ u.mutations = tx[c].mutations /\ u.written = tx[c].written
        /\ u.writeError = tx[c].writeError
    BY <2>1 DEF IsTx, TxFields
  <2>3. tx' = [tx EXCEPT ![c] = u]
    BY <1>3
  <2> HIDE DEF u
  <2>4. IsTx(u) /\ ReadsOK(u) /\ WritesOK(u)
    BY <2>1, <2>2 DEF IsTx, ReadsOK, WritesOK
  <2> QED
    BY <1>1, <1>3, <2>3, <2>4, FunctionStep
<1> QED
  BY <1>2, <1>3 DEF LookupChanged

\* The user's function writes a document.
LEMMA WriteStep ==
  ASSUME IInv, NEW c \in Clients, Write(c)
  PROVE  IInv'
<1> DEFINE d == Step(c).doc
           u == WriteDoc(tx[c], Step(c).op, d)
<1>1. Running(c) /\ tx[c].pc \in DOMAIN programs[c]
  BY DEF Write, AtStep
<1>2. d \in Docs
  BY <1>1, StepIsStep DEF Steps
<1>3. IsTx(tx[c]) /\ ReadsOK(tx[c]) /\ WritesOK(tx[c])
  BY <1>1 DEF IInv, ClientOK
<1>4. tx' = [tx EXCEPT ![c] = u] /\ UNCHANGED <<db, clock, programs, runner>>
  BY DEF Write, IInv
<1> HIDE DEF d
<1>5. IsTx(u) /\ ReadsOK(u) /\ WritesOK(u)
  BY <1>2, <1>3, WriteDocIsOK
<1> HIDE DEF u
<1> QED
  BY <1>1, <1>4, <1>5, FunctionStep

\* The client's other steps: the backoff elapses, the function fails, or the
\* answer is read.
LEMMA RunnerStep ==
  ASSUME IInv, NEW c \in Clients,
         \/ BackoffElapsed(c) \/ LookupAfterWrite(c) \/ UserError(c) \/ ReadAnswer(c)
         \/ \E code \in CallErrors : LookupFails(c, code)
  PROVE  IInv'
<1>1. runner[c] \in Runners /\ ClientOK(c) /\ IsTx(tx[c]) /\ ReadsOK(tx[c])
  BY DEF IInv, ClientOK
<1>2. CASE BackoffElapsed(c)
  <2>1. /\ tx'[c] = NewTransaction /\ DOMAIN tx' = Clients
        /\ \A e \in Clients \ {c} : tx'[e] = tx[e] /\ runner'[e] = runner[e]
        /\ UNCHANGED <<db, clock, programs>>
        /\ runner'[c].answer = runner[c].answer
    BY <1>1, <1>2 DEF BackoffElapsed, IInv, Runners
  <2>2. runner' \in [Clients -> Runners]
    BY <1>1, <1>2 DEF BackoffElapsed, IInv, Runners
  <2>3. IsTx(tx[c])' /\ ReadsOK(tx[c])' /\ WritesOK(tx[c])'
    BY <2>1, NewIsOK DEF IsTx, ReadsOK, WritesOK
  <2>4. runner'[c].answer # "pending"
    BY <1>1, <1>2, <2>1 DEF ClientOK, BackoffElapsed
  <2> QED
    BY <2>1, <2>2, <2>3, <2>4, ClientStep DEF ClientOK
<1>3. CASE LookupAfterWrite(c)
  <2>1. "invalid_argument" \in Codes
    BY DEF Codes, Permanent
  <2> QED
    BY <1>3, <2>1, AbandonStep DEF LookupAfterWrite
<1>4. CASE \E code \in CallErrors : LookupFails(c, code)
  <2>1. CallErrors \subseteq Codes
    BY DEF CallErrors, Codes, Permanent
  <2> QED
    BY <1>4, <2>1, AbandonStep DEF LookupFails
<1>5. CASE UserError(c) \/ ReadAnswer(c)
  <2>1. /\ UNCHANGED <<db, clock, programs>>
        /\ DOMAIN tx' = Clients
        /\ \A e \in Clients \ {c} : tx'[e] = tx[e] /\ runner'[e] = runner[e]
    BY <1>5 DEF UserError, ReadAnswer, IInv
  <2>2. /\ runner'[c] \in Runners /\ runner'[c].answer # "pending"
        /\ runner'[c].phase # "running"
    <3>1. CASE UserError(c)
      <4>1. runner'[c] = HandleTransactionError(runner[c], tx'[c], "unknown")
        BY <3>1 DEF UserError, IInv
      <4>2. "unknown" \in Codes
        BY DEF Codes
      <4> QED
        BY <1>1, <4>1, <4>2, ErrorEndsAttempt
    <3>2. CASE ReadAnswer(c)
      <4>1. runner'[c] = DispatchResult(runner[c], tx[c], runner[c].answer)
        BY <3>2 DEF ReadAnswer, IInv
      <4>2. CASE runner[c].answer = "ok"
        <5>1. runner'[c] = Finish(runner[c], "ok")
          BY <4>1, <4>2 DEF DispatchResult
        <5> QED
          BY <1>1, <5>1 DEF Finish, Runners
      <4>3. CASE runner[c].answer \in Codes /\ runner[c].answer # "ok"
        <5>1. runner'[c] = HandleTransactionError(runner[c], tx[c], runner[c].answer)
          BY <4>1, <4>3 DEF DispatchResult
        <5> QED
          BY <1>1, <4>3, <5>1, ErrorEndsAttempt
      <4> QED
        BY <3>2, <4>2, <4>3 DEF ReadAnswer
    <3> QED
      BY <1>5, <3>1, <3>2
  <2>3. runner' \in [Clients -> Runners]
    BY <1>5, <2>2 DEF UserError, ReadAnswer, IInv
  <2>4. /\ DOMAIN tx'[c] = TxFields
        /\ tx'[c].versions = tx[c].versions /\ tx'[c].values = tx[c].values
        /\ tx'[c].mutations = tx[c].mutations /\ tx'[c].writeError = tx[c].writeError
    <3>1. CASE UserError(c)
      BY <1>1, <3>1 DEF UserError, IsTx, TxFields, IInv
    <3>2. CASE ReadAnswer(c)
      BY <1>1, <3>2 DEF ReadAnswer, IsTx
    <3> QED
      BY <1>5, <3>1, <3>2
  <2>5. IsTx(tx[c])' /\ ReadsOK(tx[c])'
    BY <1>1, <2>1, <2>4 DEF IsTx, ReadsOK
  <2> QED
    BY <2>1, <2>2, <2>3, <2>5, ClientStep DEF ClientOK, Running
<1> QED
  BY <1>2, <1>3, <1>4, <1>5

\* Transaction::Commit sends mutations that guard all that was read.
LEMMA CommitStep ==
  ASSUME IInv, NEW c \in Clients, Commit(c)
  PROVE  IInv'
<1>1. Running(c) /\ UNCHANGED <<db, clock, programs>>
  BY DEF Commit
<1>2. CASE tx[c].writeError
  <2>1. "invalid_argument" \in Codes
    BY DEF Codes, Permanent
  <2> QED
    BY <1>1, <1>2, <2>1, AbandonStep DEF Commit
<1>3. CASE ~tx[c].writeError
  <2>1. runner[c] \in Runners /\ IsTx(tx[c]) /\ ReadsOK(tx[c]) /\ WritesOK(tx[c])
    BY <1>1 DEF IInv, ClientOK
  <2>2. /\ tx' = [tx EXCEPT ![c].mutations = CommitMutations(tx[c])]
        /\ runner' = [runner EXCEPT ![c].phase = "committing", ![c].answer = "pending"]
    BY <1>3 DEF Commit
  <2>3. /\ DOMAIN tx' = Clients /\ DOMAIN tx'[c] = TxFields
        /\ tx'[c].versions = tx[c].versions /\ tx'[c].values = tx[c].values
        /\ tx'[c].mutations = CommitMutations(tx[c])
        /\ tx'[c].writeError = tx[c].writeError
        /\ \A e \in Clients \ {c} : tx'[e] = tx[e] /\ runner'[e] = runner[e]
    BY <2>1, <2>2 DEF IInv, IsTx, TxFields
  <2>4. /\ \E S : CommitMutations(tx[c]) \in Seq(S)
        /\ \A d \in DOMAIN tx[c].versions :
             Guarded(CommitMutations(tx[c]), d, tx[c].versions[d])
    BY <1>3, <2>1, CommitIsGuarded
  <2>5. runner' \in [Clients -> Runners]
    BY <2>1, <2>2 DEF IInv, Runners
  <2>6. runner'[c].phase = "committing"
    BY <2>1, <2>2 DEF IInv, Runners
  <2>7. IsTx(tx[c])' /\ ReadsOK(tx[c])'
    BY <1>1, <2>1, <2>3, <2>4 DEF IsTx, ReadsOK
  <2>8. AllGuarded(tx[c])'
    BY <2>3, <2>4 DEF AllGuarded
  <2> QED
    BY <1>1, <2>3, <2>5, <2>6, <2>7, <2>8, ClientStep DEF ClientOK, Running
<1> QED
  BY <1>2, <1>3

\* An answer other than "pending" does not depend on what the attempt has read.
LEMMA AnswerStep ==
  ASSUME IInv, NEW c \in Clients, runner[c].answer # "none",
         NEW answer \in {"ok"} \cup Codes, Answer(c, answer),
         UNCHANGED <<db, clock, tx, programs>>
  PROVE  IInv'
<1>1. runner[c] \in Runners /\ ClientOK(c)
  BY DEF IInv
<1>2. /\ runner' \in [Clients -> Runners]
      /\ runner'[c].answer = answer /\ runner'[c].phase = runner[c].phase
      /\ \A e \in Clients \ {c} : runner'[e] = runner[e]
  BY <1>1 DEF IInv, Answer, Runners
<1>3. "pending" \notin {"ok"} \cup Codes
  BY DEF Codes, Permanent, Retryable
<1>4. IsTx(tx[c])' /\ ReadsOK(tx[c])'
  BY <1>1 DEF ClientOK, IsTx, ReadsOK
<1>5. WritesOK(tx[c]) => WritesOK(tx[c])'
  BY DEF WritesOK
<1>6. ClientOK(c)'
  BY <1>1, <1>2, <1>3, <1>4, <1>5 DEF ClientOK, Running
<1> QED
  BY <1>2, <1>6, ClientStep DEF IInv

\* What the precondition of a guarded document holds for is what was read.
LEMMA GuardHolds ==
  ASSUME NEW ms, NEW d \in Docs, NEW version, Guarded(ms, d, version),
         \A i \in DOMAIN ms : Holds(ms, i),
         \E S : ms \in Seq(S)
  PROVE  db[d].version = version
<1>1. PICK i \in DOMAIN ms : /\ Guards(ms[i], d, version)
                             /\ \A j \in DOMAIN ms : j < i => ms[j].doc # d
  BY DEF Guarded
<1>2. PICK S : ms \in Seq(S)
  OBVIOUS
<1>3. Earlier(ms, i) = {}
  BY <1>1, <1>2 DEF Earlier, Guards
<1>4. Holds(ms, i)
  OBVIOUS
<1>5. CASE ms[i].pre.kind = "missing" /\ version = NoVersion
  BY <1>1, <1>3, <1>4, <1>5 DEF Holds, Exists, Guards
<1>6. CASE ms[i].pre.kind = "update_time" /\ ms[i].pre.version = version
  BY <1>1, <1>4, <1>6 DEF Holds, Guards
<1> QED
  BY <1>1, <1>5, <1>6 DEF Guards

\* A commit of the backend: every document is as it was, is deleted, or has a
\* version that nobody has read.
LEMMA BackendStep ==
  ASSUME IInv, NEW c \in Clients, BackendCommit(c)
  PROVE  IInv'
<1> DEFINE ms == tx[c].mutations
<1>1. db' = Applied(ms) /\ clock' = clock + 1 /\ clock \in Nat /\ DOMAIN db = Docs
  BY DEF BackendCommit, IInv, DbOK
<1> HIDE DEF ms
<1>2. ASSUME NEW d \in Docs
      PROVE  \/ db'[d] = db[d]
             \/ db'[d].version = NoVersion /\ db'[d].value = 0
             \/ db'[d].version = clock + 1
  BY <1>1 DEF Applied
<1>3. DOMAIN db' = Docs
  BY <1>1 DEF Applied
<1>4. DbOK'
  BY <1>1, <1>2, <1>3 DEF IInv, DbOK, NoVersion
<1>5. /\ UNCHANGED <<tx, programs>>
      /\ runner' = [runner EXCEPT ![c].answer = "ok"]
  BY DEF BackendCommit, Answer
<1>6. runner' \in [Clients -> Runners]
  BY <1>5 DEF IInv, Runners
<1>7. ASSUME NEW e \in Clients PROVE ClientOK(e)'
  <2>1. ClientOK(e) /\ tx'[e] = tx[e]
    BY <1>5 DEF IInv
  <2>2. IsTx(tx[e])'
    BY <2>1 DEF ClientOK, IsTx
  <2>3. ASSUME NEW d \in DOMAIN tx[e].versions
        PROVE  /\ tx[e].versions[d] \in 0..clock'
               /\ tx[e].versions[d] = NoVersion => tx[e].values[d] = 0
               /\ tx[e].versions[d] = db'[d].version => tx[e].values[d] = db'[d].value
    <3>1. d \in Docs
      BY <2>1 DEF ClientOK, ReadsOK
    <3>2. /\ tx[e].versions[d] \in 0..clock
          /\ tx[e].versions[d] = NoVersion => tx[e].values[d] = 0
          /\ tx[e].versions[d] = db[d].version => tx[e].values[d] = db[d].value
      BY <2>1 DEF ClientOK, ReadsOK
    <3>3. tx[e].versions[d] # clock + 1 /\ tx[e].versions[d] \in 0..clock'
      BY <1>1, <3>2
    <3> QED
      BY <1>2, <3>1, <3>2, <3>3
  <2>4. ReadsOK(tx[e])'
    BY <2>1, <2>3 DEF ClientOK, ReadsOK
  <2>5. WritesOK(tx[e]) => WritesOK(tx[e])'
    BY <2>1 DEF WritesOK
  <2>6. AllGuarded(tx[e]) => AllGuarded(tx[e])'
    BY <2>1 DEF AllGuarded
  <2>7. runner'[e].phase = runner[e].phase /\ runner'[e].answer \in {"ok", runner[e].answer}
    BY <1>5 DEF IInv, Runners
  <2> QED
    BY <2>1, <2>2, <2>4, <2>5, <2>6, <2>7 DEF ClientOK, Running
<1> QED
  BY <1>4, <1>5, <1>6, <1>7 DEF IInv

-----------------------------------------------------------------------------
(* The reads are current *)

\* Nothing is read, and every document is missing.
LEMMA InitInv == Init => IInv
<1> SUFFICES ASSUME Init PROVE IInv
  OBVIOUS
<1>1. DbOK
  BY DEF Init, DbOK, NoVersion
<1>2. MaxAttempts - 1 \in Int
  BY AttemptsAssumption
<1>3. runner \in [Clients -> Runners]
  BY <1>2 DEF Init, Runners
<1>4. programs \in [Clients -> Seq(Steps)]
  BY SettingsAssumption DEF Init
<1>5. DOMAIN tx = Clients
  BY DEF Init
<1>6. ASSUME NEW c \in Clients PROVE ClientOK(c)
  <2>1. tx[c] = NewTransaction /\ runner[c].phase = "backoff" /\ runner[c].answer = "none"
    BY DEF Init
  <2> QED
    BY <2>1, NewIsOK DEF ClientOK, Running
<1> QED
  BY <1>1, <1>3, <1>4, <1>5, <1>6 DEF IInv

\* Every step keeps the invariant.
LEMMA NextInv == IInv /\ [Next]_vars => IInv'
<1> SUFFICES ASSUME IInv, [Next]_vars PROVE IInv'
  OBVIOUS
<1>1. CASE UNCHANGED vars
  <2>1. UNCHANGED <<db, clock, runner, tx, programs>>
    BY <1>1 DEF vars
  <2>2. \A c \in Clients : ClientOK(c) => ClientOK(c)'
    BY <2>1 DEF ClientOK, IsTx, ReadsOK, WritesOK, AllGuarded, Running
  <2>3. DbOK'
    BY <2>1 DEF IInv, DbOK
  <2> QED
    BY <2>1, <2>2, <2>3 DEF IInv
<1>2. ASSUME NEW c \in Clients, Progress(c) PROVE IInv'
  <2>1. CASE BackendRefuse(c)
    <3>1. PICK i : Answer(c, Refusal(tx[c].mutations, i))
      BY <2>1 DEF BackendRefuse
    <3>2. Refusal(tx[c].mutations, i) \in {"ok"} \cup Codes
      BY RefusalIsError
    <3>3. runner[c].answer # "none" /\ UNCHANGED <<db, clock, tx, programs>>
      BY <2>1 DEF BackendRefuse
    <3> QED
      BY <3>1, <3>2, <3>3, AnswerStep
  <2> QED
    BY <1>2, <2>1, RunnerStep, LookupStep, LookupChangedStep, WriteStep, CommitStep,
       BackendStep DEF Progress
<1>3. ASSUME NEW c \in Clients, Failure(c) PROVE IInv'
  <2>1. CallErrors \subseteq Codes
    BY DEF CallErrors, Codes, Permanent
  <2>2. CASE \E code \in CallErrors : LookupFails(c, code)
    BY <2>2, RunnerStep
  <2>3. CASE \E code \in CallErrors : RequestFails(c, code)
    BY <2>1, <2>3, AnswerStep DEF RequestFails
  <2>4. CASE UserError(c)
    BY <2>4, RunnerStep
  <2>5. CASE LoseAnswer(c)
    <3>1. "unavailable" \in Codes
      BY DEF Codes
    <3> QED
      BY <2>5, <3>1, AnswerStep DEF LoseAnswer
  <2> QED
    BY <1>3, <2>2, <2>3, <2>4, <2>5 DEF Failure
<1> QED
  BY <1>1, <1>2, <1>3 DEF Next

\* The step that commits an attempt finds every document as it was read.
LEMMA CommitReadsCurrent ==
  ASSUME IInv, NEW c \in Clients, BackendCommit(c)
  PROVE  \A d \in DOMAIN tx[c].values : tx[c].values[d] = db[d].value
<1> SUFFICES ASSUME NEW d \in DOMAIN tx[c].values
             PROVE  tx[c].values[d] = db[d].value
  OBVIOUS
<1>1. runner[c].answer = "pending" /\ \A i \in DOMAIN tx[c].mutations : Holds(tx[c].mutations, i)
  BY DEF BackendCommit
<1>2. ReadsOK(tx[c]) /\ AllGuarded(tx[c]) /\ \E S : tx[c].mutations \in Seq(S)
  BY <1>1 DEF IInv, ClientOK, IsTx
<1>3. d \in Docs /\ d \in DOMAIN tx[c].versions
  BY <1>2 DEF ReadsOK
<1>4. Guarded(tx[c].mutations, d, tx[c].versions[d])
  BY <1>2, <1>3 DEF AllGuarded
<1>5. db[d].version = tx[c].versions[d]
  BY <1>1, <1>2, <1>3, <1>4, GuardHolds
<1> QED
  BY <1>2, <1>3, <1>5 DEF ReadsOK

\* ReadsAreCurrent for one step.
CommitsAreCurrent ==
  \A c \in Clients :
    clock' # clock /\ runner[c].answer = "pending" /\ runner'[c].answer = "ok" =>
      \A d \in DOMAIN tx[c].values : tx[c].values[d] = db[d].value

\* Only a commit of the backend changes the clock, and it answers one client.
LEMMA StepIsCurrent == IInv /\ [Next]_vars => CommitsAreCurrent
<1> SUFFICES ASSUME IInv, [Next]_vars, NEW c \in Clients,
                    clock' # clock, runner[c].answer = "pending", runner'[c].answer = "ok"
             PROVE  \A d \in DOMAIN tx[c].values : tx[c].values[d] = db[d].value
  BY DEF CommitsAreCurrent
<1>1. PICK e \in Clients : BackendCommit(e)
  BY DEF Next, vars, Progress, Failure, BackoffElapsed, Lookup, LookupChanged,
         LookupAfterWrite, LookupFails, Write, UserError, Commit, ReadAnswer,
         BackendRefuse, RequestFails, LoseAnswer
<1>2. e = c
  BY <1>1 DEF BackendCommit, Answer, IInv
<1> QED
  BY <1>1, <1>2, CommitReadsCurrent

\* When the backend commits an attempt, every document the attempt has read is
\* still what it read: preconditions on written documents and verifications of
\* the others (Transaction::Commit) cover all reads.
THEOREM TransactionsReadCurrent == Spec => ReadsAreCurrent
<1>1. Init => IInv
  BY InitInv
<1>2. IInv /\ [Next]_vars => IInv'
  BY NextInv
<1>3. IInv /\ [Next]_vars => CommitsAreCurrent
  BY StepIsCurrent
<1>4. Spec => [][CommitsAreCurrent]_vars
  BY <1>1, <1>2, <1>3, PTL DEF Spec
<1> QED
  BY <1>4 DEF ReadsAreCurrent, CommitsAreCurrent

-----------------------------------------------------------------------------
(* Sums, and the greatest of some numbers *)

\* Every set of naturals that is not empty has a least element.
LEMMA LeastNat ==
  ASSUME NEW T, T \subseteq Nat, T # {}
  PROVE  \E n \in T : \A m \in T : ~(m < n)
<1>1. IsWellFoundedOn({ss \in Nat \X Nat : ss[1] < ss[2]}, Nat)
  BY NatLessThanWellFounded DEF OpToRel
<1>2. PICK n \in T : \A m \in T : ~(<<m, n>> \in {ss \in Nat \X Nat : ss[1] < ss[2]})
  BY <1>1, WFMin
<1> QED
  BY <1>2

\* The sums over the parts of a finite set of at most n elements: one function
\* that takes one element after the other, as SumFunction does.
Small(D, n) == {s \in SUBSET D : Cardinality(s) <= n}
Rest(s) == s \ {CHOOSE x \in s : TRUE}
IsSum(g, f, S) ==
  \A s \in S : g[s] = IF s = {} THEN 0 ELSE f[CHOOSE x \in s : TRUE] + g[Rest(s)]

\* A set without one of its elements has one element less.
LEMMA RestIsSmaller ==
  ASSUME NEW s, IsFiniteSet(s), s # {}
  PROVE  /\ Rest(s) \subseteq s /\ IsFiniteSet(Rest(s))
         /\ (CHOOSE x \in s : TRUE) \in s
         /\ Cardinality(Rest(s)) \in Nat /\ Cardinality(s) \in Nat
         /\ Cardinality(Rest(s)) = Cardinality(s) - 1
BY FS_RemoveElement, FS_CardinalityType DEF Rest

\* There is such a function for every number of elements: by induction.
LEMMA SumsExist ==
  ASSUME NEW D, IsFiniteSet(D), NEW f, \A x \in D : f[x] \in Nat
  PROVE  \A n \in Nat : \E g \in [Small(D, n) -> Nat] : IsSum(g, f, Small(D, n))
<1> DEFINE Missing == {n \in Nat : ~\E g \in [Small(D, n) -> Nat] : IsSum(g, f, Small(D, n))}
<1> SUFFICES ASSUME Missing # {} PROVE FALSE
  OBVIOUS
<1>1. PICK n \in Missing : \A m \in Missing : ~(m < n)
  <2>1. Missing \subseteq Nat
    OBVIOUS
  <2> HIDE DEF Missing
  <2> QED
    BY <2>1, LeastNat
<1>2. \A s \in SUBSET D : IsFiniteSet(s) /\ Cardinality(s) \in Nat
  BY FS_Subset, FS_CardinalityType
<1>3. CASE n = 0
  <2> DEFINE g == [s \in Small(D, n) |-> 0]
  <2>1. \A s \in Small(D, n) : s = {}
    BY <1>2, <1>3, FS_EmptySet DEF Small
  <2>2. IsSum(g, f, Small(D, n))
    BY <2>1 DEF IsSum
  <2> QED
    BY <2>2
<1>4. CASE n # 0
  <2>1. n - 1 \in Nat /\ n - 1 \notin Missing
    BY <1>1, <1>4
  <2>2. PICK h \in [Small(D, n - 1) -> Nat] : IsSum(h, f, Small(D, n - 1))
    BY <2>1
  <2> DEFINE g == [s \in Small(D, n) |->
                     IF s = {} THEN 0 ELSE f[CHOOSE x \in s : TRUE] + h[Rest(s)]]
  <2>3. ASSUME NEW s \in Small(D, n), s # {}
        PROVE  /\ Rest(s) \in Small(D, n - 1)
               /\ (CHOOSE x \in s : TRUE) \in D
    <3>1. Cardinality(Rest(s)) <= n - 1 /\ Rest(s) \subseteq s
      BY <1>2, <2>3, RestIsSmaller DEF Small
    <3> QED
      BY <1>2, <2>3, <3>1, RestIsSmaller DEF Small
  <2>4. g \in [Small(D, n) -> Nat]
    <3>1. ASSUME NEW s \in Small(D, n), s # {}
          PROVE  f[CHOOSE x \in s : TRUE] + h[Rest(s)] \in Nat
      <4>1. h[Rest(s)] \in Nat /\ f[CHOOSE x \in s : TRUE] \in Nat
        BY <2>3, <3>1
      <4> QED
        BY <4>1
    <3> QED
      BY <3>1
  <2>5. ASSUME NEW s \in Small(D, n - 1)
        PROVE  s \in Small(D, n) /\ g[s] = h[s]
    <3>1. s \in Small(D, n)
      BY <1>2, <2>1, <2>5 DEF Small
    <3>2. h[s] = IF s = {} THEN 0 ELSE f[CHOOSE x \in s : TRUE] + h[Rest(s)]
      BY <2>2 DEF IsSum
    <3> QED
      BY <3>1, <3>2
  <2>6. IsSum(g, f, Small(D, n))
    <3> SUFFICES ASSUME NEW s \in Small(D, n)
                 PROVE  g[s] = IF s = {} THEN 0 ELSE f[CHOOSE x \in s : TRUE] + g[Rest(s)]
      BY DEF IsSum
    <3>1. CASE s = {}
      BY <3>1
    <3>2. CASE s # {}
      <4>1. g[s] = f[CHOOSE x \in s : TRUE] + h[Rest(s)]
        BY <3>2
      <4>2. g[Rest(s)] = h[Rest(s)]
        BY <2>3, <2>5, <3>2
      <4> QED
        BY <3>2, <4>1, <4>2
    <3> QED
      BY <3>1, <3>2
  <2> QED
    BY <2>4, <2>6
<1> QED
  BY <1>3, <1>4

\* SumFunction of naturals, which is defined with a fold, is a natural.
LEMMA SumIsNat ==
  ASSUME NEW f, IsFiniteSet(DOMAIN f), \A x \in DOMAIN f : f[x] \in Nat
  PROVE  SumFunction(f) \in Nat
<1> DEFINE D == DOMAIN f
           F(g) == [s \in SUBSET D |-> IF s = {} THEN 0
                                       ELSE f[CHOOSE x \in s : TRUE] + g[Rest(s)]]
           iter == CHOOSE g : g = F(g)
<1>1. SumFunction(f) = iter[D]
  BY DEF SumFunction, SumFunctionOnSet, FoldFunctionOnSet, MapThenFoldSet, Rest
<1>2. \A s \in SUBSET D : IsFiniteSet(s) /\ Cardinality(s) \in Nat
  BY FS_Subset, FS_CardinalityType
<1>3. Small(D, Cardinality(D)) = SUBSET D
  BY FS_Subset, FS_CardinalityType DEF Small
<1>4. PICK h \in [SUBSET D -> Nat] : IsSum(h, f, SUBSET D)
  <2>1. Cardinality(D) \in Nat /\ IsFiniteSet(D) /\ \A x \in D : f[x] \in Nat
    BY <1>2
  <2> HIDE DEF D
  <2>2. \E h \in [Small(D, Cardinality(D)) -> Nat] : IsSum(h, f, Small(D, Cardinality(D)))
    BY <2>1, SumsExist
  <2> QED
    BY <1>3, <2>2
<1>5. h = F(h)
  BY <1>4 DEF IsSum
<1>6. iter = F(iter)
  BY <1>5
<1> HIDE DEF iter
<1>7. \A s \in SUBSET D : iter[s] = IF s = {} THEN 0 ELSE f[CHOOSE x \in s : TRUE] + iter[Rest(s)]
  BY <1>6
<1> DEFINE Bad == {n \in Nat : \E s \in SUBSET D : Cardinality(s) = n /\ iter[s] \notin Nat}
<1>8. Bad = {}
  <2> SUFFICES ASSUME Bad # {} PROVE FALSE
    OBVIOUS
  <2>1. PICK n \in Bad : \A m \in Bad : ~(m < n)
    <3>1. Bad \subseteq Nat
      OBVIOUS
    <3> HIDE DEF Bad
    <3> QED
      BY <3>1, LeastNat
  <2>2. PICK s \in SUBSET D : Cardinality(s) = n /\ iter[s] \notin Nat
    BY <2>1
  <2>3. s # {}
    BY <1>7, <2>2
  <2>4. /\ Rest(s) \in SUBSET D /\ Cardinality(Rest(s)) = n - 1 /\ n - 1 \in Nat
        /\ (CHOOSE x \in s : TRUE) \in D
    BY <1>2, <2>2, <2>3, RestIsSmaller
  <2>5. iter[Rest(s)] \in Nat
    BY <2>1, <2>4
  <2>6. f[CHOOSE x \in s : TRUE] \in Nat
    BY <2>4
  <2>7. iter[s] = f[CHOOSE x \in s : TRUE] + iter[Rest(s)]
    BY <1>7, <2>2, <2>3
  <2> QED
    BY <2>2, <2>5, <2>6, <2>7
<1>9. iter[D] \in Nat
  BY <1>2, <1>8
<1> QED
  BY <1>1, <1>9

\* The greatest of some positions of a sequence.
LEMMA MaxIsGreatest ==
  ASSUME NEW n \in Nat, NEW S, S \subseteq 1..n, S # {}
  PROVE  Max(S) \in S /\ \A y \in S : y <= Max(S)
<1> DEFINE T == {n - x : x \in S}
<1>1. T \subseteq Nat /\ T # {}
  <2>1. \A x \in S : n - x \in Nat
    OBVIOUS
  <2> QED
    BY <2>1
<1> HIDE DEF T
<1>2. PICK t \in T : \A u \in T : ~(u < t)
  BY <1>1, LeastNat
<1>3. PICK x \in S : t = n - x
  BY <1>2 DEF T
<1>4. \A y \in S : x >= y
  <2> SUFFICES ASSUME NEW y \in S PROVE x >= y
    OBVIOUS
  <2>1. n - y \in T
    BY DEF T
  <2>2. ~(n - y < t) /\ x \in 1..n /\ y \in 1..n
    BY <1>2, <2>1
  <2> QED
    BY <1>3, <2>2
<1>5. Max(S) \in S /\ \A y \in S : Max(S) >= y
  BY <1>4 DEF Max
<1> QED
  BY <1>5

-----------------------------------------------------------------------------
(* What an attempt writes *)

\* The first n mutations are the writes among the first steps of a program, in
\* their order: g says which.
IsTrace(g, ms, n, p, last) ==
  /\ g \in [1..n -> 1..last]
  /\ \A i, j \in 1..n : i < j => g[i] < g[j]
  /\ \A i \in 1..n : /\ p[g[i]].op # "read"
                     /\ ms[i].op = p[g[i]].op
                     /\ ms[i].doc = p[g[i]].doc
  /\ \A k \in 1..last : p[k].op # "read" => \E i \in 1..n : g[i] = k

\* A mutation has the content that the program computes from what was read, and
\* an update has the precondition of CreateUpdatePrecondition.
Computed(t, ms, i) ==
  /\ ms[i].value = 1 + SumFunction(t.values)
  /\ ms[i].op = "update" =>
       IF ms[i].doc \in DOMAIN t.versions /\ Earlier(ms, i) = {}
       THEN ms[i].pre.kind = "update_time" /\ ms[i].pre.version # NoVersion
       ELSE ms[i].pre.kind = "exists"

\* What the first steps of a program read.
ReadBefore(p, k) == {p[i].doc : i \in {j \in 1..(k - 1) : p[j].op = "read"}}

\* While the user's function runs.
Follows(t, p) ==
  /\ t.pc \in 1..(Len(p) + 1)
  /\ DOMAIN t.versions = ReadBefore(p, t.pc)
  /\ ~t.writeError =>
       /\ \E g : IsTrace(g, t.mutations, Len(t.mutations), p, t.pc - 1)
       /\ \A i \in 1..Len(t.mutations) : Computed(t, t.mutations, i)

\* A commit under way: the writes of the program, and verifications.
Sent(t, p) ==
  /\ DOMAIN t.versions = ReadBefore(p, Len(p) + 1)
  /\ \E n \in 0..Len(t.mutations) :
       /\ \E g : IsTrace(g, t.mutations, n, p, Len(p))
       /\ \A i \in 1..n : Computed(t, t.mutations, i)
       /\ \A i \in (n + 1)..Len(t.mutations) : t.mutations[i].op = "verify"

OutcomeOK(r) ==
  /\ r.answer # "none" => r.phase = "committing"
  /\ r.phase = "done" <=> r.result # "none"

AttemptOK(c) ==
  /\ OutcomeOK(runner[c])
  /\ tx[c].values \in [DOMAIN tx[c].values -> Nat]
  /\ Running(c) => Follows(tx[c], programs[c])
  /\ runner[c].answer = "pending" => Sent(tx[c], programs[c])

StoreOK == \A d \in Docs : /\ db[d].value \in Nat
                           /\ db[d].version # NoVersion => db[d].value # 0

AtomicInv == IInv /\ StoreOK /\ \A c \in Clients : AttemptOK(c)

\* A mutation that is appended leaves what is said of the others as it is.
LEMMA AppendKeepsComputed ==
  ASSUME NEW t, NEW u, u.values = t.values, DOMAIN u.versions = DOMAIN t.versions,
         NEW ms, NEW ns, NEW i \in Nat,
         \A j \in 1..i : ns[j] = ms[j],
         i > 0, Computed(t, ms, i)
  PROVE  Computed(u, ns, i)
<1>1. ns[i] = ms[i] /\ Earlier(ns, i) = Earlier(ms, i)
  BY DEF Earlier
<1> QED
  BY <1>1 DEF Computed

\* One more write of the program, and its mutation.
LEMMA TraceGrows ==
  ASSUME NEW ms, NEW ns, NEW n \in Nat, NEW p, NEW last \in Nat, NEW g,
         IsTrace(g, ms, n, p, last), \A j \in 1..n : ns[j] = ms[j],
         p[last + 1].op # "read",
         ns[n + 1].op = p[last + 1].op, ns[n + 1].doc = p[last + 1].doc
  PROVE  \E h : IsTrace(h, ns, n + 1, p, last + 1)
<1> DEFINE h == [i \in 1..(n + 1) |-> IF i = n + 1 THEN last + 1 ELSE g[i]]
<1>1. g \in [1..n -> 1..last]
  BY DEF IsTrace
<1>2. h \in [1..(n + 1) -> 1..(last + 1)]
  BY <1>1
<1>3. /\ h[n + 1] = last + 1
      /\ \A i \in 1..n : h[i] = g[i] /\ g[i] < last + 1
  BY <1>1
<1> HIDE DEF h
<1>4. \A i, j \in 1..(n + 1) : i < j => h[i] < h[j]
  <2> SUFFICES ASSUME NEW i \in 1..(n + 1), NEW j \in 1..(n + 1), i < j
               PROVE  h[i] < h[j]
    OBVIOUS
  <2>1. i \in 1..n
    OBVIOUS
  <2>2. CASE j = n + 1
    BY <1>3, <2>1, <2>2
  <2>3. CASE j # n + 1
    BY <1>3, <2>1, <2>3 DEF IsTrace
  <2> QED
    BY <2>2, <2>3
<1>5. \A i \in 1..(n + 1) : /\ p[h[i]].op # "read"
                            /\ ns[i].op = p[h[i]].op
                            /\ ns[i].doc = p[h[i]].doc
  <2> SUFFICES ASSUME NEW i \in 1..(n + 1)
               PROVE  /\ p[h[i]].op # "read"
                      /\ ns[i].op = p[h[i]].op
                      /\ ns[i].doc = p[h[i]].doc
    OBVIOUS
  <2>1. CASE i = n + 1
    BY <1>3, <2>1
  <2>2. CASE i # n + 1
    <3>1. i \in 1..n
      BY <2>2
    <3>2. h[i] = g[i] /\ ns[i] = ms[i]
      BY <1>3, <3>1
    <3> QED
      BY <3>1, <3>2 DEF IsTrace
  <2> QED
    BY <2>1, <2>2
<1>6. \A k \in 1..(last + 1) : p[k].op # "read" => \E i \in 1..(n + 1) : h[i] = k
  <2> SUFFICES ASSUME NEW k \in 1..(last + 1), p[k].op # "read"
               PROVE  \E i \in 1..(n + 1) : h[i] = k
    OBVIOUS
  <2>1. CASE k = last + 1
    BY <1>3, <2>1
  <2>2. CASE k # last + 1
    <3>1. PICK i \in 1..n : g[i] = k
      BY <2>2 DEF IsTrace
    <3>2. i \in 1..(n + 1) /\ h[i] = k
      BY <1>3, <3>1
    <3> QED
      BY <3>2
  <2> QED
    BY <2>1, <2>2
<1>7. IsTrace(h, ns, n + 1, p, last + 1)
  BY <1>2, <1>4, <1>5, <1>6 DEF IsTrace
<1> QED
  BY <1>7

\* A read adds nothing to the writes.
LEMMA TraceWaits ==
  ASSUME NEW ms, NEW n \in Nat, NEW p, NEW last \in Nat, NEW g,
         IsTrace(g, ms, n, p, last), p[last + 1].op = "read"
  PROVE  IsTrace(g, ms, n, p, last + 1)
<1>1. g \in [1..n -> 1..(last + 1)]
  BY DEF IsTrace
<1>2. \A k \in 1..(last + 1) : p[k].op # "read" => k \in 1..last
  OBVIOUS
<1> QED
  BY <1>1, <1>2 DEF IsTrace

\* One more step of a program reads one more document, or none.
LEMMA ReadBeforeNext ==
  ASSUME NEW p, NEW k \in Nat \ {0}
  PROVE  /\ p[k].op = "read" => ReadBefore(p, k + 1) = ReadBefore(p, k) \cup {p[k].doc}
         /\ p[k].op # "read" => ReadBefore(p, k + 1) = ReadBefore(p, k)
<1>1. 1..k = 1..(k - 1) \cup {k} /\ (k + 1) - 1 = k
  OBVIOUS
<1> QED
  BY <1>1 DEF ReadBefore

\* A new attempt.
LEMMA NewFollows ==
  ASSUME NEW p \in Seq(Steps)
  PROVE  /\ Follows(NewTransaction, p)
         /\ NewTransaction.values \in [DOMAIN NewTransaction.values -> Nat]
<1> DEFINE t == NewTransaction
<1>1. t.pc = 1 /\ t.mutations = <<>> /\ t.versions = <<>> /\ t.values = <<>> /\ ~t.writeError
  BY DEF NewTransaction
<1>2. Len(t.mutations) = 0 /\ DOMAIN t.versions = {} /\ DOMAIN t.values = {} /\ Len(p) \in Nat
  BY <1>1
<1>3. ReadBefore(p, 1) = {}
  BY DEF ReadBefore
<1> DEFINE g == [i \in 1..0 |-> i]
<1>4. IsTrace(g, t.mutations, 0, p, 0)
  BY DEF IsTrace
<1>5. t.pc - 1 = 0 /\ t.pc \in 1..(Len(p) + 1)
  BY <1>1, <1>2
<1>6. t.values \in [DOMAIN t.values -> Nat]
  BY <1>1
<1> HIDE DEF g, t
<1> QED
  BY <1>1, <1>2, <1>3, <1>4, <1>5, <1>6 DEF Follows, t

\* Transaction::RecordVersion.
LEMMA RecordFollows ==
  ASSUME NEW p \in Seq(Steps), NEW t, IsTx(t), ReadsOK(t), Follows(t, p),
         t.values \in [DOMAIN t.values -> Nat],
         t.pc \in DOMAIN p, p[t.pc].op = "read", t.mutations = <<>>,
         NEW doc, doc.value \in Nat
  PROVE  LET u == Record(t, p[t.pc].doc, doc)
         IN  Follows(u, p) /\ u.values \in [DOMAIN u.values -> Nat]
<1> DEFINE d == p[t.pc].doc
           u == Record(t, d, doc)
<1>1. /\ u.pc = t.pc + 1
      /\ u.mutations = <<>> /\ u.writeError = t.writeError
      /\ u.versions = [e \in DOMAIN t.versions \cup {d} |->
                         IF e = d THEN doc.version ELSE t.versions[e]]
      /\ u.values = [e \in DOMAIN t.values \cup {d} |->
                       IF e = d THEN doc.value ELSE t.values[e]]
  BY DEF Record, IsTx, TxFields
<1>2. u.values \in [DOMAIN u.values -> Nat]
  <2>1. DOMAIN u.values = DOMAIN t.values \cup {d}
    BY <1>1
  <2> QED
    BY <1>1, <2>1
<1>3. Len(p) \in Nat /\ t.pc \in 1..Len(p) /\ t.pc + 1 \in 1..(Len(p) + 1) /\ t.pc \in Nat \ {0}
  OBVIOUS
<1>4. DOMAIN u.versions = ReadBefore(p, u.pc)
  <2>1. ReadBefore(p, t.pc + 1) = ReadBefore(p, t.pc) \cup {d}
    BY <1>3, ReadBeforeNext
  <2>2. DOMAIN u.versions = DOMAIN t.versions \cup {d}
    BY <1>1
  <2> QED
    BY <1>1, <2>1, <2>2 DEF Follows
<1> HIDE DEF u
<1>5. ASSUME ~u.writeError
      PROVE  \E g : IsTrace(g, u.mutations, Len(u.mutations), p, u.pc - 1)
  <2>1. PICK g : IsTrace(g, t.mutations, Len(t.mutations), p, t.pc - 1)
    BY <1>1, <1>5 DEF Follows
  <2>2. Len(t.mutations) = 0 /\ (t.pc - 1) + 1 = t.pc /\ t.pc - 1 \in Nat
    BY <1>3
  <2>3. IsTrace(g, t.mutations, 0, p, t.pc)
    BY <2>1, <2>2, TraceWaits
  <2>4. u.pc - 1 = t.pc /\ u.mutations = t.mutations
    BY <1>1, <1>3
  <2> QED
    BY <2>2, <2>3, <2>4
<1>6. Len(u.mutations) = 0
  BY <1>1
<1>7. Follows(u, p)
  BY <1>1, <1>3, <1>4, <1>5, <1>6 DEF Follows
<1> QED
  BY <1>2, <1>7 DEF u

\* The user's function ignores the error of a second read: it goes on with what
\* it read first.
LEMMA IgnoreFollows ==
  ASSUME NEW p \in Seq(Steps), NEW t, IsTx(t), Follows(t, p),
         t.pc \in DOMAIN p, p[t.pc].op = "read", t.mutations = <<>>,
         p[t.pc].doc \in DOMAIN t.versions
  PROVE  Follows([t EXCEPT !.pc = @ + 1], p)
<1> DEFINE u == [t EXCEPT !.pc = @ + 1]
<1>1. /\ u.pc = t.pc + 1 /\ u.mutations = t.mutations /\ u.writeError = t.writeError
      /\ u.versions = t.versions
  BY DEF IsTx, TxFields
<1> HIDE DEF u
<1>2. Len(p) \in Nat /\ t.pc \in 1..Len(p) /\ t.pc + 1 \in 1..(Len(p) + 1) /\ t.pc \in Nat \ {0}
  OBVIOUS
<1>3. DOMAIN u.versions = ReadBefore(p, u.pc)
  <2>1. ReadBefore(p, t.pc + 1) = ReadBefore(p, t.pc) \cup {p[t.pc].doc}
    BY <1>2, ReadBeforeNext
  <2> QED
    BY <1>1, <2>1 DEF Follows
<1>4. ASSUME ~u.writeError
      PROVE  \E g : IsTrace(g, u.mutations, Len(u.mutations), p, u.pc - 1)
  <2>1. PICK g : IsTrace(g, t.mutations, Len(t.mutations), p, t.pc - 1)
    BY <1>1, <1>4 DEF Follows
  <2>2. Len(t.mutations) = 0 /\ (t.pc - 1) + 1 = t.pc /\ t.pc - 1 \in Nat /\ u.pc - 1 = t.pc
    BY <1>1, <1>2
  <2>3. IsTrace(g, t.mutations, 0, p, t.pc)
    BY <2>1, <2>2, TraceWaits
  <2> QED
    BY <1>1, <2>2, <2>3
<1>5. Len(u.mutations) = 0
  BY <1>1
<1>6. Follows(u, p)
  BY <1>1, <1>2, <1>3, <1>4, <1>5 DEF Follows
<1> QED
  BY <1>6 DEF u

\* Transaction::Set, Update and Delete: a mutation that is appended is computed
\* from what was read.
LEMMA MutationComputed ==
  ASSUME NEW t, WritesOK(t), ~t.writeError, NEW op, NEW d,
         op = "update" => ~UpdateIsImpossible(t, d),
         NEW S, t.mutations \in Seq(S)
  PROVE  Computed(t, Append(t.mutations, Mutation(t, op, d)), Len(t.mutations) + 1)
<1> DEFINE n == Len(t.mutations)
           m == Mutation(t, op, d)
           ms == Append(t.mutations, m)
<1>1. /\ n \in Nat /\ ms[n + 1] = m /\ \A j \in 1..n : ms[j] = t.mutations[j]
      /\ DOMAIN t.mutations = 1..n
  OBVIOUS
<1>2. m.value = 1 + SumFunction(t.values) /\ m.op = op /\ m.doc = d
  BY DEF Mutation
<1> HIDE DEF ms
<1>3. Earlier(ms, n + 1) = {} <=> d \notin t.written
  <2>1. Earlier(ms, n + 1) = {j \in 1..n : t.mutations[j].doc = d}
    <3>1. (n + 1) - 1 = n
      BY <1>1
    <3> HIDE DEF m, n
    <3> QED
      BY <1>1, <1>2, <3>1 DEF Earlier
  <2> QED
    BY <1>1, <2>1 DEF WritesOK
<1>4. ASSUME op = "update"
      PROVE  IF d \in DOMAIN t.versions /\ d \notin t.written
             THEN m.pre.kind = "update_time" /\ m.pre.version # NoVersion
             ELSE m.pre.kind = "exists"
  <2>1. m.pre = CreateUpdatePrecondition(t, d)
    BY <1>4 DEF Mutation
  <2>2. CASE d \in DOMAIN t.versions /\ d \notin t.written
    <3>1. CreatePrecondition(t, d) =
            [kind    |-> IF t.versions[d] = NoVersion THEN "missing" ELSE "update_time",
             version |-> t.versions[d]]
      BY <2>2 DEF CreatePrecondition
    <3>2. t.versions[d] # NoVersion
      BY <1>4, <3>1 DEF UpdateIsImpossible
    <3> QED
      BY <2>1, <2>2, <3>1, <3>2 DEF CreateUpdatePrecondition
  <2>3. CASE ~(d \in DOMAIN t.versions /\ d \notin t.written)
    <3>1. CreatePrecondition(t, d).kind = "none"
      BY <2>3 DEF CreatePrecondition
    <3> QED
      BY <2>1, <2>3, <3>1 DEF CreateUpdatePrecondition
  <2> QED
    BY <2>2, <2>3
<1> HIDE DEF m
<1>5. Computed(t, ms, n + 1)
  BY <1>1, <1>2, <1>3, <1>4 DEF Computed
<1> QED
  BY <1>5 DEF ms, m

\* Transaction::Set, Update and Delete follow the program.
LEMMA WriteFollows ==
  ASSUME NEW p \in Seq(Steps), NEW t, IsTx(t), WritesOK(t), Follows(t, p),
         t.pc \in DOMAIN p, p[t.pc].op # "read"
  PROVE  LET u == WriteDoc(t, p[t.pc].op, p[t.pc].doc)
         IN  Follows(u, p) /\ u.values = t.values
<1> DEFINE op == p[t.pc].op
           d  == p[t.pc].doc
           u  == WriteDoc(t, op, d)
           m  == Mutation(t, op, d)
           impossible == op = "update" /\ UpdateIsImpossible(t, d)
<1>1. /\ u.pc = t.pc + 1
      /\ u.versions = t.versions /\ u.values = t.values
      /\ u.writeError = IF impossible THEN TRUE ELSE t.writeError
      /\ u.mutations = IF impossible THEN t.mutations ELSE Append(t.mutations, m)
  BY DEF WriteDoc, IsTx, TxFields
<1> HIDE DEF u
<1>2. Len(p) \in Nat /\ t.pc \in 1..Len(p) /\ t.pc + 1 \in 1..(Len(p) + 1) /\ t.pc \in Nat \ {0}
  OBVIOUS
<1>3. DOMAIN u.versions = ReadBefore(p, u.pc)
  BY <1>1, <1>2, ReadBeforeNext DEF Follows
<1>4. ASSUME ~u.writeError
      PROVE  /\ \E g : IsTrace(g, u.mutations, Len(u.mutations), p, u.pc - 1)
             /\ \A i \in 1..Len(u.mutations) : Computed(u, u.mutations, i)
  <2> DEFINE n == Len(t.mutations)
  <2>1. ~impossible /\ ~t.writeError /\ u.mutations = Append(t.mutations, m)
    BY <1>1, <1>4
  <2>2. PICK S : t.mutations \in Seq(S)
    BY DEF IsTx
  <2>3. m.op = op /\ m.doc = d
    BY DEF Mutation
  <2>4. Computed(t, Append(t.mutations, m), n + 1)
    BY <2>1, <2>2, MutationComputed
  <2> HIDE DEF m, impossible
  <2>5. /\ n \in Nat /\ Len(u.mutations) = n + 1 /\ u.mutations[n + 1] = m
        /\ \A j \in 1..n : u.mutations[j] = t.mutations[j]
    BY <2>1, <2>2
  <2>6. PICK g : IsTrace(g, t.mutations, n, p, t.pc - 1)
    BY <2>1 DEF Follows
  <2>7. (t.pc - 1) + 1 = t.pc /\ t.pc - 1 \in Nat /\ u.pc - 1 = t.pc
    BY <1>1, <1>2
  <2> HIDE DEF n
  <2>8. \E h : IsTrace(h, u.mutations, n + 1, p, (t.pc - 1) + 1)
    BY <2>3, <2>5, <2>6, <2>7, TraceGrows
  <2>9. ASSUME NEW i \in 1..(n + 1) PROVE Computed(u, u.mutations, i)
    <3>1. CASE i = n + 1
      BY <1>1, <2>1, <2>4, <3>1 DEF Computed
    <3>2. CASE i # n + 1
      <4>1. i \in 1..n /\ i \in Nat /\ i > 0 /\ \A j \in 1..i : u.mutations[j] = t.mutations[j]
        BY <2>5, <3>2
      <4>2. Computed(t, t.mutations, i)
        BY <2>1, <4>1 DEF Follows, n
      <4> QED
        BY <1>1, <4>1, <4>2, AppendKeepsComputed
    <3> QED
      BY <3>1, <3>2
  <2> QED
    BY <2>5, <2>7, <2>8, <2>9
<1>5. Follows(u, p)
  BY <1>1, <1>2, <1>3, <1>4 DEF Follows
<1> QED
  BY <1>1, <1>5 DEF u

\* Transaction::Commit appends verifications.
LEMMA CommitSends ==
  ASSUME NEW p \in Seq(Steps), NEW t, IsTx(t), ReadsOK(t), WritesOK(t), Follows(t, p),
         t.pc \notin DOMAIN p, ~t.writeError,
         NEW u, u.versions = t.versions, u.values = t.values,
         u.mutations = CommitMutations(t)
  PROVE  Sent(u, p)
<1> DEFINE unwritten == DOMAIN t.versions \ {t.mutations[i].doc : i \in DOMAIN t.mutations}
           s  == SetToSeq(unwritten)
           k  == Cardinality(unwritten)
           ns == [i \in 1..k |-> Mutation(t, "verify", s[i])]
           n  == Len(t.mutations)
<1>1. u.mutations = t.mutations \o ns
  BY DEF CommitMutations
<1>2. PICK S : t.mutations \in Seq(S)
  BY DEF IsTx
<1>3. k \in Nat
  BY FS_Subset, FS_CardinalityType DEF ReadsOK
<1>4. \A i \in 1..k : ns[i].op = "verify"
  BY DEF Mutation
<1>5. PICK T : ns \in Seq(T) /\ Len(ns) = k
  <2> DEFINE T == {ns[i] : i \in 1..k}
  <2>1. ns \in [1..k -> T]
    OBVIOUS
  <2> HIDE DEF ns, k, T
  <2>2. ns \in Seq(T) /\ Len(ns) = k
    BY <1>3, <2>1
  <2> QED
    BY <2>2
<1> HIDE DEF ns, k
<1>6. /\ n \in Nat /\ Len(u.mutations) = n + k
      /\ \A i \in 1..n : u.mutations[i] = t.mutations[i]
      /\ \A i \in (n + 1)..(n + k) : u.mutations[i].op = "verify"
  <2>1. n \in Nat /\ Len(u.mutations) = n + k
    <3>1. Len(t.mutations \o ns) = Len(t.mutations) + Len(ns) /\ Len(t.mutations) \in Nat
      BY <1>2, <1>5
    <3> QED
      BY <1>1, <1>5, <3>1
  <2>2. \A i \in 1..n : u.mutations[i] = t.mutations[i]
    BY <1>1, <1>2, <1>5
  <2>3. ASSUME NEW i \in (n + 1)..(n + k) PROVE u.mutations[i].op = "verify"
    <3>1. i \in 1..(n + k) /\ i - n \in 1..k /\ ~(i <= n)
      BY <1>3, <2>1
    <3>2. u.mutations[i] = ns[i - n]
      <4>1. ns \in Seq(T) /\ t.mutations \in Seq(S) /\ i \in 1..(Len(t.mutations) + Len(ns))
            /\ i > Len(t.mutations)
        BY <1>2, <1>5, <2>1, <3>1
      <4>2. (t.mutations \o ns)[i] = ns[i - Len(t.mutations)]
        BY <4>1
      <4> QED
        BY <1>1, <4>2
    <3> QED
      BY <1>4, <3>1, <3>2
  <2> QED
    BY <2>1, <2>2, <2>3
<1>7. t.pc = Len(p) + 1 /\ t.pc - 1 = Len(p) /\ Len(p) \in Nat
  <2>1. Len(p) \in Nat /\ DOMAIN p = 1..Len(p)
    OBVIOUS
  <2>2. t.pc \in 1..(Len(p) + 1)
    BY DEF Follows
  <2> QED
    BY <2>1, <2>2
<1>8. PICK g : IsTrace(g, t.mutations, n, p, Len(p))
  BY <1>7 DEF Follows
<1>9. IsTrace(g, u.mutations, n, p, Len(p))
  BY <1>6, <1>8 DEF IsTrace
<1>10. ASSUME NEW i \in 1..n PROVE Computed(u, u.mutations, i)
  <2>1. i \in Nat /\ i > 0 /\ \A j \in 1..i : u.mutations[j] = t.mutations[j]
    BY <1>6
  <2>2. Computed(t, t.mutations, i)
    BY DEF Follows
  <2> QED
    BY <2>1, <2>2, AppendKeepsComputed
<1> HIDE DEF n
<1>11. n \in 0..Len(u.mutations)
  BY <1>3, <1>6
<1>12. \A i \in (n + 1)..Len(u.mutations) : u.mutations[i].op = "verify"
  BY <1>6
<1>13. DOMAIN u.versions = ReadBefore(p, Len(p) + 1)
  BY <1>7 DEF Follows
<1> QED
  BY <1>9, <1>10, <1>11, <1>12, <1>13 DEF Sent

-----------------------------------------------------------------------------
(* What a commit does *)

\* AtomicStore computes with the operators of the community modules, too.
LEMMA SameMax == ASSUME NEW S PROVE Atomic!Max(S) = Max(S)
BY DEF Max, Atomic!Max

\* The same for restrictions.
LEMMA SameRestrict == ASSUME NEW f, NEW S PROVE Atomic!Restrict(f, S) = Restrict(f, S)
BY DEF Restrict, Atomic!Restrict

\* The same for sums.
LEMMA SameSum == ASSUME NEW f PROVE Atomic!SumFunction(f) = SumFunction(f)
BY DEF SumFunction, SumFunctionOnSet, FoldFunctionOnSet, MapThenFoldSet, Atomic!SumFunction,
       Atomic!SumFunctionOnSet, Atomic!FoldFunctionOnSet, Atomic!MapThenFoldSet

\* The steps that some mutations stand for, and the writes of the same document
\* before a step.
Image(g, A)  == {g[i] : i \in A}
Prior(p, k)  == {j \in Atomic!Writes(p, p[k].doc) : j < k}

\* The last of some mutations stands for the last of the steps they stand for.
LEMMA MaxOfTrace ==
  ASSUME NEW g, NEW ms, NEW n \in Nat, NEW p, NEW last \in Nat, IsTrace(g, ms, n, p, last),
         NEW A, A \subseteq 1..n, A # {}
  PROVE  /\ Max(A) \in A
         /\ Image(g, A) # {}
         /\ Max(Image(g, A)) = g[Max(A)]
<1> DEFINE B == Image(g, A)
<1>1. Max(A) \in A /\ \A y \in A : y <= Max(A)
  BY MaxIsGreatest
<1>2. g \in [1..n -> 1..last] /\ \A i, j \in 1..n : i < j => g[i] < g[j]
  BY DEF IsTrace
<1>3. B \subseteq 1..last /\ B # {}
  BY <1>2 DEF Image
<1>4. g[Max(A)] \in B /\ \A y \in B : y <= g[Max(A)]
  <2>1. g[Max(A)] \in B
    BY <1>1 DEF Image
  <2>2. ASSUME NEW i \in A PROVE g[i] <= g[Max(A)]
    <3>1. i \in 1..n /\ Max(A) \in 1..n /\ i <= Max(A)
      BY <1>1
    <3>3. g[i] \in Nat /\ g[Max(A)] \in Nat
      BY <1>2, <3>1
    <3>2. i = Max(A) \/ i < Max(A)
      BY <3>1
    <3> QED
      BY <1>2, <3>1, <3>2, <3>3
  <2> QED
    BY <2>1, <2>2 DEF Image
<1> HIDE DEF B
<1>5. Max(B) \in B /\ \A y \in B : y <= Max(B)
  BY <1>3, MaxIsGreatest
<1>6. Max(B) = g[Max(A)]
  <2>3. Max(B) \in B /\ g[Max(A)] \in B
    BY <1>4, <1>5
  <2>1. Max(B) \in Nat /\ g[Max(A)] \in Nat
    <3>1. B \subseteq Nat
      BY <1>3
    <3> QED
      BY <2>3, <3>1
  <2>2. Max(B) <= g[Max(A)] /\ g[Max(A)] <= Max(B)
    BY <1>4, <1>5
  <2> QED
    BY <2>1, <2>2
<1> QED
  BY <1>1, <1>3, <1>6 DEF B

\* The mutations of a document before the i-th stand for the steps before it.
LEMMA EarlierSteps ==
  ASSUME NEW p \in Seq(Steps), NEW g, NEW ms, NEW n, n \in Nat, IsTrace(g, ms, n, p, Len(p))
  PROVE  \A i \in 1..n : /\ Earlier(ms, i) \subseteq 1..n
                          /\ Image(g, Earlier(ms, i)) = Prior(p, g[i])
<1> SUFFICES ASSUME NEW i \in 1..n
             PROVE  /\ Earlier(ms, i) \subseteq 1..n
                    /\ Image(g, Earlier(ms, i)) = Prior(p, g[i])
  OBVIOUS
<1> DEFINE d == p[g[i]].doc
<1>1. Len(p) \in Nat /\ DOMAIN p = 1..Len(p)
  OBVIOUS
<1>2. /\ g \in [1..n -> 1..Len(p)]
      /\ \A a, b \in 1..n : a < b => g[a] < g[b]
      /\ \A a \in 1..n : p[g[a]].op # "read" /\ ms[a].doc = p[g[a]].doc
      /\ \A k \in 1..Len(p) : p[k].op # "read" => \E a \in 1..n : g[a] = k
  BY DEF IsTrace
<1>3. \A a, b \in 1..n : g[a] < g[b] => a < b
  <2> SUFFICES ASSUME NEW a \in 1..n, NEW b \in 1..n, g[a] < g[b], ~(a < b)
               PROVE  FALSE
    OBVIOUS
  <2>1. a = b \/ b < a
    OBVIOUS
  <2>2. g[a] \in Nat /\ g[b] \in Nat
    BY <1>2
  <2> QED
    BY <1>2, <2>1, <2>2
<1>4. Earlier(ms, i) = {j \in 1..n : j < i /\ ms[j].doc = d}
  BY <1>2 DEF Earlier
<1>5. ASSUME NEW j \in Earlier(ms, i)
      PROVE  g[j] \in {k \in Atomic!Writes(p, d) : k < g[i]}
  BY <1>1, <1>2, <1>4 DEF Atomic!Writes
<1>6. ASSUME NEW k \in Atomic!Writes(p, d), k < g[i]
      PROVE  \E j \in Earlier(ms, i) : g[j] = k
  <2>1. k \in 1..Len(p) /\ p[k].op # "read" /\ p[k].doc = d
    BY <1>1 DEF Atomic!Writes
  <2>2. PICK j \in 1..n : g[j] = k
    BY <1>2, <2>1
  <2>3. j < i /\ ms[j].doc = d
    BY <1>2, <1>3, <1>6, <2>1, <2>2
  <2> QED
    BY <1>4, <2>2, <2>3
<1> QED
  BY <1>4, <1>5, <1>6 DEF Image, Prior

\* The backend's check of the preconditions finds the documents that the updates
\* of the program need.
LEMMA CommitFits ==
  ASSUME NEW p \in Seq(Steps), NEW t, Sent(t, p), StoreOK,
         DOMAIN db = Docs, \A d \in Docs : db[d].version = NoVersion => db[d].value = 0,
         \A i \in DOMAIN t.mutations : Holds(t.mutations, i),
         \E S : t.mutations \in Seq(S)
  PROVE  Atomic!Fits(p, [d \in Docs |-> db[d].value])
<1> DEFINE ms == t.mutations
           s  == [d \in Docs |-> db[d].value]
<1>0. PICK n \in 0..Len(ms) : /\ \E g : IsTrace(g, ms, n, p, Len(p))
                              /\ \A i \in 1..n : Computed(t, ms, i)
  BY DEF Sent
<1>1. PICK g : /\ IsTrace(g, ms, n, p, Len(p))
               /\ \A i \in 1..n : Computed(t, ms, i)
  BY <1>0
<1>2. Len(p) \in Nat /\ DOMAIN p = 1..Len(p) /\ n \in Nat /\ \A i \in 1..n : i \in DOMAIN ms
  BY <1>1
<1> SUFFICES ASSUME NEW k \in DOMAIN p, p[k].op = "update"
             PROVE  IF Prior(p, k) = {} THEN s[p[k].doc] # 0
                    ELSE p[Max(Prior(p, k))].op # "delete"
  BY SameMax DEF Atomic!Fits, Prior
<1> DEFINE d == p[k].doc
           prior == Prior(p, k)
<1>3. PICK i \in 1..n : g[i] = k
  BY <1>1, <1>2 DEF IsTrace
<1>4. ms[i].op = "update" /\ ms[i].doc = d /\ d \in Docs
  <2>1. p[k] \in Steps
    OBVIOUS
  <2>2. d \in Docs
    BY <2>1 DEF Steps
  <2> QED
    BY <1>1, <1>3, <2>2 DEF IsTrace
<1>5. Earlier(ms, i) \subseteq 1..n /\ prior = Image(g, Earlier(ms, i))
  <2>1. n \in Nat /\ IsTrace(g, ms, n, p, Len(p))
    BY <1>1, <1>2
  <2> HIDE DEF ms
  <2>2. \A j \in 1..n : /\ Earlier(ms, j) \subseteq 1..n
                         /\ Image(g, Earlier(ms, j)) = Prior(p, g[j])
    BY <2>1, EarlierSteps
  <2> QED
    BY <1>3, <2>2
<1>6. Computed(t, ms, i) /\ Holds(ms, i)
  BY <1>1, <1>2
<1>7. CASE Earlier(ms, i) = {}
  <2>1. db[d].version # NoVersion
    <3>1. CASE ms[i].pre.kind = "update_time" /\ ms[i].pre.version # NoVersion
      BY <1>4, <1>6, <3>1 DEF Holds
    <3>2. CASE ms[i].pre.kind = "exists"
      BY <1>4, <1>6, <1>7, <3>2 DEF Holds, Exists
    <3> QED
      BY <1>4, <1>6, <3>1, <3>2 DEF Computed
  <2>2. s[d] # 0
    BY <1>4, <2>1 DEF StoreOK
  <2>3. prior = {}
    BY <1>5, <1>7 DEF Image
  <2> QED
    BY <2>2, <2>3
<1>8. CASE Earlier(ms, i) # {}
  <2>1. ms[i].pre.kind = "exists"
    BY <1>4, <1>6, <1>8 DEF Computed
  <2>2. ms[Max(Earlier(ms, i))].op # "delete"
    BY <1>4, <1>6, <1>8, <2>1 DEF Holds, Exists
  <2>3. /\ Max(Earlier(ms, i)) \in Earlier(ms, i)
        /\ prior # {} /\ Max(prior) = g[Max(Earlier(ms, i))]
    BY <1>1, <1>2, <1>5, <1>8, MaxOfTrace
  <2>4. p[Max(prior)].op = ms[Max(Earlier(ms, i))].op
    BY <1>1, <1>5, <2>3 DEF IsTrace
  <2> QED
    BY <2>2, <2>3, <2>4
<1> QED
  BY <1>7, <1>8

\* The mutations do what the program does to the documents it has read.
LEMMA CommitComputes ==
  ASSUME NEW p \in Seq(Steps), NEW t, Sent(t, p), DOMAIN db = Docs,
         \E S : t.mutations \in Seq(S),
         NEW s, s = [d \in Docs |-> db[d].value],
         t.values = Restrict(s, Atomic!Reads(p)),
         NEW d \in Docs
  PROVE  Applied(t.mutations)[d].value = Atomic!Result(p, s)[d]
<1> DEFINE ms == t.mutations
<1>0. PICK n \in 0..Len(ms) :
        /\ \E g : IsTrace(g, ms, n, p, Len(p))
        /\ \A i \in 1..n : Computed(t, ms, i)
        /\ \A i \in (n + 1)..Len(ms) : ms[i].op = "verify"
  BY DEF Sent
<1>1. PICK g :
        /\ IsTrace(g, ms, n, p, Len(p))
        /\ \A i \in 1..n : Computed(t, ms, i)
        /\ \A i \in (n + 1)..Len(ms) : ms[i].op = "verify"
  BY <1>0
<1>2. /\ Len(p) \in Nat /\ DOMAIN p = 1..Len(p) /\ n \in Nat
      /\ Len(ms) \in Nat /\ DOMAIN ms = 1..Len(ms) /\ n <= Len(ms)
  BY <1>1
<1>3. /\ g \in [1..n -> 1..Len(p)]
      /\ \A a \in 1..n : /\ p[g[a]].op # "read" /\ p[g[a]].op # "verify"
                         /\ ms[a].op = p[g[a]].op
                         /\ ms[a].doc = p[g[a]].doc
      /\ \A k \in 1..Len(p) : p[k].op # "read" => \E a \in 1..n : g[a] = k
  <2>1. \A k \in 1..Len(p) : p[k].op # "verify"
    <3>1. \A k \in 1..Len(p) : p[k] \in Steps
      BY <1>2
    <3> QED
      BY <3>1 DEF Steps
  <2> QED
    BY <1>1, <2>1 DEF IsTrace
<1>4. Written(ms, d) = {i \in 1..n : ms[i].doc = d}
  <2>1. \A i \in 1..n : i \in DOMAIN ms /\ ms[i].op # "verify"
    BY <1>2, <1>3
  <2>2. \A i \in DOMAIN ms : i \in 1..n \/ i \in (n + 1)..Len(ms)
    BY <1>2
  <2> QED
    BY <1>1, <2>1, <2>2 DEF Written
<1>5. Atomic!Writes(p, d) = Image(g, Written(ms, d))
  <2>1. ASSUME NEW k \in Atomic!Writes(p, d) PROVE \E i \in Written(ms, d) : g[i] = k
    <3>1. k \in 1..Len(p) /\ p[k].op # "read" /\ p[k].doc = d
      BY <1>2 DEF Atomic!Writes
    <3>2. PICK i \in 1..n : g[i] = k
      BY <1>3, <3>1
    <3> QED
      BY <1>3, <1>4, <3>1, <3>2
  <2>2. ASSUME NEW i \in Written(ms, d) PROVE g[i] \in Atomic!Writes(p, d)
    BY <1>2, <1>3, <1>4 DEF Atomic!Writes
  <2> QED
    BY <2>1, <2>2 DEF Image
<1>6. CASE Written(ms, d) = {}
  <2>1. Atomic!Writes(p, d) = {}
    BY <1>5, <1>6 DEF Image
  <2>2. Applied(ms)[d] = db[d]
    BY <1>6 DEF Applied
  <2>3. Atomic!Result(p, s)[d] = s[d]
    BY <2>1 DEF Atomic!Result
  <2> QED
    BY <2>2, <2>3
<1>7. CASE Written(ms, d) # {}
  <2> DEFINE i == Max(Written(ms, d))
             k == Max(Atomic!Writes(p, d))
  <2>1. i \in Written(ms, d) /\ Atomic!Writes(p, d) # {} /\ k = g[i]
    <3>1. Written(ms, d) \subseteq 1..n
      BY <1>4
    <3> QED
      BY <1>1, <1>2, <1>5, <1>7, <3>1, MaxOfTrace
  <2>2. i \in 1..n /\ ms[i].op = p[k].op
    BY <1>3, <1>4, <2>1
  <2>3. ms[i].value = Atomic!Content(p, s)
    <3>1. Atomic!Content(p, s) = 1 + SumFunction(t.values)
      BY SameRestrict, SameSum DEF Atomic!Content
    <3> QED
      BY <1>1, <2>2, <3>1 DEF Computed
  <2>4. Applied(ms)[d].value = IF ms[i].op = "delete" THEN 0 ELSE ms[i].value
    BY <1>7 DEF Applied
  <2>5. Atomic!Result(p, s)[d] = IF p[k].op = "delete" THEN 0 ELSE Atomic!Content(p, s)
    BY <2>1, SameMax DEF Atomic!Result
  <2> QED
    BY <2>2, <2>3, <2>4, <2>5
<1> QED
  BY <1>6, <1>7

\* What the backend stores exists.
LEMMA CommitKeepsStore ==
  ASSUME NEW p \in Seq(Steps), NEW t, Sent(t, p), StoreOK, ReadsOK(t),
         t.values \in [DOMAIN t.values -> Nat],
         \E S : t.mutations \in Seq(S),
         db' = Applied(t.mutations)
  PROVE  StoreOK'
<1> DEFINE ms == t.mutations
<1>1. PICK n \in 0..Len(ms) :
        /\ \A i \in 1..n : Computed(t, ms, i)
        /\ \A i \in (n + 1)..Len(ms) : ms[i].op = "verify"
  BY DEF Sent
<1>2. Len(ms) \in Nat /\ DOMAIN ms = 1..Len(ms)
  OBVIOUS
<1>3. SumFunction(t.values) \in Nat
  BY SumIsNat DEF ReadsOK
<1> SUFFICES ASSUME NEW d \in Docs
             PROVE  /\ Applied(ms)[d].value \in Nat
                    /\ Applied(ms)[d].version # NoVersion => Applied(ms)[d].value # 0
  BY DEF StoreOK
<1>4. CASE Written(ms, d) = {}
  <2>1. Applied(ms)[d] = db[d]
    BY <1>4 DEF Applied
  <2> QED
    BY <2>1 DEF StoreOK
<1>5. CASE Written(ms, d) # {}
  <2> DEFINE i == Max(Written(ms, d))
  <2>1. i \in Written(ms, d)
    <3>1. Written(ms, d) \subseteq 1..Len(ms)
      BY <1>2 DEF Written
    <3> QED
      BY <1>2, <1>5, <3>1, MaxIsGreatest
  <2> HIDE DEF i
  <2>2. i \in 1..n
    <3>1. i \in 1..Len(ms) /\ ms[i].op # "verify"
      BY <1>2, <2>1 DEF Written
    <3> QED
      BY <1>1, <1>2, <3>1
  <2>3. ms[i].value = 1 + SumFunction(t.values)
    BY <1>1, <2>2 DEF Computed
  <2>4. Applied(ms)[d] = IF ms[i].op = "delete"
                         THEN [version |-> NoVersion, value |-> 0]
                         ELSE [version |-> clock + 1, value |-> ms[i].value]
    BY <1>5 DEF Applied, i
  <2> QED
    BY <1>3, <2>3, <2>4
<1> QED
  BY <1>4, <1>5

\* The contents of the documents, and how far a client has come.
Contents == [d \in Docs |-> db[d].value]

StateOf(r) == CASE r.result = "ok"     -> "succeeded"
                [] r.result \in Codes  -> "failed"
                [] r.answer = "ok"     -> "applied"
                [] OTHER -> "open"

\* A commit of the backend is one application of the program.
LEMMA CommitApplies ==
  ASSUME AtomicInv, NEW c \in Clients, BackendCommit(c)
  PROVE  /\ StoreOK'
         /\ Atomic!Fits(programs[c], Contents)
         /\ Contents' = Atomic!Result(programs[c], Contents)
<1> DEFINE p == programs[c]
           t == tx[c]
           s == Contents
<1>1. p \in Seq(Steps) /\ DOMAIN db = Docs /\ IsTx(t) /\ ReadsOK(t)
      /\ \A d \in Docs : db[d].version = NoVersion => db[d].value = 0
  BY DEF AtomicInv, IInv, DbOK, ClientOK
<1>2. /\ runner[c].answer = "pending" /\ db' = Applied(t.mutations)
      /\ \A i \in DOMAIN t.mutations : Holds(t.mutations, i)
  BY DEF BackendCommit
<1>3. Sent(t, p) /\ t.values \in [DOMAIN t.values -> Nat] /\ StoreOK
  BY <1>2 DEF AtomicInv, AttemptOK
<1>4. \E S : t.mutations \in Seq(S)
  BY <1>1 DEF IsTx
<1>5. t.values = Restrict(s, Atomic!Reads(p))
  <2>1. \A d \in DOMAIN t.values : t.values[d] = db[d].value
    BY CommitReadsCurrent DEF AtomicInv
  <2>2. DOMAIN t.values = Atomic!Reads(p) /\ DOMAIN t.values \subseteq Docs
    <3>1. DOMAIN p = 1..Len(p) /\ Len(p) \in Nat /\ (Len(p) + 1) - 1 = Len(p)
      BY <1>1
    <3>2. ReadBefore(p, Len(p) + 1) = Atomic!Reads(p)
      BY <3>1 DEF ReadBefore, Atomic!Reads
    <3> QED
      BY <1>1, <1>3, <3>2 DEF ReadsOK, Sent
  <2>3. \A d \in DOMAIN t.values : t.values[d] = s[d]
    BY <2>1, <2>2 DEF Contents
  <2> QED
    BY <1>3, <2>2, <2>3 DEF Restrict
<1>6. StoreOK'
  BY <1>1, <1>2, <1>3, <1>4, CommitKeepsStore
<1>7. Atomic!Fits(p, s)
  BY <1>1, <1>2, <1>3, <1>4, CommitFits DEF Contents
<1>8. \A d \in Docs : Applied(t.mutations)[d].value = Atomic!Result(p, s)[d]
  <2> HIDE DEF t, p
  <2>1. s = [d \in Docs |-> db[d].value]
    BY DEF Contents
  <2> QED
    BY <1>1, <1>3, <1>4, <1>5, <2>1, CommitComputes
<1>9. Contents' = Atomic!Result(p, s)
  BY <1>2, <1>8 DEF Contents, Atomic!Result
<1> QED
  BY <1>6, <1>7, <1>9

-----------------------------------------------------------------------------
(* The steps of an attempt *)

\* A failed attempt leaves nothing under way, and is over when it is reported.
LEMMA ErrorOutcome ==
  ASSUME NEW r \in Runners, NEW t, NEW code \in Codes, OutcomeOK(r), r.phase # "done"
  PROVE  LET s == HandleTransactionError(r, t, code)
         IN  /\ OutcomeOK(s) /\ s.answer = "none" /\ s.phase \in {"backoff", "done"}
             /\ s.phase = "backoff" => s.result = "none"
             /\ s.phase = "done" => s.result = code
<1>1. r.result = "none"
  BY DEF OutcomeOK
<1>2. code # "none"
  BY DEF Codes, Permanent, Retryable
<1>3. /\ Run(r).phase = "backoff" /\ Run(r).answer = "none" /\ Run(r).result = "none"
  BY <1>1 DEF Run, Runners
<1>4. /\ Finish(r, code).phase = "done" /\ Finish(r, code).answer = "none"
      /\ Finish(r, code).result = code
  BY DEF Finish, Runners
<1>5. HandleTransactionError(r, t, code) \in {Run(r), Finish(r, code)}
  BY DEF HandleTransactionError
<1>6. OutcomeOK(Run(r)) /\ OutcomeOK(Finish(r, code))
  BY <1>2, <1>3, <1>4 DEF OutcomeOK
<1> QED
  BY <1>3, <1>4, <1>5, <1>6

\* An attempt that ends with an error, or is not touched, is still in order.
LEMMA AttemptEnds ==
  ASSUME AtomicInv, NEW c \in Clients, runner[c].phase # "done", NEW t, NEW code \in Codes,
         runner' = [runner EXCEPT ![c] = HandleTransactionError(@, t, code)],
         tx'[c].values = tx[c].values
  PROVE  AttemptOK(c)'
<1>1. runner[c] \in Runners /\ AttemptOK(c)
  BY DEF AtomicInv, IInv
<1>2. runner'[c] = HandleTransactionError(runner[c], t, code)
  BY DEF AtomicInv, IInv
<1>3. OutcomeOK(runner'[c]) /\ runner'[c].answer = "none" /\ runner'[c].phase \in {"backoff", "done"}
  BY <1>1, <1>2, ErrorOutcome DEF AttemptOK
<1> QED
  BY <1>1, <1>3 DEF AttemptOK, Running

\* The client whose turn it is not.
LEMMA OtherAttempt ==
  ASSUME NEW e \in Clients, AttemptOK(e), tx'[e] = tx[e], runner'[e] = runner[e],
         programs' = programs
  PROVE  AttemptOK(e)'
BY DEF AttemptOK, Running

\* The steps of the user's function that go on.
LEMMA FunctionGoesOn ==
  ASSUME AtomicInv, NEW c \in Clients, Running(c), NEW u,
         tx' = [tx EXCEPT ![c] = u], UNCHANGED <<runner, programs>>,
         Follows(u, programs[c]), u.values \in [DOMAIN u.values -> Nat]
  PROVE  AttemptOK(c)'
<1>1. tx'[c] = u /\ AttemptOK(c)
  BY DEF AtomicInv, IInv
<1>2. runner[c].answer # "pending"
  BY <1>1 DEF AttemptOK, OutcomeOK, Running
<1> QED
  BY <1>1, <1>2 DEF AttemptOK, Running

\* An error is neither success nor the lack of an answer.
LEMMA CallErrorsAreCodes ==
  /\ CallErrors \subseteq Codes
  /\ {"aborted", "invalid_argument", "unknown", "unavailable"} \subseteq Codes
  /\ Codes \cap {"ok", "none", "pending"} = {}
BY DEF CallErrors, Codes, Permanent, Retryable

\* The step that client c takes, or the backend takes for it.
LEMMA StepKeepsAttempt ==
  ASSUME AtomicInv, NEW c \in Clients, Progress(c) \/ Failure(c)
  PROVE  AttemptOK(c)'
<1> DEFINE p == programs[c]
<1>1. /\ runner[c] \in Runners /\ AttemptOK(c) /\ ClientOK(c) /\ p \in Seq(Steps)
      /\ OutcomeOK(runner[c]) /\ IsTx(tx[c]) /\ ReadsOK(tx[c]) /\ c \in DOMAIN tx
      /\ c \in DOMAIN runner /\ tx[c].values \in [DOMAIN tx[c].values -> Nat]
  BY DEF AtomicInv, IInv, AttemptOK, ClientOK
<1>2. ASSUME Running(c)
      PROVE  WritesOK(tx[c]) /\ Follows(tx[c], p) /\ runner[c].phase # "done"
  BY <1>1, <1>2 DEF ClientOK, AttemptOK, Running
<1>3. ASSUME runner[c].answer # "none" PROVE runner[c].phase = "committing"
  BY <1>1, <1>3 DEF OutcomeOK
<1>4. CASE BackoffElapsed(c)
  <2>1. /\ tx'[c] = NewTransaction /\ programs' = programs
        /\ runner'[c].phase = "running"
        /\ runner'[c].answer = runner[c].answer /\ runner'[c].result = runner[c].result
        /\ runner[c].phase = "backoff"
    BY <1>1, <1>4 DEF BackoffElapsed, Runners
  <2>2. OutcomeOK(runner'[c]) /\ runner'[c].answer # "pending"
    BY <1>1, <2>1 DEF OutcomeOK
  <2> QED
    BY <1>1, <2>1, <2>2, NewFollows DEF AttemptOK
<1>5. CASE Lookup(c)
  <2> DEFINE d == p[tx[c].pc].doc
             u == Record(tx[c], d, db[d])
  <2>1. /\ Running(c) /\ tx[c].pc \in DOMAIN p /\ p[tx[c].pc].op = "read"
        /\ tx[c].mutations = <<>> /\ tx' = [tx EXCEPT ![c] = u]
        /\ UNCHANGED <<runner, programs>>
    BY <1>1, <1>5 DEF Lookup, AtStep, Step
  <2>2. db[d].value \in Nat
    <3>1. p[tx[c].pc] \in Steps
      BY <1>1, <2>1
    <3> QED
      BY <3>1 DEF Steps, AtomicInv, StoreOK
  <2>3. Follows(u, p) /\ u.values \in [DOMAIN u.values -> Nat]
    BY <1>1, <1>2, <2>1, <2>2, RecordFollows
  <2> HIDE DEF u
  <2> QED
    BY <2>1, <2>3, FunctionGoesOn
<1>6. CASE LookupChanged(c)
  <2>1. Running(c) /\ programs' = programs
    BY <1>6 DEF LookupChanged, AtStep
  <2>2. CASE Abandon(c, "aborted")
    BY <1>2, <2>1, <2>2, AttemptEnds, CallErrorsAreCodes DEF Abandon
  <2>3. CASE tx' = [tx EXCEPT ![c].pc = @ + 1] /\ UNCHANGED runner
    <3> DEFINE u == [tx[c] EXCEPT !.pc = @ + 1]
    <3>1. /\ tx[c].pc \in DOMAIN p /\ p[tx[c].pc].op = "read"
          /\ tx[c].mutations = <<>> /\ p[tx[c].pc].doc \in DOMAIN tx[c].versions
      BY <1>6 DEF LookupChanged, AtStep, Step
    <3>2. tx' = [tx EXCEPT ![c] = u] /\ u.values = tx[c].values
      BY <1>1, <2>3 DEF IsTx, TxFields
    <3>3. Follows(u, p)
      BY <1>1, <1>2, <2>1, <3>1, IgnoreFollows
    <3> HIDE DEF u
    <3> QED
      BY <1>1, <2>1, <2>3, <3>2, <3>3, FunctionGoesOn
  <2> QED
    BY <1>6, <2>2, <2>3 DEF LookupChanged
<1>7. CASE LookupAfterWrite(c)
  <2>1. Running(c) /\ Abandon(c, "invalid_argument")
    BY <1>7 DEF LookupAfterWrite, AtStep
  <2> QED
    BY <1>2, <2>1, AttemptEnds, CallErrorsAreCodes DEF Abandon
<1>8. CASE \E code \in CallErrors : LookupFails(c, code)
  <2>1. PICK code \in CallErrors : Running(c) /\ Abandon(c, code)
    BY <1>8 DEF LookupFails, AtStep
  <2> QED
    BY <1>2, <2>1, AttemptEnds, CallErrorsAreCodes DEF Abandon
<1>9. CASE Write(c)
  <2> DEFINE u == WriteDoc(tx[c], p[tx[c].pc].op, p[tx[c].pc].doc)
  <2>1. /\ Running(c) /\ tx[c].pc \in DOMAIN p /\ p[tx[c].pc].op # "read"
        /\ tx' = [tx EXCEPT ![c] = u] /\ UNCHANGED <<runner, programs>>
    BY <1>1, <1>9 DEF Write, AtStep, Step
  <2>2. Follows(u, p) /\ u.values = tx[c].values
    BY <1>1, <1>2, <2>1, WriteFollows
  <2> HIDE DEF u
  <2> QED
    BY <1>1, <2>1, <2>2, FunctionGoesOn
<1>10. CASE UserError(c)
  <2>1. /\ Running(c) /\ tx'[c].values = tx[c].values
        /\ runner' = [runner EXCEPT ![c] = HandleTransactionError(@, tx'[c], "unknown")]
    BY <1>1, <1>10 DEF UserError, IsTx, TxFields
  <2> QED
    BY <1>2, <2>1, AttemptEnds, CallErrorsAreCodes
<1>11. CASE Commit(c)
  <2>1. Running(c) /\ tx[c].pc \notin DOMAIN p /\ programs' = programs
    BY <1>11 DEF Commit
  <2>2. CASE tx[c].writeError
    <3>1. Abandon(c, "invalid_argument")
      BY <1>11, <2>2 DEF Commit
    <3> QED
      BY <1>2, <2>1, <3>1, AttemptEnds, CallErrorsAreCodes DEF Abandon
  <2>3. CASE ~tx[c].writeError
    <3>1. /\ tx' = [tx EXCEPT ![c].mutations = CommitMutations(tx[c])]
          /\ runner' = [runner EXCEPT ![c].phase = "committing", ![c].answer = "pending"]
      BY <1>11, <2>3 DEF Commit
    <3>2. /\ tx'[c].versions = tx[c].versions /\ tx'[c].values = tx[c].values
          /\ tx'[c].mutations = CommitMutations(tx[c])
      BY <1>1, <3>1 DEF IsTx, TxFields
    <3>3. /\ runner'[c].phase = "committing" /\ runner'[c].answer = "pending"
          /\ runner'[c].result = runner[c].result
      BY <1>1, <3>1 DEF Runners
    <3>4. Sent(tx'[c], p)
      BY <1>1, <1>2, <2>1, <2>3, <3>2, CommitSends
    <3>5. OutcomeOK(runner'[c])
      BY <1>1, <1>2, <2>1, <3>3 DEF OutcomeOK
    <3> QED
      BY <1>1, <2>1, <3>2, <3>3, <3>4, <3>5 DEF AttemptOK, Running
  <2> QED
    BY <2>2, <2>3
<1>12. CASE ReadAnswer(c)
  <2>1. /\ runner[c].answer \in Codes \cup {"ok"} /\ UNCHANGED <<tx, programs>>
        /\ runner' = [runner EXCEPT ![c] = DispatchResult(@, tx[c], @.answer)]
    BY <1>12 DEF ReadAnswer
  <2>2. runner[c].phase = "committing"
    BY <1>3, <2>1, CallErrorsAreCodes
  <2>3. CASE runner[c].answer = "ok"
    <3>1. runner'[c] = Finish(runner[c], "ok")
      BY <1>1, <2>1, <2>3 DEF DispatchResult
    <3>2. runner'[c].phase = "done" /\ runner'[c].answer = "none" /\ runner'[c].result = "ok"
      BY <1>1, <3>1 DEF Finish, Runners
    <3> QED
      BY <1>1, <2>1, <3>2 DEF AttemptOK, OutcomeOK, Running
  <2>4. CASE runner[c].answer # "ok"
    <3>1. runner' = [runner EXCEPT ![c] = HandleTransactionError(@, tx[c], runner[c].answer)]
      BY <1>1, <2>1, <2>4 DEF DispatchResult
    <3> QED
      BY <2>1, <2>2, <2>4, <3>1, AttemptEnds
  <2> QED
    BY <2>3, <2>4
<1>13. ASSUME NEW answer \in Codes \cup {"ok"}, Answer(c, answer), runner[c].answer # "none",
              UNCHANGED <<tx, programs>>
       PROVE  AttemptOK(c)'
  <2>1. /\ runner'[c].answer = answer /\ runner'[c].phase = runner[c].phase
        /\ runner'[c].result = runner[c].result
    BY <1>1, <1>13 DEF Answer, Runners
  <2>2. answer # "pending" /\ answer # "none"
    BY CallErrorsAreCodes
  <2> QED
    BY <1>1, <1>3, <1>13, <2>1, <2>2 DEF AttemptOK, OutcomeOK, Running
<1>14. CASE BackendCommit(c)
  BY <1>13, <1>14 DEF BackendCommit
<1>15. CASE BackendRefuse(c)
  <2>1. PICK i : Answer(c, Refusal(tx[c].mutations, i))
    BY <1>15 DEF BackendRefuse
  <2> QED
    BY <1>13, <1>15, <2>1, RefusalIsError DEF BackendRefuse
<1>16. CASE \E code \in CallErrors : RequestFails(c, code)
  BY <1>13, <1>16, CallErrorsAreCodes DEF RequestFails
<1>17. CASE LoseAnswer(c)
  BY <1>13, <1>17, CallErrorsAreCodes DEF LoseAnswer
<1> QED
  BY <1>4, <1>5, <1>6, <1>7, <1>8, <1>9, <1>10, <1>11, <1>12, <1>14, <1>15, <1>16, <1>17
     DEF Progress, Failure

\* No client has read, computed or written anything.
LEMMA InitAtomicInv == Init => AtomicInv
<1> SUFFICES ASSUME Init PROVE AtomicInv
  OBVIOUS
<1>1. IInv
  BY InitInv
<1>2. StoreOK
  BY DEF Init, StoreOK
<1>3. ASSUME NEW c \in Clients PROVE AttemptOK(c)
  <2>1. tx[c] = NewTransaction /\ programs[c] \in Seq(Steps)
    BY <1>1 DEF Init, IInv
  <2>2. /\ runner[c].phase = "backoff" /\ runner[c].answer = "none"
        /\ runner[c].result = "none"
    BY DEF Init
  <2> QED
    BY <2>1, <2>2, NewFollows DEF AttemptOK, OutcomeOK, Running
<1> QED
  BY <1>1, <1>2, <1>3 DEF AtomicInv

\* What a step changes: one client, and the store only when it commits.
LEMMA OneClient ==
  ASSUME AtomicInv, NEW c \in Clients, Progress(c) \/ Failure(c)
  PROVE  /\ programs' = programs
         /\ BackendCommit(c) \/ db' = db
         /\ \A e \in Clients \ {c} : tx'[e] = tx[e] /\ runner'[e] = runner[e]
<1>1. DOMAIN tx = Clients /\ DOMAIN runner = Clients
  BY DEF AtomicInv, IInv
<1>2. /\ programs' = programs
      /\ BackendCommit(c) \/ db' = db
  BY DEF Progress, Failure, BackoffElapsed, Lookup, LookupChanged,
         LookupAfterWrite, LookupFails, Write, UserError, Commit, ReadAnswer,
         BackendCommit, BackendRefuse, RequestFails, LoseAnswer
<1>3. \/ tx' = tx
      \/ \E u : tx' = [tx EXCEPT ![c] = u]
  BY DEF Progress, Failure, BackoffElapsed, Lookup, LookupChanged, Abandon,
         LookupAfterWrite, LookupFails, Write, UserError, Commit, ReadAnswer,
         BackendCommit, BackendRefuse, RequestFails, LoseAnswer
<1>4. \/ runner' = runner
      \/ \E r : runner' = [runner EXCEPT ![c] = r]
  BY DEF Progress, Failure, BackoffElapsed, Lookup, LookupChanged, Abandon, Answer,
         LookupAfterWrite, LookupFails, Write, UserError, Commit, ReadAnswer,
         BackendCommit, BackendRefuse, RequestFails, LoseAnswer
<1> QED
  BY <1>1, <1>2, <1>3, <1>4

\* Every step keeps the invariant.
LEMMA NextAtomicInv == AtomicInv /\ [Next]_vars => AtomicInv'
<1> SUFFICES ASSUME AtomicInv, [Next]_vars PROVE AtomicInv'
  OBVIOUS
<1>1. IInv'
  BY NextInv DEF AtomicInv
<1>2. CASE UNCHANGED vars
  <2>1. UNCHANGED <<db, runner, tx, programs>>
    BY <1>2 DEF vars
  <2>2. StoreOK'
    BY <2>1 DEF AtomicInv, StoreOK
  <2>3. \A c \in Clients : AttemptOK(c)'
    BY <2>1 DEF AtomicInv, AttemptOK, Running
  <2> QED
    BY <1>1, <2>2, <2>3 DEF AtomicInv
<1>3. ASSUME NEW c \in Clients, Progress(c) \/ Failure(c) PROVE AtomicInv'
  <2>1. StoreOK'
    <3>1. CASE BackendCommit(c)
      BY <3>1, CommitApplies
    <3>2. CASE db' = db
      BY <3>2 DEF AtomicInv, StoreOK
    <3> QED
      BY <1>3, <3>1, <3>2, OneClient
  <2>2. ASSUME NEW e \in Clients PROVE AttemptOK(e)'
    <3>1. CASE e = c
      BY <1>3, <3>1, StepKeepsAttempt
    <3>2. CASE e # c
      <4>1. tx'[e] = tx[e] /\ runner'[e] = runner[e] /\ programs' = programs
        BY <1>3, <3>2, OneClient
      <4> QED
        BY <4>1, OtherAttempt DEF AtomicInv
    <3> QED
      BY <3>1, <3>2
  <2> QED
    BY <1>1, <2>1, <2>2 DEF AtomicInv
<1> QED
  BY <1>2, <1>3 DEF Next

-----------------------------------------------------------------------------
(* The refinement *)

\* What the client of a step becomes, as AtomicStore sees it.
Moves(c, from, to) == StateOf(runner[c]) = from /\ StateOf(runner'[c]) = to

\* An error that ends an attempt fails the client, or leaves it open.
LEMMA ErrorIsFailure ==
  ASSUME AtomicInv, NEW c \in Clients, runner[c].phase # "done", runner[c].answer # "ok",
         NEW t, NEW code \in Codes,
         runner' = [runner EXCEPT ![c] = HandleTransactionError(@, t, code)]
  PROVE  Moves(c, "open", "open") \/ Moves(c, "open", "failed")
<1>1. runner[c] \in Runners /\ OutcomeOK(runner[c])
  BY DEF AtomicInv, IInv, AttemptOK
<1>2. runner'[c] = HandleTransactionError(runner[c], t, code)
  BY DEF AtomicInv, IInv
<1>3. /\ runner'[c].answer = "none" /\ runner'[c].phase \in {"backoff", "done"}
      /\ runner'[c].phase = "backoff" => runner'[c].result = "none"
      /\ runner'[c].phase = "done" => runner'[c].result = code
  BY <1>1, <1>2, ErrorOutcome
<1>4. StateOf(runner[c]) = "open"
  BY <1>1, CallErrorsAreCodes DEF OutcomeOK, StateOf
<1>5. StateOf(runner'[c]) \in {"open", "failed"}
  BY <1>3, CallErrorsAreCodes DEF StateOf
<1> QED
  BY <1>4, <1>5 DEF Moves

\* The steps of a client that leave the store alone.
LEMMA QuietStep ==
  ASSUME AtomicInv, NEW c \in Clients, Progress(c) \/ Failure(c), ~BackendCommit(c)
  PROVE  \/ StateOf(runner'[c]) = StateOf(runner[c])
         \/ Moves(c, "open", "failed")
         \/ Moves(c, "applied", "open")
         \/ Moves(c, "applied", "succeeded")
<1>1. runner[c] \in Runners /\ OutcomeOK(runner[c]) /\ c \in DOMAIN runner
  BY DEF AtomicInv, IInv, AttemptOK
<1>2. ASSUME Running(c) PROVE runner[c].phase # "done" /\ runner[c].answer # "ok"
  BY <1>1, <1>2 DEF OutcomeOK, Running
<1>3. ASSUME NEW code \in Codes, Abandon(c, code), Running(c)
      PROVE  Moves(c, "open", "open") \/ Moves(c, "open", "failed")
  BY <1>2, <1>3, ErrorIsFailure DEF Abandon
<1>4. ASSUME NEW r, runner' = [runner EXCEPT ![c] = r],
             r.result = runner[c].result, r.answer = runner[c].answer
      PROVE  StateOf(runner'[c]) = StateOf(runner[c])
  BY <1>1, <1>4 DEF StateOf
<1>5. CASE BackoffElapsed(c)
  <2> DEFINE r == [runner[c] EXCEPT !.phase = "running"]
  <2>1. runner' = [runner EXCEPT ![c] = r] /\ r.result = runner[c].result
        /\ r.answer = runner[c].answer
    BY <1>1, <1>5 DEF BackoffElapsed, Runners
  <2> HIDE DEF r
  <2> QED
    BY <1>4, <2>1
<1>6. CASE Lookup(c) \/ Write(c)
  <2>1. runner' = runner
    BY <1>6 DEF Lookup, Write
  <2> QED
    BY <2>1
<1>7. CASE LookupChanged(c)
  <2>1. Running(c) /\ (Abandon(c, "aborted") \/ runner' = runner)
    BY <1>7 DEF LookupChanged, AtStep
  <2> QED
    BY <1>3, <2>1, CallErrorsAreCodes DEF Moves
<1>8. CASE LookupAfterWrite(c)
  <2>1. Running(c) /\ Abandon(c, "invalid_argument")
    BY <1>8 DEF LookupAfterWrite, AtStep
  <2> QED
    BY <1>3, <2>1, CallErrorsAreCodes DEF Moves
<1>9. CASE \E code \in CallErrors : LookupFails(c, code)
  <2>1. PICK code \in CallErrors : Running(c) /\ Abandon(c, code)
    BY <1>9 DEF LookupFails, AtStep
  <2> QED
    BY <1>3, <2>1, CallErrorsAreCodes DEF Moves
<1>10. CASE UserError(c)
  <2>1. /\ Running(c)
        /\ runner' = [runner EXCEPT ![c] = HandleTransactionError(@, tx'[c], "unknown")]
    BY <1>10 DEF UserError
  <2> QED
    BY <1>2, <2>1, ErrorIsFailure, CallErrorsAreCodes DEF Moves
<1>11. CASE Commit(c)
  <2>1. Running(c)
    BY <1>11 DEF Commit
  <2>2. CASE Abandon(c, "invalid_argument")
    BY <1>3, <2>1, <2>2, CallErrorsAreCodes DEF Moves
  <2>3. CASE runner' = [runner EXCEPT ![c].phase = "committing", ![c].answer = "pending"]
    <3>1. runner'[c].answer = "pending" /\ runner'[c].result = runner[c].result
      BY <1>1, <2>3 DEF Runners
    <3> QED
      BY <1>2, <2>1, <3>1 DEF StateOf
  <2> QED
    BY <1>11, <2>2, <2>3 DEF Commit
<1>12. CASE ReadAnswer(c)
  <2>1. /\ runner[c].answer \in Codes \cup {"ok"}
        /\ runner' = [runner EXCEPT ![c] = DispatchResult(@, tx[c], @.answer)]
    BY <1>12 DEF ReadAnswer
  <2>2. runner[c].phase = "committing" /\ runner[c].result = "none"
    BY <1>1, <2>1, CallErrorsAreCodes DEF OutcomeOK
  <2>3. CASE runner[c].answer = "ok"
    <3>1. runner'[c] = Finish(runner[c], "ok")
      BY <1>1, <2>1, <2>3 DEF DispatchResult
    <3>2. runner'[c].result = "ok" /\ runner'[c].answer = "none"
      BY <1>1, <3>1 DEF Finish, Runners
    <3>4. "none" \notin Codes /\ "ok" \notin Codes
      BY CallErrorsAreCodes
    <3>3. Moves(c, "applied", "succeeded")
      <4>1. StateOf(runner[c]) = "applied"
        BY <2>2, <2>3, <3>4 DEF StateOf
      <4>2. StateOf(runner'[c]) = "succeeded"
        BY <3>2, <3>4 DEF StateOf
      <4> QED
        BY <4>1, <4>2 DEF Moves
    <3> QED
      BY <3>3
  <2>4. CASE runner[c].answer # "ok"
    <3>1. runner' = [runner EXCEPT ![c] = HandleTransactionError(@, tx[c], runner[c].answer)]
      BY <1>1, <2>1, <2>4 DEF DispatchResult
    <3>2. runner[c].answer \in Codes /\ runner[c].phase # "done"
      BY <2>1, <2>2, <2>4
    <3>3. Moves(c, "open", "open") \/ Moves(c, "open", "failed")
      BY <2>4, <3>1, <3>2, ErrorIsFailure
    <3> QED
      BY <3>3 DEF Moves
  <2> QED
    BY <2>3, <2>4
<1>13. ASSUME NEW code \in Codes, Answer(c, code), runner[c].answer = "pending"
       PROVE  StateOf(runner'[c]) = StateOf(runner[c])
  <2>1. /\ runner'[c].answer = code /\ runner'[c].result = runner[c].result
    BY <1>1, <1>13 DEF Answer, Runners
  <2> QED
    BY <1>13, <2>1, CallErrorsAreCodes DEF StateOf
<1>14. CASE BackendRefuse(c)
  <2>1. PICK i : Answer(c, Refusal(tx[c].mutations, i))
    BY <1>14 DEF BackendRefuse
  <2> QED
    BY <1>13, <1>14, <2>1, RefusalIsError DEF BackendRefuse
<1>15. CASE \E code \in CallErrors : RequestFails(c, code)
  BY <1>13, <1>15, CallErrorsAreCodes DEF RequestFails
<1>16. CASE LoseAnswer(c)
  <2>1. /\ runner'[c].answer = "unavailable" /\ runner'[c].result = runner[c].result
        /\ runner[c].answer = "ok"
    BY <1>1, <1>16 DEF LoseAnswer, Answer, Runners
  <2>2. runner[c].result = "none"
    BY <1>1, <2>1 DEF OutcomeOK
  <2>3. Moves(c, "applied", "open")
    BY <2>1, <2>2, CallErrorsAreCodes DEF Moves, StateOf
  <2> QED
    BY <2>3
<1> QED
  BY <1>5, <1>6, <1>7, <1>8, <1>9, <1>10, <1>11, <1>12, <1>14, <1>15, <1>16
     DEF Progress, Failure

\* The state of every client, as AtomicStore sees it.
States == [c \in Clients |-> StateOf(runner[c])]

\* The refinement mapping of Transactions.
LEMMA MappedStates ==
  LET mapped == [c \in Clients |->
                   CASE runner[c].result = "ok"   -> "succeeded"
                     [] runner[c].result \in Codes -> "failed"
                     [] runner[c].answer = "ok"   -> "applied"
                     [] OTHER -> "open"]
  IN  mapped = States /\ mapped' = States'
BY DEF States, StateOf

\* Nothing is stored and every program is still to be applied.
LEMMA InitIsAtomic == Init => Atomic!Init
<1> SUFFICES ASSUME Init PROVE Atomic!Init
  OBVIOUS
<1>1. Contents = [d \in Docs |-> 0]
  BY DEF Init, Contents
<1>2. ASSUME NEW c \in Clients PROVE StateOf(runner[c]) = "open"
  <2>1. runner[c].result = "none" /\ runner[c].answer = "none"
    BY DEF Init
  <2> QED
    BY <2>1, CallErrorsAreCodes DEF StateOf
<1>3. States = [c \in Clients |-> "open"]
  BY <1>2 DEF States
<1> QED
  BY <1>1, <1>3, MappedStates DEF Atomic!Init, Contents

\* Every step is one of AtomicStore, or changes nothing that it sees.
LEMMA NextIsAtomic == AtomicInv /\ [Next]_vars => [Atomic!Next]_Atomic!vars
<1> SUFFICES ASSUME AtomicInv, [Next]_vars PROVE [Atomic!Next]_Atomic!vars
  OBVIOUS
<1>1. CASE UNCHANGED vars
  BY <1>1 DEF vars, Atomic!vars
<1>2. ASSUME NEW c \in Clients, Progress(c) \/ Failure(c)
      PROVE  [Atomic!Next]_Atomic!vars
  <2>1. programs' = programs /\ \A e \in Clients \ {c} : runner'[e] = runner[e]
    BY <1>2, OneClient
  <2>2. ASSUME NEW a, NEW b, Moves(c, a, b)
        PROVE  States[c] = a /\ States' = [States EXCEPT ![c] = b]
    BY <2>1, <2>2 DEF States, Moves
  <2>3. CASE BackendCommit(c)
    <3>1. /\ Atomic!Fits(programs[c], Contents)
          /\ Contents' = Atomic!Result(programs[c], Contents)
      BY <2>3, CommitApplies
    <3>2. Moves(c, "open", "applied")
      <4>1. runner[c] \in Runners /\ OutcomeOK(runner[c]) /\ runner[c].answer = "pending"
        BY <2>3 DEF AtomicInv, IInv, AttemptOK, BackendCommit
      <4>2. runner'[c].answer = "ok" /\ runner'[c].result = runner[c].result
        BY <2>3, <4>1 DEF AtomicInv, IInv, BackendCommit, Answer, Runners
      <4>3. runner[c].result = "none"
        BY <4>1 DEF OutcomeOK
      <4> QED
        BY <4>1, <4>2, <4>3, CallErrorsAreCodes DEF Moves, StateOf
    <3>3. Atomic!Apply(c)
      BY <2>1, <2>2, <3>1, <3>2, MappedStates DEF Atomic!Apply, Atomic!Become, Contents
    <3> QED
      BY <3>3 DEF Atomic!Next
  <2>4. CASE ~BackendCommit(c)
    <3>1. Contents' = Contents
      BY <1>2, <2>4, OneClient DEF Contents
    <3>2. CASE StateOf(runner'[c]) = StateOf(runner[c])
      <4>1. States' = States
        BY <2>1, <3>2 DEF States
      <4> QED
        BY <2>1, <3>1, <4>1, MappedStates DEF Atomic!vars, Contents
    <3>3. CASE Moves(c, "open", "failed")
      <4>1. Atomic!Fail(c)
        BY <2>1, <2>2, <3>1, <3>3, MappedStates DEF Atomic!Fail, Atomic!Become, Contents
      <4> QED
        BY <4>1 DEF Atomic!Next
    <3>4. CASE Moves(c, "applied", "open")
      <4>1. Atomic!LoseAnswer(c)
        BY <2>1, <2>2, <3>1, <3>4, MappedStates
           DEF Atomic!LoseAnswer, Atomic!Become, Contents
      <4> QED
        BY <4>1 DEF Atomic!Next
    <3>5. CASE Moves(c, "applied", "succeeded")
      <4>1. Atomic!Succeed(c)
        BY <2>1, <2>2, <3>1, <3>5, MappedStates
           DEF Atomic!Succeed, Atomic!Become, Contents
      <4> QED
        BY <4>1 DEF Atomic!Next
    <3> QED
      BY <1>2, <2>4, <3>2, <3>3, <3>4, <3>5, QuietStep
  <2> QED
    BY <2>3, <2>4
<1> QED
  BY <1>1, <1>2 DEF Next

\* Transactions implement AtomicStore: whatever the clients interleave, each
\* transaction is applied at one instant of the store, with the documents as they
\* are at that instant, before success is reported.
THEOREM TransactionsAreAtomic == Spec => ImplementsAtomicStore
<1>1. Init => AtomicInv
  BY InitAtomicInv
<1>2. AtomicInv /\ [Next]_vars => AtomicInv'
  BY NextAtomicInv
<1>3. Init => Atomic!Init
  BY InitIsAtomic
<1>4. AtomicInv /\ [Next]_vars => [Atomic!Next]_Atomic!vars
  BY NextIsAtomic
<1> QED
  BY <1>1, <1>2, <1>3, <1>4, PTL DEF Spec, Atomic!Spec, ImplementsAtomicStore
=============================================================================
