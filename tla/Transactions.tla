---------------------------- MODULE Transactions ----------------------------
(***************************************************************************)
(* Optimistic transactions: clients that read documents, compute, and ask  *)
(* the backend to commit their writes under the versions they read. One    *)
(* record per client stands for its TransactionRunner, one for the         *)
(* Transaction object of the current attempt.                              *)
(*                                                                         *)
(* The update function of the user is a program: reads and writes, in      *)
(* order. It writes one more than the sum of what it read.                 *)
(*                                                                         *)
(* The backend (external) checks the preconditions of a commit and applies *)
(* all of its writes or none. Requests and answers may be lost.            *)
(***************************************************************************)
EXTENDS Integers, Sequences, SequencesExt, FiniteSetsExt, Functions

CONSTANTS
  Clients,     \* the clients; each runs one transaction
  Docs,        \* the documents
  MaxAttempts, \* max_attempts of the transaction options
  Settings     \* the settings to check; each has the programs of the clients
               \* and the number of failures: lost or refused requests, lost
               \* answers, errors of the user's function

Steps == [op : {"read", "set", "update", "delete"}, doc : Docs]

ASSUME AttemptsAssumption == MaxAttempts \in Nat \ {0}
ASSUME SettingsAssumption ==
  \A s \in Settings : s.programs \in [Clients -> Seq(Steps)] /\ s.failures \in Nat

VARIABLES
  db,          \* the backend: version and content of each document
  clock,       \* the version of its latest commit
  runner,      \* the runner of each client
  tx,          \* the transaction object of its current attempt
  programs,    \* the user's functions
  failures     \* how many failures there may still be

vars == <<db, clock, runner, tx, programs, failures>>

\* SnapshotVersion::None stands for a document that does not exist.
NoVersion == 0

Retryable == {"aborted", "already_exists", "failed_precondition"}
Permanent == Retryable \cup {"not_found", "invalid_argument", "permission_denied"}
Codes     == Permanent \cup {"unavailable", "unknown"}

NewTransaction ==
  [pc |-> 1, versions |-> <<>>, values |-> <<>>, mutations |-> <<>>,
   written |-> {}, writeError |-> FALSE, permanentError |-> FALSE]

\* SyncEngine::Transaction runs the first attempt at once.
Init ==
  /\ db = [d \in Docs |-> [version |-> NoVersion, value |-> 0]]
  /\ clock = 0
  /\ runner = [c \in Clients |-> [phase |-> "backoff", attempts |-> MaxAttempts - 1,
                                  answer |-> "none", result |-> "none"]]
  /\ tx = [c \in Clients |-> NewTransaction]
  /\ \E s \in Settings : programs = s.programs /\ failures = s.failures

Fails == failures > 0 /\ failures' = failures - 1

-----------------------------------------------------------------------------
(* The transaction object *)

\* The first write of a document that was read carries what was read.
CreatePrecondition(t, d) ==
  IF d \in t.written \/ d \notin DOMAIN t.versions
  THEN [kind |-> "none", version |-> NoVersion]
  ELSE [kind    |-> IF t.versions[d] = NoVersion THEN "missing" ELSE "update_time",
        version |-> t.versions[d]]

\* A document that was read as missing cannot be updated.
UpdateIsImpossible(t, d) == CreatePrecondition(t, d).kind = "missing"

CreateUpdatePrecondition(t, d) ==
  IF CreatePrecondition(t, d).kind = "none"
  THEN [kind |-> "exists", version |-> NoVersion]
  ELSE CreatePrecondition(t, d)

Mutation(t, op, d) ==
  [op |-> op, doc |-> d, value |-> 1 + SumFunction(t.values),
   pre |-> IF op = "update" THEN CreateUpdatePrecondition(t, d)
           ELSE CreatePrecondition(t, d)]

\* Set, Update and Delete.
WriteDoc(t, op, d) ==
  LET w == [t EXCEPT !.written = @ \cup {d}, !.pc = @ + 1]
  IN  IF op = "update" /\ UpdateIsImpossible(t, d)
      THEN [w EXCEPT !.writeError = TRUE]
      ELSE [w EXCEPT !.mutations = Append(@, Mutation(t, op, d))]

\* Mutant: documents that were only read are not verified.
CommitWithoutVerify(t) == t.mutations

\* The mutations, and a verification of each document that was only read.
CommitMutations(t) ==
  LET unwritten == DOMAIN t.versions \ {t.mutations[i].doc : i \in DOMAIN t.mutations}
  IN  t.mutations \o [i \in 1..Cardinality(unwritten) |->
                        Mutation(t, "verify", SetToSeq(unwritten)[i])]

\* RecordVersion when the document was not read before.
Record(t, d, doc) ==
  [t EXCEPT !.versions = [e \in DOMAIN @ \cup {d} |-> IF e = d THEN doc.version ELSE @[e]],
            !.values   = [e \in DOMAIN @ \cup {d} |-> IF e = d THEN doc.value ELSE @[e]],
            !.pc       = @ + 1]

-----------------------------------------------------------------------------
(* The runner *)

IsPermanentError(code) == code \in Permanent

IsRetryableTransactionError(code) == code \in Retryable \/ ~IsPermanentError(code)

\* Run takes an attempt and waits for its backoff.
Run(r) == [r EXCEPT !.attempts = @ - 1, !.phase = "backoff", !.answer = "none"]

Finish(r, result) == [r EXCEPT !.phase = "done", !.result = result, !.answer = "none"]

\* Mutant: when no attempt is left, nobody is told.
GiveUpSilently(r, t, code) ==
  IF r.attempts > 0 /\ IsRetryableTransactionError(code) /\ ~t.permanentError
  THEN Run(r) ELSE [r EXCEPT !.phase = "done"]

HandleTransactionError(r, t, code) ==
  IF r.attempts > 0 /\ IsRetryableTransactionError(code) /\ ~t.permanentError
  THEN Run(r) ELSE Finish(r, code)

\* Mutant: an answer that may be late counts as success.
DispatchUnavailable(r, t, code) ==
  IF code \in {"ok", "unavailable"} THEN Finish(r, "ok")
  ELSE HandleTransactionError(r, t, code)

DispatchResult(r, t, code) ==
  IF code = "ok" THEN Finish(r, "ok") ELSE HandleTransactionError(r, t, code)

-----------------------------------------------------------------------------
(* The steps of client c. Between them run those of the other clients. *)

Step(c)   == programs[c][tx[c].pc]
Running(c) == runner[c].phase = "running"
AtStep(c, ops) ==
  Running(c) /\ tx[c].pc \in DOMAIN programs[c] /\ Step(c).op \in ops

BackoffElapsed(c) ==
  /\ runner[c].phase = "backoff"
  /\ runner' = [runner EXCEPT ![c].phase = "running"]
  /\ tx' = [tx EXCEPT ![c] = NewTransaction]
  /\ UNCHANGED <<db, clock, programs, failures>>

\* The user's function ends with the error code (ContinueCommit).
Abandon(c, code) ==
  /\ runner' = [runner EXCEPT ![c] = HandleTransactionError(@, tx[c], code)]
  /\ UNCHANGED tx

\* The first read of a document, or one that finds it unchanged.
Lookup(c) ==
  /\ AtStep(c, {"read"})
  /\ tx[c].mutations = <<>>
  /\ LET d == Step(c).doc
     IN  /\ d \in DOMAIN tx[c].versions => tx[c].versions[d] = db[d].version
         /\ tx' = [tx EXCEPT ![c] = Record(@, d, db[d])]
  /\ UNCHANGED <<db, clock, runner, programs, failures>>

\* A second read finds another version: the function fails, or it ignores the
\* error and goes on with what it read first.
LookupChanged(c) ==
  /\ AtStep(c, {"read"})
  /\ tx[c].mutations = <<>>
  /\ LET d == Step(c).doc
     IN  d \in DOMAIN tx[c].versions /\ tx[c].versions[d] # db[d].version
  /\ \/ Abandon(c, "aborted")
     \/ tx' = [tx EXCEPT ![c].pc = @ + 1] /\ UNCHANGED runner
  /\ UNCHANGED <<db, clock, programs, failures>>

LookupAfterWrite(c) ==
  /\ AtStep(c, {"read"})
  /\ tx[c].mutations # <<>>
  /\ Abandon(c, "invalid_argument")
  /\ UNCHANGED <<db, clock, programs, failures>>

LookupFails(c, code) ==
  /\ Fails
  /\ AtStep(c, {"read"})
  /\ tx[c].mutations = <<>>
  /\ Abandon(c, code)
  /\ UNCHANGED <<db, clock, programs>>

Write(c) ==
  /\ AtStep(c, {"set", "update", "delete"})
  /\ tx' = [tx EXCEPT ![c] = WriteDoc(@, Step(c).op, Step(c).doc)]
  /\ UNCHANGED <<db, clock, runner, programs, failures>>

\* An error of the user's own domain (MarkPermanentlyFailed).
UserError(c) ==
  /\ Fails
  /\ Running(c)
  /\ tx' = [tx EXCEPT ![c].permanentError = TRUE]
  /\ runner' = [runner EXCEPT ![c] = HandleTransactionError(@, tx'[c], "unknown")]
  /\ UNCHANGED <<db, clock, programs>>

\* The function has ended without an error: ContinueCommit and Commit.
Commit(c) ==
  /\ Running(c)
  /\ tx[c].pc \notin DOMAIN programs[c]
  /\ IF tx[c].writeError
     THEN Abandon(c, "invalid_argument")
     ELSE /\ tx' = [tx EXCEPT ![c].mutations = CommitMutations(tx[c])]
          /\ runner' = [runner EXCEPT ![c].phase = "committing", ![c].answer = "pending"]
  /\ UNCHANGED <<db, clock, programs, failures>>

ReadAnswer(c) ==
  /\ runner[c].answer \in Codes \cup {"ok"}
  /\ runner' = [runner EXCEPT ![c] = DispatchResult(@, tx[c], @.answer)]
  /\ UNCHANGED <<db, clock, tx, programs, failures>>

-----------------------------------------------------------------------------
(* The backend and the network *)

\* The last write of the same document before the i-th mutation.
Earlier(ms, i) == {j \in 1..(i - 1) : ms[j].doc = ms[i].doc}

Exists(ms, i) ==
  IF Earlier(ms, i) = {} THEN db[ms[i].doc].version # NoVersion
  ELSE ms[Max(Earlier(ms, i))].op # "delete"

Holds(ms, i) ==
  CASE ms[i].pre.kind = "none"        -> TRUE
    [] ms[i].pre.kind = "exists"      -> Exists(ms, i)
    [] ms[i].pre.kind = "missing"     -> ~Exists(ms, i)
    [] ms[i].pre.kind = "update_time" -> db[ms[i].doc].version = ms[i].pre.version

Refusal(ms, i) ==
  CASE ms[i].pre.kind = "exists"  -> "not_found"
    [] ms[i].pre.kind = "missing" -> "already_exists"
    [] OTHER -> IF ms[i].op = "verify" THEN "failed_precondition" ELSE "aborted"

\* Every write of a document by the mutations; verifications write nothing.
Written(ms, d) == {i \in DOMAIN ms : ms[i].doc = d /\ ms[i].op # "verify"}

Applied(ms) ==
  [d \in Docs |->
     IF Written(ms, d) = {} THEN db[d]
     ELSE IF ms[Max(Written(ms, d))].op = "delete"
     THEN [version |-> NoVersion, value |-> 0]
     ELSE [version |-> clock + 1, value |-> ms[Max(Written(ms, d))].value]]

Answer(c, answer) == runner' = [runner EXCEPT ![c].answer = answer]

BackendCommit(c) ==
  LET ms == tx[c].mutations
  IN  /\ runner[c].answer = "pending"
      /\ \A i \in DOMAIN ms : Holds(ms, i)
      /\ db' = Applied(ms)
      /\ clock' = clock + 1
      /\ Answer(c, "ok")
      /\ UNCHANGED <<tx, programs, failures>>

BackendRefuse(c) ==
  LET ms  == tx[c].mutations
      bad == {i \in DOMAIN ms : ~Holds(ms, i)}
  IN  /\ runner[c].answer = "pending"
      /\ bad # {}
      /\ Answer(c, Refusal(ms, Min(bad)))
      /\ UNCHANGED <<db, clock, tx, programs, failures>>

\* The request never reaches the backend, or is refused without being looked at.
RequestFails(c, code) ==
  /\ Fails
  /\ runner[c].answer = "pending"
  /\ Answer(c, code)
  /\ UNCHANGED <<db, clock, tx, programs>>

\* The commit was applied, but the call ends without an answer.
LoseAnswer(c) ==
  /\ Fails
  /\ runner[c].answer = "ok"
  /\ Answer(c, "unavailable")
  /\ UNCHANGED <<db, clock, tx, programs>>

-----------------------------------------------------------------------------

CallErrors == {"unavailable", "permission_denied"}

Progress(c) ==
  \/ BackoffElapsed(c) \/ Lookup(c) \/ LookupChanged(c) \/ LookupAfterWrite(c)
  \/ Write(c) \/ Commit(c) \/ ReadAnswer(c)
  \/ BackendCommit(c) \/ BackendRefuse(c)

Failure(c) ==
  \/ \E code \in CallErrors : LookupFails(c, code) \/ RequestFails(c, code)
  \/ UserError(c) \/ LoseAnswer(c)

Next == \E c \in Clients : Progress(c) \/ Failure(c)

Spec == Init /\ [][Next]_vars

\* Timers fire, the user's function returns, and calls are answered.
FairSpec == Spec /\ \A c \in Clients : WF_vars(Progress(c))
-----------------------------------------------------------------------------
(* Properties *)

TypeOK ==
  /\ db \in [Docs -> [version : Nat, value : Nat]]
  /\ clock \in Nat
  /\ runner \in [Clients -> [phase : {"backoff", "running", "committing", "done"},
                             attempts : 0..(MaxAttempts - 1),
                             answer : {"none", "pending", "ok"} \cup Codes,
                             result : {"none", "ok"} \cup Codes]]
  /\ \A c \in Clients : /\ DOMAIN tx[c].versions \subseteq Docs
                        /\ DOMAIN tx[c].values = DOMAIN tx[c].versions
                        /\ tx[c].written \subseteq Docs

\* When the backend commits an attempt, every document the attempt has read is
\* still what it read, however many times it was read, rewritten, deleted and
\* created again in between, and whatever the user's function did with the error
\* of a second read. A document that the attempt also writes may have come back:
\* deleted and missing are the same, as nothing depends on the difference.
ReadsAreCurrent ==
  [][\A c \in Clients :
       clock' # clock /\ runner[c].answer = "pending" /\ runner'[c].answer = "ok" =>
         \A d \in DOMAIN tx[c].values : tx[c].values[d] = db[d].value]_vars

\* A transaction is one atomic step on the store: serializable with all others,
\* applied before success is reported, never applied when an error is reported,
\* except if the answer to an earlier commit of it was lost. Retries, preconditions
\* and verifications (Commit, DispatchResult, HandleTransactionError) make it so.
Atomic == INSTANCE AtomicStore WITH
  store   <- [d \in Docs |-> db[d].value],
  program <- programs,
  state   <- [c \in Clients |->
                CASE runner[c].result = "ok"   -> "succeeded"
                  [] runner[c].result \in Codes -> "failed"
                  [] runner[c].answer = "ok"   -> "applied"
                  [] OTHER -> "open"]

ImplementsAtomicStore == Atomic!Spec

\* Every transaction ends and its caller is told: attempts are bounded and each
\* failed one either runs again or reports (HandleTransactionError).
TransactionsEnd == \A c \in Clients : <>(runner[c].result # "none")
=============================================================================
