---------------------------- MODULE AtomicStore -----------------------------
(***************************************************************************)
(* What a transaction promises: its reads, its computation and its writes  *)
(* happen at one instant of the backend's store. A program is a sequence   *)
(* of reads and writes; each document it writes gets one more than the sum *)
(* of what it read, so that any stale read shows in the store.             *)
(*                                                                         *)
(* An application whose answer is lost leaves the client where it was: the *)
(* program may be applied again, or be reported as failed.                 *)
(***************************************************************************)
EXTENDS Naturals, Sequences, FiniteSetsExt, Functions

CONSTANTS Clients,   \* the clients, each with one transaction
          Docs       \* the documents

VARIABLES store,     \* the content of every document; 0 when it does not exist
          program,   \* the program of each client; it never changes
          state      \* open, applied (the answer is on its way), succeeded, failed

vars == <<store, program, state>>

Reads(p)     == {p[i].doc : i \in {j \in DOMAIN p : p[j].op = "read"}}
Writes(p, d) == {i \in DOMAIN p : p[i].op # "read" /\ p[i].doc = d}

\* What the program writes when it reads s.
Content(p, s) == 1 + SumFunction(Restrict(s, Reads(p)))

\* An update needs a document: one that exists, or one that the program has set.
Fits(p, s) ==
  \A i \in DOMAIN p : p[i].op = "update" =>
    LET prior == {j \in Writes(p, p[i].doc) : j < i}
    IN  IF prior = {} THEN s[p[i].doc] # 0 ELSE p[Max(prior)].op # "delete"

Result(p, s) ==
  [d \in Docs |-> IF Writes(p, d) = {} THEN s[d]
                  ELSE IF p[Max(Writes(p, d))].op = "delete" THEN 0
                  ELSE Content(p, s)]

Init ==
  /\ store = [d \in Docs |-> 0]
  /\ state = [c \in Clients |-> "open"]

Become(c, s) == state' = [state EXCEPT ![c] = s] /\ UNCHANGED program

Apply(c) ==
  /\ state[c] = "open"
  /\ Fits(program[c], store)
  /\ store' = Result(program[c], store)
  /\ Become(c, "applied")

LoseAnswer(c) == state[c] = "applied" /\ Become(c, "open") /\ UNCHANGED store
Succeed(c)    == state[c] = "applied" /\ Become(c, "succeeded") /\ UNCHANGED store
Fail(c)       == state[c] = "open" /\ Become(c, "failed") /\ UNCHANGED store

Next == \E c \in Clients : Apply(c) \/ LoseAnswer(c) \/ Succeed(c) \/ Fail(c)

Spec == Init /\ [][Next]_vars
=============================================================================
