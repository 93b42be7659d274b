--------------------------- MODULE WritePipeline ----------------------------
(***************************************************************************)
(* The write half of remote/remote_store.cc and remote/write_stream.cc, as *)
(* operators on a record:                                                  *)
(*                                                                         *)
(*   stream     write_stream_                                              *)
(*   handshake  handshake_complete_                                        *)
(*   token      last_stream_token_                                         *)
(*   pipeline   the batch ids of write_pipeline_                           *)
(*   requests   what was written to the current gRPC call and the backend  *)
(*              has not yet processed                                      *)
(*   responses  what the backend answered on that call and the client has  *)
(*              not yet read                                               *)
(*   ok         no HARD_ASSERT of the write half has failed                *)
(*                                                                         *)
(* net is is_network_enabled_ and queue the batch ids of the current       *)
(* user's mutation queue, in ascending order.                              *)
(***************************************************************************)
EXTENDS Stream, Sequences, SequencesExt

CONSTANTS
  MaxPendingWrites,    \* kMaxPendingWrites
  Tokens,              \* the stream tokens the backend may issue
  NoToken              \* the empty token

ASSUME MaxPendingWritesAssumption == MaxPendingWrites \in Nat \ {0}
ASSUME NoTokenAssumption == NoToken \notin Tokens

BatchIds  == Nat \ {0}
Handshake == 0                      \* the handshake on the wire

\* A response carries the batch it answers (or the handshake) and a new token;
\* a rejection ends the call with a permanent error instead.
Responses == [for : BatchIds \cup {Handshake}, token : Tokens, rejected : BOOLEAN]

WriteRecord ==
  [stream : StreamRecord, handshake : BOOLEAN, token : Tokens \cup {NoToken},
   pipeline : Seq(BatchIds), requests : Seq(BatchIds \cup {Handshake}),
   responses : Seq(Responses), ok : BOOLEAN]

NewWrite ==
  [stream |-> NewStream, handshake |-> FALSE, token |-> NoToken,
   pipeline |-> <<>>, requests |-> <<>>, responses |-> <<>>, ok |-> TRUE]

-----------------------------------------------------------------------------
(* Filling the pipeline *)

ShouldStartWriteStream(p, net) ==
  net /\ ~IsStarted(p.stream) /\ p.pipeline # <<>>

StartWriteStream(p, net) ==
  [p EXCEPT !.ok = @ /\ ShouldStartWriteStream(p, net), !.stream = StartStream(@)]

\* Mutant: the write stream is never started again.
NeverRestart(p, net) == p

MaybeStartWriteStream(p, net) ==
  IF ShouldStartWriteStream(p, net) THEN StartWriteStream(p, net) ELSE p

\* How many batches of the queue have an id of at most last: the batches that
\* NextMutationBatchAfterBatchId skips.
Position(queue, last) ==
  CHOOSE i \in 0..Len(queue) : /\ \A j \in 1..i : queue[j] <= last
                               /\ \A j \in (i + 1)..Len(queue) : queue[j] > last

\* The batches the loop of FillWritePipeline takes.
NextBatches(p, net, queue) ==
  LET last  == IF p.pipeline = <<>> THEN 0 ELSE Last(p.pipeline)
      first == Position(queue, last) + 1
      room  == IF net THEN MaxPendingWrites - Len(p.pipeline) ELSE 0
  IN  SubSeq(queue, first, Min({Len(queue), first + room - 1}))

\* WriteMutations for each of a sequence of batches.
Send(p, msgs) ==
  IF msgs = <<>> THEN p
  ELSE [p EXCEPT !.requests = @ \o msgs, !.stream = Write(@)]

AddToWritePipeline(p, batches) ==
  LET q == [p EXCEPT !.pipeline = @ \o batches]
  IN  IF IsOpen(p.stream) /\ p.handshake THEN Send(q, batches) ELSE q

\* Mutant: a full pipeline does not start its stream.
FillWithoutStart(p, net, queue) ==
  AddToWritePipeline(p, NextBatches(p, net, queue))

\* The stream is marked idle when the network may be used and neither the
\* pipeline nor the queue holds a batch.
FillWritePipeline(p, net, queue) ==
  LET f == AddToWritePipeline(p, NextBatches(p, net, queue))
      g == IF net /\ f.pipeline = <<>>
           THEN [f EXCEPT !.stream = MarkIdle(@)] ELSE f
  IN  MaybeStartWriteStream(g, net)

-----------------------------------------------------------------------------
(* Callbacks of the stream *)

OnWriteStreamOpen(p) == [Send(p, <<Handshake>>) EXCEPT !.ok = @ /\ ~p.handshake]

WriteCredentials(p, n) ==
  LET s == [p.stream EXCEPT !.auth = @ \ {n}]
  IN  OnWriteStreamOpen([p EXCEPT !.stream = ResumeStartWithCredentials(s)])

\* Every response carries a token that the stream captures.
ReadResponse(p) ==
  [p EXCEPT !.ok = @ /\ IsStarted(p.stream),
            !.responses = Tail(@), !.token = Head(p.responses).token]

\* The first response completes the handshake and releases the pipeline.
OnWriteStreamHandshakeComplete(p) ==
  LET h == [ReadResponse(p) EXCEPT !.handshake = TRUE] IN Send(h, h.pipeline)

\* Any later response is the result of the first write of the pipeline. The
\* caller acknowledges that batch and then refills the pipeline.
PopResult(p) ==
  LET r == ReadResponse(p)
  IN  [r EXCEPT !.ok       = @ /\ p.pipeline # <<>>,
                !.stream   = ResetBackoff(@),
                !.pipeline = Tail(@)]

\* What NotifyStreamResponse has done when it finds that it cannot decode the
\* next response: nothing, or, when only the commit version or the results in it
\* are bad, it has captured the token and called the stream healthy.
Undecoded(p) ==
  {p} \cup IF p.handshake
           THEN {[p EXCEPT !.token = Head(p.responses).token, !.stream = ResetBackoff(@)]}
           ELSE {}

\* Stream::Close, as OnWriteStreamClose finds it. The gRPC call is gone, and
\* with it what was in flight.
CloseWriteStream(p, status) ==
  [p EXCEPT !.stream = CloseStream(@, status), !.requests = <<>>, !.responses = <<>>]

\* A permanent error before the handshake resets the stream token.
IsPermanentError(status) == status \in {"permanent", "aborted", "dataloss"}

HandleHandshakeError(p, status) ==
  IF IsPermanentError(status) THEN [p EXCEPT !.token = NoToken] ELSE p

\* Mutant: ABORTED counts as the rejection of a write.
AbortedIsPermanent(status) == IsPermanentError(status)

\* A permanent error after the handshake rejects the head of the pipeline;
\* ABORTED counts as transient here. The queue the caller passes has lost it.
IsPermanentWriteError(status) == status \in {"permanent", "dataloss"}

DropHead(p) ==
  [p EXCEPT !.pipeline = Tail(@), !.stream = InhibitBackoff(@)]

\* Whether closing with status rejects the head of the pipeline, or resets the
\* token.
RejectsHead(p, status) ==
  status # "ok" /\ p.pipeline # <<>> /\ p.handshake /\ IsPermanentWriteError(status)
FailsHandshake(p, status) ==
  status # "ok" /\ p.pipeline # <<>> /\ ~p.handshake

ResetsToken(p, status) == FailsHandshake(p, status) /\ IsPermanentError(status)

\* Mutant: handshake_complete_ is not reset.
CloseKeepsHandshake(p, net, queue, status) ==
  MaybeStartWriteStream(CloseWriteStream(p, status), net)

\* NotifyStreamClose: OnWriteStreamClose, and only then is handshake_complete_
\* reset. queue is the mutation queue after the rejection, if there is one.
CloseWrite(p, net, queue, status) ==
  LET c == [CloseWriteStream(p, status) EXCEPT
              !.ok = @ /\ (status = "ok" =>
                             ~ShouldStartWriteStream(CloseWriteStream(p, status), net))]
      e == IF RejectsHead(p, status)
           THEN FillWritePipeline(DropHead(c), net, queue)
           ELSE IF FailsHandshake(p, status) THEN HandleHandshakeError(c, status)
           ELSE c
  IN  [MaybeStartWriteStream(e, net) EXCEPT !.handshake = FALSE]

-----------------------------------------------------------------------------
(* The write part of the network operations *)

StopWrite(p, net) ==
  IF IsStarted(p.stream) THEN CloseWrite(p, net, <<>>, "ok") ELSE p

EnableWrite(p, queue, savedToken) ==
  FillWritePipeline([p EXCEPT !.token = savedToken], TRUE, queue)

DisableWrite(p) == [StopWrite(p, FALSE) EXCEPT !.pipeline = <<>>]

RestartWrite(p, queue, savedToken) ==
  LET d == DisableWrite(p)
  IN  EnableWrite([d EXCEPT !.stream = InhibitBackoff(@)], queue, savedToken)
=============================================================================
