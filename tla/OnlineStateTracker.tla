------------------------- MODULE OnlineStateTracker -------------------------
(***************************************************************************)
(* remote/online_state_tracker.cc, as operators on the tracker's record:   *)
(* state is state_, failures is watch_stream_failures_, timer says that    *)
(* online_state_timer_ is scheduled, and ok that no HARD_ASSERT of the     *)
(* tracker has failed.                                                     *)
(***************************************************************************)
EXTENDS Naturals

CONSTANT MaxWatchStreamFailures    \* kMaxWatchStreamFailures

ASSUME MaxFailuresAssumption == MaxWatchStreamFailures \in Nat \ {0}

OnlineStates == {"Unknown", "Online", "Offline"}

TrackerRecord ==
  [state : OnlineStates, failures : Nat, timer : BOOLEAN, ok : BOOLEAN]

NewTracker == [state |-> "Unknown", failures |-> 0, timer |-> FALSE, ok |-> TRUE]

\* Every start of the watch stream; only the first of a series of failing
\* attempts starts the timer.
HandleWatchStreamStart(o) ==
  IF o.failures # 0
  THEN o
  ELSE [o EXCEPT !.state = "Unknown", !.ok = @ /\ ~o.timer, !.timer = TRUE]

HandleWatchStreamFailure(o) ==
  IF o.state = "Online"
  THEN [o EXCEPT !.state = "Unknown",
                 !.ok    = @ /\ o.failures = 0 /\ ~o.timer]
  ELSE IF o.failures + 1 >= MaxWatchStreamFailures
  THEN [o EXCEPT !.failures = @ + 1, !.timer = FALSE, !.state = "Offline"]
  ELSE [o EXCEPT !.failures = @ + 1]

\* Mutant: the timer survives.
UpdateStateKeepsTimer(o, newState) ==
  [o EXCEPT !.failures = 0, !.state = newState]

UpdateState(o, newState) ==
  [o EXCEPT !.timer = FALSE, !.failures = 0, !.state = newState]

\* The lambda of online_state_timer_.
OnlineTimeout(o) ==
  [o EXCEPT !.timer = FALSE,
            !.ok    = @ /\ o.state = "Unknown",
            !.state = "Offline"]
=============================================================================
