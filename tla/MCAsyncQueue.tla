---------------------------- MODULE MCAsyncQueue ----------------------------
(* AsyncQueue for TLC: one caller, and one or two disposers.                 *)
EXTENDS AsyncQueue

CONSTANTS d1, d2

Calls(n1, n2) == [th \in {d1, d2} |-> IF th = d1 THEN n1 ELSE n2]

\* No disposal, one, and a second one by the destructor; or two at once.
OneDisposer  == {Calls(0, 0), Calls(2, 0)}
TwoDisposers == {Calls(1, 1)}
=============================================================================
