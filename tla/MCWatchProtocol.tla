-------------------------- MODULE MCWatchProtocol ---------------------------
(* WatchProtocol for TLC: qt is a query that all documents match, dt the query *)
(* for the document k1.                                                        *)
EXTENDS WatchProtocol

CONSTANTS qt, dt, k1, k2

Documents == [t \in DocTargets |-> k1]
Matches   == [t \in Targets |-> IF t = dt THEN {k1} ELSE Keys]

\* One listen and one write on an otherwise reliable connection; a setting says
\* what it allows beyond that.
Quiet ==
  [targets |-> {qt}, docs |-> Keys, falsePositives |-> FALSE, filtersFirst |-> FALSE,
   listens |-> 1, writes |-> 1, changes |-> 0, breaks |-> 0, rejections |-> 0,
   resets |-> 0, filters |-> 0, stale |-> 0]

Resume   == [Quiet EXCEPT !.changes = 1, !.breaks = 1, !.resets = 1, !.filters = 1, !.stale = 1]
Relisten == [Quiet EXCEPT !.listens = 2]
Document == [Quiet EXCEPT !.targets = {qt, dt}, !.docs = {k1}, !.breaks = 1, !.filters = 1]
Reject   == [Quiet EXCEPT !.breaks = 1, !.rejections = 1]
Crossed  == [Reject EXCEPT !.changes = 1, !.filters = 1]
Bloom    == [Quiet EXCEPT !.changes = 1, !.breaks = 1, !.filters = 1,
                          !.falsePositives = TRUE, !.filtersFirst = TRUE]
Filter   == [Quiet EXCEPT !.breaks = 1, !.filters = 1]

SoundSettings == {Resume, Relisten, Document, Reject, Crossed, Bloom}
HealSettings  == {Filter}

\* A filter with false positives after a deletion that was sent one by one.
CountSettings == {[Filter EXCEPT !.writes = 2, !.falsePositives = TRUE]}

\* A document comes and goes around an existence filter mismatch.
HardResetSettings == {[Filter EXCEPT !.writes = 2, !.changes = 1]}

RelistenSettings == {Relisten}

\* The first of two listens is rejected.
OldErrorSettings == {[Quiet EXCEPT !.listens = 2, !.writes = 0, !.rejections = 1]}
=============================================================================
