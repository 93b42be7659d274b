--------------------------- MODULE MCRemoteStore ----------------------------
(* RemoteStore for TLC: one worker queue, a few targets, users and events. *)
EXTENDS RemoteStore

CONSTANTS t1, t2, u1, u2

Setting(targets, users, n) == [targets |-> targets, users |-> users, events |-> n]

\* Two targets and one user; two users that write and no target.
SafetySettings == {Setting({t1, t2}, {u1}, 5), Setting({}, {u1, u2}, 6)}

\* One target and two users that write.
LiveSettings == {Setting({t1}, {u1, u2}, 4)}

\* Two writes of one user, and no target.
WriteSettings == {Setting({}, {u1}, 3)}

\* One target of one user, without writes.
StuckSettings == {Setting({t1}, {u1}, 4)}
=============================================================================
