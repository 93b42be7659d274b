--------------------------- MODULE MCTransactions ---------------------------
(* Transactions for TLC: three clients, two documents.                      *)
EXTENDS Transactions

CONSTANTS c1, c2, c3, x, y

R(d) == [op |-> "read", doc |-> d]
S(d) == [op |-> "set", doc |-> d]
U(d) == [op |-> "update", doc |-> d]
D(d) == [op |-> "delete", doc |-> d]

Setting(p1, p2, p3, n) ==
  [programs |-> [c \in Clients |-> IF c = c1 THEN p1 ELSE IF c = c2 THEN p2 ELSE p3],
   failures |-> n]

SmallSettings ==
  { \* Write skew: each reads both documents and writes one of them.
    Setting(<<R(x), R(y), S(x)>>, <<R(x), R(y), S(y)>>, <<S(x)>>, 2),
    \* A document that is created and deleted under a transaction that reads it
    \* twice.
    Setting(<<R(x), R(x), S(x), S(y)>>, <<S(x)>>, <<D(x)>>, 1),
    \* Updates, of what was read, of what was not, and after another write.
    Setting(<<R(x), U(x), S(y)>>, <<S(x), U(x), U(y)>>, <<R(y), D(y), U(y)>>, 2),
    \* A read after a write, a program that writes nothing, two writes of a
    \* document that was read.
    Setting(<<R(x), S(x), R(y)>>, <<R(x), R(y)>>, <<R(y), S(y), D(y), S(x)>>, 1) }
=============================================================================
