----------------------------- MODULE MCSyncWriter -----------------------------
(***************************************************************************)
(* Instances of SyncWriter for TLC: the clients' scripts.                  *)
(***************************************************************************)
EXTENDS SyncWriter

CONSTANTS A, B, x, y

M(u, s, q) == [url |-> u, size |-> s, seq |-> q]

\* One origin: a transaction over two tables that ends with an empty message,
\* then one whose messages all go to one table.
ScriptOne == [o \in {A} |-> <<M(x, 1, NoSeq), M(y, 1, NoSeq), M(x, 0, 1),
                              M(x, 1, 2), M(x, 1, 3)>>]

\* Two origins with tables of their own; one closes its transaction with an
\* empty message.
ScriptOwn == [o \in {A, B} |->
                IF o = A THEN <<M(x, 1, 1), M(x, 1, NoSeq), M(x, 1, 2)>>
                         ELSE <<M(y, 1, NoSeq), M(y, 0, 1)>>]

\* Two origins that share table x.
ScriptShared == [o \in {A, B} |->
                   IF o = A THEN <<M(x, 1, NoSeq), M(y, 1, 1), M(x, 1, 2)>>
                            ELSE <<M(x, 1, 1)>>]

\* Two origins with single-message transactions on the same table.
ScriptMixed == [o \in {A, B} |->
                  IF o = A THEN <<M(x, 1, 1), M(x, 1, 2)>> ELSE <<M(x, 1, 1)>>]
=============================================================================
