----------------------------- MODULE SyncContract -----------------------------
(***************************************************************************)
(* What data sync promises a client, without buffers, locks or flushes:     *)
(* every table receives an origin's messages without gaps, and the durable  *)
(* sequence number only moves forward, over changes that are stored, until  *)
(* the server restarts and forgets it.                                      *)
(***************************************************************************)
EXTENDS SyncStream

VARIABLES
    stored,        \* stored[u]: the messages <<origin, index>> table u has
    durable        \* durable[o]: the durable sequence number of origin o

contractVars == <<stored, durable>>

\* No table has a message without the origin's earlier ones for that table.
GapFree(st) ==
    \A u \in Urls : \A m \in st[u] : \A j \in 1..(m[2] - 1) :
        Carries(m[1], j, u) => <<m[1], j>> \in st[u]

\* All changes of o up to sequence number s are stored.
Covered(st, o, s) ==
    \A u \in Urls : \A i \in UpTo(o, s) : Carries(o, i, u) => <<o, i>> \in st[u]

Init == /\ stored = [u \in Urls |-> {}]
        /\ durable = [o \in Origins |-> NoSeq]

Grow == /\ \A u \in Urls : stored[u] \subseteq stored'[u]
        /\ GapFree(stored')

\* A flush stores messages and advances durable sequence numbers over them.
Flush == /\ Grow
         /\ \A o \in Origins : /\ durable[o] <= durable'[o]
                               /\ Covered(stored', o, durable'[o])

\* A restart; a commit that was under way may have been stored.
Restart == /\ Grow
           /\ durable' = [o \in Origins |-> NoSeq]

Next == Flush \/ Restart

Spec == Init /\ [][Next]_contractVars

=============================================================================
