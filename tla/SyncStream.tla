------------------------------ MODULE SyncStream ------------------------------
(***************************************************************************)
(* What the clients of the data sync protocol send (clade/proto/sync.proto): *)
(* for every origin a sequence of messages, each with rows for one table    *)
(* (DataSyncCommand), cut into transactions by sequence numbers.            *)
(***************************************************************************)
EXTENDS Integers, Sequences

CONSTANTS
    Origins,       \* sources of changes; each has one client
    Urls,          \* table locations
    Script         \* Script[o]: the messages the client of o has to replicate

\* An absent sequence number (Rust's None); sequence numbers are naturals.
NoSeq == -1

\* One do_put call: `size` is the in-memory size of its squashed rows, 0 when
\* it has no rows.
Message == [url : Urls, size : Nat, seq : Nat \cup {NoSeq}]

\* The clients follow sync.proto: sequence numbers increase, only the last
\* message of a transaction has one, and no message is empty.
ASSUME ScriptAssumption ==
    /\ Script \in [Origins -> Seq(Message)]
    /\ \A o \in Origins : \A i, j \in 1..Len(Script[o]) :
          /\ Script[o][i].size > 0 \/ Script[o][i].seq # NoSeq
          /\ i < j /\ Script[o][i].seq # NoSeq /\ Script[o][j].seq # NoSeq
                => Script[o][i].seq < Script[o][j].seq

\* The sequence numbers of an origin, and the absent one.
SeqNums(o) == {NoSeq} \cup {Script[o][i].seq : i \in 1..Len(Script[o])}

\* Message i of origin o has rows for table u.
Carries(o, i, u) == Script[o][i].size > 0 /\ Script[o][i].url = u

\* The messages of o that belong to transactions numbered at most s.
UpTo(o, s) ==
    {i \in 1..Len(Script[o]) :
        \E k \in i..Len(Script[o]) : /\ Script[o][k].seq # NoSeq
                                     /\ Script[o][k].seq <= s}

\* No table receives rows of two origins.
OneOriginPerTable ==
    \A o1, o2 \in Origins : \A i1 \in 1..Len(Script[o1]), i2 \in 1..Len(Script[o2]) :
        \A u \in Urls : Carries(o1, i1, u) /\ Carries(o2, i2, u) => o1 = o2

=============================================================================
