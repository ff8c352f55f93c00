----------------------------- MODULE MemoryPool -----------------------------
(***************************************************************************)
(* MemoryPoolMetrics (memory_pool.rs): a wrapper that records the           *)
(* allocations of DataFusion's memory pool.  The pool inside is external:   *)
(* its counter is atomic, grow always succeeds, try_grow fails beyond the   *)
(* limit, shrink gives back.  The wrapper's own steps (change the pool,     *)
(* read what is reserved, set the gauge, count) are not atomic together,    *)
(* and operators of concurrent queries take them in any order.              *)
(***************************************************************************)
EXTENDS Naturals, FiniteSets, Functions

CONSTANTS Consumer,   \* reservations of concurrent operators
          Limit,      \* size of a GreedyMemoryPool
          Unbounded,  \* the pool is an UnboundedMemoryPool
          Sizes,      \* sizes of requests
          MaxCounted  \* bound on the allocations counted

(* What the constants may be. *)
PoolParametersOK == IsFiniteSet(Consumer) /\ Sizes \subseteq Nat /\ Limit \in Nat

VARIABLES reserved,    \* of the pool inside
          gauge,       \* seafowl_datafusion_memory_pool_reserved_bytes_current
          allocated,   \* counter of successful allocations
          refused,     \* counter of allocations that failed
          freed,       \* counter of deallocations
          held,        \* size of each reservation
          call         \* the call each consumer is in

poolVars == <<reserved, gauge, allocated, refused, freed, held, call>>
counters == <<allocated, refused, freed>>

NoCall == [op |-> "none", at |-> "idle", size |-> 0, ok |-> TRUE, saw |-> 0]

(* A call that has asked the pool inside and has not recorded it yet. *)
Changed(op, n, ok) == [op |-> op, at |-> "changed", size |-> n, ok |-> ok, saw |-> 0]

PoolInit ==
    /\ reserved = 0 /\ gauge = 0 /\ allocated = 0 /\ refused = 0 /\ freed = 0
    /\ held = [c \in Consumer |-> 0]
    /\ call = [c \in Consumer |-> NoCall]

(* The pool inside, external: whether a request fits *)
Fits(n) == Unbounded \/ reserved + n <= Limit

Counted(n) == allocated + refused + n <= MaxCounted

(* inner.grow, inner.try_grow and inner.shrink *)
Grow(c, n) ==
    /\ call[c].at = "idle" /\ Counted(n)
    /\ reserved' = reserved + n
    /\ held' = [held EXCEPT ![c] = @ + n]
    /\ call' = [call EXCEPT ![c] = Changed("alloc", n, TRUE)]
    /\ UNCHANGED <<gauge, counters>>

TryGrow(c, n) ==
    /\ call[c].at = "idle" /\ Counted(n)
    /\ reserved' = IF Fits(n) THEN reserved + n ELSE reserved
    /\ held' = IF Fits(n) THEN [held EXCEPT ![c] = @ + n] ELSE held
    /\ call' = [call EXCEPT ![c] = Changed("alloc", n, Fits(n))]
    /\ UNCHANGED <<gauge, counters>>

Shrink(c, n) ==
    /\ call[c].at = "idle" /\ n <= held[c]
    /\ reserved' = reserved - n
    /\ held' = [held EXCEPT ![c] = @ - n]
    /\ call' = [call EXCEPT ![c] = Changed("free", n, TRUE)]
    /\ UNCHANGED <<gauge, counters>>

(* self.inner.reserved(), then memory_reserved.set(...) *)
ReadReserved(c) ==
    /\ call[c].at = "changed"
    /\ call' = [call EXCEPT ![c].at = "read", ![c].saw = reserved]
    /\ UNCHANGED <<reserved, gauge, counters, held>>

SetGauge(c) ==
    /\ call[c].at = "read"
    /\ gauge' = call[c].saw
    /\ call' = [call EXCEPT ![c].at = "set"]
    /\ UNCHANGED <<reserved, counters, held>>

RegisterAllocation_Success(m) ==
    allocated' = allocated + m.size /\ UNCHANGED <<refused, freed>>

(* register_allocation: labelled with the result *)
RegisterAllocation(m) ==
    /\ allocated' = allocated + (IF m.ok THEN m.size ELSE 0)
    /\ refused' = refused + (IF m.ok THEN 0 ELSE m.size)
    /\ UNCHANGED freed

(* register_deallocation *)
RegisterDeallocation(m) == freed' = freed + m.size /\ UNCHANGED <<allocated, refused>>

Count(c) ==
    /\ call[c].at = "set"
    /\ \/ call[c].op = "alloc" /\ RegisterAllocation(call[c])
       \/ call[c].op = "free" /\ RegisterDeallocation(call[c])
    /\ call' = [call EXCEPT ![c] = NoCall]
    /\ UNCHANGED <<reserved, gauge, held>>

PoolNext ==
    \E c \in Consumer :
        \/ \E n \in Sizes : Grow(c, n) \/ TryGrow(c, n) \/ Shrink(c, n)
        \/ ReadReserved(c) \/ SetGauge(c) \/ Count(c)

PoolSpec == PoolInit /\ [][PoolNext]_poolVars

(***************************************************************************)
(* Properties                                                              *)
(***************************************************************************)
NoCalls == \A c \in Consumer : call[c].at = "idle"

(* Between calls the counters account for the pool: what was successfully   *)
(* allocated and not freed is what reservations hold and the pool has       *)
(* reserved (register_allocation and register_deallocation).                *)
CountersBalance ==
    NoCalls => /\ allocated = freed + reserved
               /\ reserved = SumFunction(held)

=============================================================================
