----------------------------- MODULE Allocator -----------------------------
(***************************************************************************)
(* What include/kernel/pool.h promises: pools of numbered items.  An item  *)
(* handed out is in use by nobody else, stays in use until it is freed,    *)
(* and an allocation fails only when every item of the pool is in use.     *)
(***************************************************************************)
EXTENDS Naturals

CONSTANTS Pool,         \* pool descriptors
          Capacities,   \* capacities pools are created with
          NULL          \* no pool, no item

VARIABLES size,  \* size[p]: the number of items, 0 when p does not exist
          used,  \* used[p]: the items in use
          given  \* what the last allocation returned, NULL after another call

avars == <<size, used, given>>

AInit ==
    /\ size = [p \in Pool |-> 0]
    /\ used = [p \in Pool |-> {}]
    /\ given = NULL

Create(p, n) ==
    /\ size[p] = 0
    /\ size' = [size EXCEPT ![p] = n]
    /\ given' = NULL
    /\ UNCHANGED used

Destroy(p) ==
    /\ size' = [size EXCEPT ![p] = 0]
    /\ used' = [used EXCEPT ![p] = {}]
    /\ given' = NULL

Alloc(p, i) ==
    /\ i \in 0 .. size[p] - 1 /\ i \notin used[p]
    /\ used' = [used EXCEPT ![p] = @ \cup {i}]
    /\ given' = <<p, i>>
    /\ UNCHANGED size

AllocFails(p) ==
    /\ used[p] = 0 .. size[p] - 1
    /\ given' = <<p, NULL>>
    /\ UNCHANGED <<size, used>>

Free(p, i) ==
    /\ i \in used[p]
    /\ used' = [used EXCEPT ![p] = @ \ {i}]
    /\ given' = NULL
    /\ UNCHANGED size

(* A call that is refused, or that only looks. *)
Refuse ==
    /\ given' = NULL
    /\ UNCHANGED <<size, used>>

ANext ==
    \/ \E p \in Pool :
          \/ \E n \in Capacities : Create(p, n)
          \/ Destroy(p)
          \/ \E i \in 0 .. size[p] - 1 : Alloc(p, i) \/ Free(p, i)
          \/ AllocFails(p)
    \/ Refuse

AllocatorSpec == AInit /\ [][ANext]_avars
=============================================================================
