-------------------------------- MODULE Pool --------------------------------
(***************************************************************************)
(* kernel/pool.c: object pools.  A pool takes its chunk descriptors from   *)
(* one global array, one free descriptor at a time in index order, and     *)
(* finds the descriptor of an item it frees as chunk_base + index.  The    *)
(* free list is the circular list of kernel/list.c, a sequence here;       *)
(* list_add appends to it and list_add_tail puts an item in front.         *)
(*                                                                         *)
(* Pools and chunks are their indices in _pools and _chunks.  An item is   *)
(* the pair of its pool and its index there, NULL is the null pointer.     *)
(***************************************************************************)
EXTENDS Integers, FiniteSets, Sequences

CONSTANTS MAX_NR_POOLS,       \* length of _pools (32)
          MAX_NR_POOL_ITEMS,  \* length of _chunks (256)
          Capacities,         \* capacities the kernel creates pools with
          Names,              \* names it gives them and looks up
          AnyOrder,           \* FALSE: pools are destroyed last created first
          NULL

PoolIds == 0 .. MAX_NR_POOLS - 1
ChunkIds == 0 .. MAX_NR_POOL_ITEMS - 1

ASSUME PoolAssumption ==
    /\ MAX_NR_POOLS \in Nat \ {0}
    /\ MAX_NR_POOL_ITEMS \in Nat \ {0}
    /\ Capacities \subseteq Nat \ {0}
    /\ AnyOrder \in BOOLEAN
    /\ NULL \notin Int

VARIABLES pool,   \* struct pool: name, capacity, chunk_base, alloc
          free,   \* the free list of each pool
          chunk,  \* struct chunk: index, and data as in use or not
          pool_mask, chunk_mask,   \* the slots whose bit is set: free
          ret,    \* what the last call returned: <<pool>>, <<pool, item>> or NULL
          held,   \* history: the items callers were given and did not free
          halt    \* "no", or why the kernel stopped

pvars == <<pool, free, chunk, pool_mask, chunk_mask, ret, held, halt>>

NoPool == [name |-> NULL, capacity |-> 0, chunk_base |-> NULL, alloc |-> NULL]

NoChunk == [index |-> 0, data |-> FALSE]

Init ==
    /\ pool = [p \in PoolIds |-> NoPool]
    /\ free = [p \in PoolIds |-> <<>>]
    /\ chunk = [c \in ChunkIds |-> NoChunk]
    /\ pool_mask = PoolIds
    /\ chunk_mask = ChunkIds
    /\ ret = NULL
    /\ held = {}
    /\ halt = "no"

-----------------------------------------------------------------------------
Live(p) == p \notin pool_mask

(* bit_scan_forward: the lowest set bit. *)
bit_scan_forward(mask) == CHOOSE i \in mask : \A j \in mask : i <= j

(* Mutant: the bit just found is not cleared before the next scan. *)
Nth_same(mask, i) == bit_scan_forward(mask)

(* The i-th chunk (from 0) that repeated scans of the mask yield. *)
Nth(mask, i) == CHOOSE c \in mask : Cardinality({d \in mask : d < c}) = i

ensure_capacity(n) == Cardinality(chunk_mask) >= n

Panic(why) ==
    /\ halt' = why
    /\ ret' = NULL
    /\ UNCHANGED <<pool, free, chunk, pool_mask, chunk_mask, held>>

(* A free chunk that some pool's free list still links to: taking it would *)
(* tear that list.                                                         *)
StillLinked(c) == \E p \in PoolIds \ pool_mask : \E i \in DOMAIN free[p] : free[p][i] = c

pool_create(name, n) ==
    /\ halt = "no"
    /\ IF ~ensure_capacity(n) \/ pool_mask = {} THEN Panic("full")
       ELSE LET p == bit_scan_forward(pool_mask)
                taken == [i \in 1 .. n |-> Nth(chunk_mask, i - 1)]
                Taken == {taken[i] : i \in 1 .. n}
                index(c) == Cardinality({d \in chunk_mask : d < c})
            IN  /\ pool' = [pool EXCEPT ![p] = [name |-> name, capacity |-> n,
                                               chunk_base |-> taken[1], alloc |-> taken[1]]]
                /\ free' = [free EXCEPT ![p] = taken]
                /\ chunk' = [c \in ChunkIds |->
                                IF c \in Taken THEN [index |-> index(c), data |-> FALSE]
                                ELSE chunk[c]]
                /\ pool_mask' = pool_mask \ {p}
                /\ chunk_mask' = chunk_mask \ Taken
                /\ halt' = IF \E c \in Taken : StillLinked(c) THEN "torn" ELSE "no"
                /\ ret' = <<p>>
                /\ UNCHANGED held

(* Marks chunk_base and the capacity - 1 chunks after it as free and clears the *)
(* descriptor at chunk_base.                                                    *)
pool_destroy(p) ==
    /\ halt = "no" /\ Live(p)
    /\ AnyOrder \/ \A q \in PoolIds : Live(q) => pool[q].chunk_base <= pool[p].chunk_base
    /\ LET base == pool[p].chunk_base
       IN  /\ chunk_mask' = chunk_mask \cup ((base .. base + pool[p].capacity - 1) \cap ChunkIds)
           /\ chunk' = [chunk EXCEPT ![base] = NoChunk]
    /\ pool_mask' = pool_mask \cup {p}
    /\ pool' = [pool EXCEPT ![p] = NoPool]
    /\ free' = [free EXCEPT ![p] = <<>>]
    /\ ret' = NULL
    /\ held' = {h \in held : h[1] # p}
    /\ UNCHANGED halt

(* The last pool looked at, whether or not its name is the one asked for. *)
find_pool(name) ==
    /\ halt = "no"
    /\ LET named == {p \in PoolIds : Live(p) /\ pool[p].name = name}
           live  == {p \in PoolIds : Live(p)}
       IN  ret' = IF named # {} THEN <<bit_scan_forward(named)>>
                  ELSE IF live # {} THEN <<CHOOSE p \in live : \A q \in live : q <= p>>
                  ELSE NULL
    /\ UNCHANGED <<pool, free, chunk, pool_mask, chunk_mask, held, halt>>

-----------------------------------------------------------------------------
(* Where chunk c is on the free list of p. *)
Place(p, c) == CHOOSE j \in DOMAIN free[p] : free[p][j] = c

(* The chunk after c on that list: the list head, no chunk, at its end. *)
NextOnList(p, c) == IF Place(p, c) < Len(free[p]) THEN free[p][Place(p, c) + 1] ELSE NULL

(* list_remove: the list without c. *)
Unlinked(p, c) ==
    SubSeq(free[p], 1, Place(p, c) - 1) \o SubSeq(free[p], Place(p, c) + 1, Len(free[p]))

(* assert(chunk->data == NULL), then the chunk at the alloc pointer leaves the list. *)
pool_alloc(p) ==
    /\ halt = "no" /\ Live(p) /\ free[p] # <<>>
    /\ LET c == pool[p].alloc
       IN  IF chunk[c].data THEN Panic("assert")
           ELSE /\ pool' = [pool EXCEPT ![p].alloc = NextOnList(p, c)]
                /\ free' = [free EXCEPT ![p] = Unlinked(p, c)]
                /\ chunk' = [chunk EXCEPT ![c].data = TRUE]
                /\ ret' = <<p, chunk[c].index>>
                /\ held' = held \cup {<<p, chunk[c].index>>}
                /\ UNCHANGED <<pool_mask, chunk_mask, halt>>

(* Mutant: the last item is never handed out. *)
pool_alloc_null_early(p) ==
    /\ halt = "no"
    /\ ~Live(p) \/ Len(free[p]) <= 1
    /\ ret' = <<p, NULL>>
    /\ UNCHANGED <<pool, free, chunk, pool_mask, chunk_mask, held, halt>>

(* No such pool, or nothing left. *)
pool_alloc_null(p) ==
    /\ halt = "no"
    /\ ~Live(p) \/ free[p] = <<>>
    /\ ret' = <<p, NULL>>
    /\ UNCHANGED <<pool, free, chunk, pool_mask, chunk_mask, held, halt>>

(* -EINVAL for no pool or no item, -EPERM for an item outside of the pool. *)
pool_free_refused(p, item) ==
    /\ halt = "no"
    /\ Live(p) /\ item # NULL => item[1] # p
    /\ ret' = NULL
    /\ UNCHANGED <<pool, free, chunk, pool_mask, chunk_mask, held, halt>>

(* Mutant: items counted from one. *)
ChunkOf_next(p, i) == pool[p].chunk_base + i + 1

(* The descriptor pool_free takes to be that of item i. *)
ChunkOf(p, i) == pool[p].chunk_base + i

(* assert(chunk->index == index), assert(chunk->data != NULL), then the chunk goes *)
(* to the front of the free list and the alloc pointer to it.                      *)
pool_free(p, i) ==
    /\ halt = "no" /\ Live(p) /\ <<p, i>> \in held
    /\ LET c == ChunkOf(p, i)
       IN  IF c \notin ChunkIds \/ chunk[c].index # i \/ ~chunk[c].data THEN Panic("assert")
           ELSE /\ chunk' = [chunk EXCEPT ![c].data = FALSE]
                /\ free' = [free EXCEPT ![p] = <<c>> \o @]
                /\ pool' = [pool EXCEPT ![p].alloc = c]
                /\ ret' = NULL
                /\ held' = held \ {<<p, i>>}
                /\ UNCHANGED <<pool_mask, chunk_mask, halt>>
-----------------------------------------------------------------------------
Next ==
    \/ \E name \in Names, n \in Capacities : pool_create(name, n)
    \/ \E name \in Names : find_pool(name)
    \/ \E p \in PoolIds :
          \/ pool_destroy(p)
          \/ pool_alloc(p)
          \/ pool_alloc_null(p)
          \/ \E item \in held \cup {NULL} : pool_free_refused(p, item)
          \/ \E i \in 0 .. pool[p].capacity - 1 : pool_free(p, i)

Spec == Init /\ [][Next]_pvars

-----------------------------------------------------------------------------
(* Properties. *)

(* The types of the descriptors, and masks that say which are in use. *)
TypeOK ==
    /\ pool \in [PoolIds -> [name : Names \cup {NULL}, capacity : Capacities \cup {0},
                              chunk_base : ChunkIds \cup {NULL}, alloc : ChunkIds \cup {NULL}]]
    /\ free \in [PoolIds -> Seq(ChunkIds)]
    /\ chunk \in [ChunkIds -> [index : Nat, data : BOOLEAN]]
    /\ pool_mask \subseteq PoolIds /\ chunk_mask \subseteq ChunkIds
    /\ held \subseteq PoolIds \X Nat
    /\ halt \in {"no", "full", "assert", "torn"}

(* Whatever the order of pool_alloc and pool_free, the alloc pointer is the front *)
(* of the free list: pool_alloc never hands out a chunk that is not free.         *)
AllocIsFront ==
    \A p \in PoolIds : free[p] # <<>> => pool[p].alloc = Head(free[p])

(* The chunks a pool owns. *)
Chunks(p) == pool[p].chunk_base .. pool[p].chunk_base + pool[p].capacity - 1

(* No crosstalk between pools (test_pool.c): a pool owns a contiguous run of   *)
(* chunks that no other pool and no free bit claims, and a chunk is on its     *)
(* pool's free list exactly when it is not in use.                             *)
NoCrosstalk ==
    \A p \in PoolIds : Live(p) =>
        /\ Chunks(p) \subseteq ChunkIds \ chunk_mask
        /\ \A q \in PoolIds : Live(q) /\ q # p => Chunks(p) \cap Chunks(q) = {}
        /\ \A c \in Chunks(p) :
              /\ chunk[c].index = c - pool[p].chunk_base
              /\ chunk[c].data <=> <<p, chunk[c].index>> \in held
              /\ ~chunk[c].data <=> \E i \in DOMAIN free[p] : free[p][i] = c

(* The assertions of pool_alloc and pool_free hold: the chunk at the alloc     *)
(* pointer is free, and chunk_base + index is the descriptor of a freed item.  *)
AssertsHold == halt # "assert"

(* find_pool returns the pool of that name, or none. *)
FindByName ==
    [][\A name \in Names :
          find_pool(name) /\ ret' # NULL => pool[ret'[1]].name = name]_pvars

(* The pools implement the allocator that pool.h describes. *)
A == INSTANCE Allocator
        WITH Pool  <- PoolIds,
             size  <- [p \in PoolIds |-> pool[p].capacity],
             used  <- [p \in PoolIds |->
                         {i \in 0 .. pool[p].capacity - 1 : chunk[pool[p].chunk_base + i].data}],
             given <- IF ret = NULL \/ Len(ret) = 1 THEN NULL ELSE ret

ImplementsAllocator == A!AllocatorSpec
=============================================================================
