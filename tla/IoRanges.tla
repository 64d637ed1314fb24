------------------------------- MODULE IoRanges -------------------------------
(***************************************************************************)
(* Reservations of I/O ports (io.c), kept in an ordered, circular, doubly  *)
(* linked list (list.c) whose nodes come from a pool.                      *)
(***************************************************************************)
EXTENDS Integers, Sequences, FiniteSets

CONSTANTS Ranges,    \* what drivers ask for: records [base, count]
          PoolSize   \* capacity of io_ranges_pool

ListHead == 0
Items == 1 .. PoolSize
Nodes == {ListHead} \cup Items

VARIABLES prev, next,   \* struct list_node of io_ranges_list and of the items
          item,         \* the range each item holds
          taken,        \* items the pool has handed out
          answer,       \* the last answer of reserve_io_range
          granted       \* the ranges that were reserved and not released

io_vars == <<prev, next, item, taken, answer, granted>>

(* LIST_INITIALIZER, and init_io, which exchanges pool_create's item size and
   capacity: 32 bytes each and sizeof(struct io_range) = 16 of them. *)
init_io ==
    /\ prev = [n \in Nodes |-> n] /\ next = [n \in Nodes |-> n]
    /\ item = [n \in Items |-> [base |-> 0, count |-> 0]]
    /\ taken = 0
    /\ answer = "none"
    /\ granted = {}

-------------------------------------------------------------------------------
(* list.c.  The four stores of insert_into_list in their order: an item that
   is its own neighbour is seen by the later ones. *)
insert_into_list(p, n, i) ==
    /\ prev' = [[prev EXCEPT ![n] = i] EXCEPT ![i] = p]
    /\ next' = [[next EXCEPT ![p] = i] EXCEPT ![i] = n]

remove_from_list(p, n, i) ==
    /\ prev' = [[prev EXCEPT ![n] = p] EXCEPT ![i] = i]
    /\ next' = [[next EXCEPT ![p] = n] EXCEPT ![i] = i]

list_add_tail(h, i) == insert_into_list(h, next[h], i)

(* before h *)
list_add(h, i) == insert_into_list(prev[h], h, i)

list_remove(i) == remove_from_list(prev[i], next[i], i)

(* list_iterator: the k-th node from the head, one way or the other. *)
From(link) == LET w[k \in 0 .. PoolSize + 1] == IF k = 0 THEN ListHead ELSE link[w[k - 1]] IN w

Walk(link) ==
    LET w == From(link)
        ends == {k \in 1 .. PoolSize + 1 : w[k] = ListHead}
        n == IF ends = {} THEN PoolSize ELSE (CHOOSE k \in ends : \A l \in ends : k <= l) - 1
    IN [k \in 1 .. n |-> w[k]]

-------------------------------------------------------------------------------
Below(r, c) == r.base < c.base /\ r.base + r.count <= c.base
Inside(r, c) == r.base >= c.base /\ r.base < c.base + c.count

(* The pool hands out its items in order.  The first range that lies above
   the new one, or that it starts in, decides; an item refused for an overlap
   stays taken. *)
reserve_io_range(r) ==
    /\ taken < PoolSize
    /\ taken' = taken + 1
    /\ item' = [item EXCEPT ![taken + 1] = r]
    /\ LET new == taken + 1
           seq == Walk(next)
           hits == {k \in DOMAIN seq : Below(r, item[seq[k]]) \/ Inside(r, item[seq[k]])}
           e == IF hits = {} THEN ListHead ELSE seq[CHOOSE k \in hits : \A l \in hits : k <= l]
       IN IF e # ListHead /\ Inside(r, item[e])
          THEN /\ answer' = "EBUSY"
               /\ UNCHANGED <<prev, next, granted>>
          ELSE /\ list_add(e, new)
               /\ answer' = "ok"
               /\ granted' = granted \cup {r}

(* "I/O range reservation list is full!" *)
reserve_io_range_full ==
    /\ taken = PoolSize
    /\ answer' = "ENOMEM"
    /\ UNCHANGED <<prev, next, item, taken, granted>>

(* The item leaves the list but does not go back to the pool. *)
release_io_range(r) ==
    /\ LET same == {i \in Items : (\E k \in DOMAIN Walk(next) : Walk(next)[k] = i) /\ item[i] = r}
       IN IF same = {} THEN UNCHANGED <<prev, next>> ELSE list_remove(CHOOSE i \in same : TRUE)
    /\ granted' = granted \ {r}
    /\ answer' = "none"
    /\ UNCHANGED <<item, taken>>

IoNext ==
    \/ \E r \in Ranges : reserve_io_range(r) \/ release_io_range(r)
    \/ reserve_io_range_full

-------------------------------------------------------------------------------
Listed(link) == [k \in DOMAIN Walk(link) |-> item[Walk(link)[k]]]
Overlap(r, s) == r.base < s.base + s.count /\ s.base < r.base + r.count

(* After any order of reservations and releases the list holds the granted
   ranges, each once, no two of them overlapping, in the order of their ports,
   and reads the same backwards along prev as forwards along next: the search
   of reserve_io_range looks no further than the first range above. *)
RangesDisjoint ==
    LET l == Listed(next)
        n == Len(l)
    IN /\ {l[k] : k \in 1 .. n} = granted /\ Cardinality(granted) = n
       /\ \A j, k \in 1 .. n : j < k => l[j].base < l[k].base /\ ~Overlap(l[j], l[k])
       /\ Walk(prev) = [k \in 1 .. n |-> Walk(next)[n + 1 - k]]
===============================================================================
