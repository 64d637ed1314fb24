----------------------------- MODULE PoolProofs -----------------------------
(***************************************************************************)
(* Proofs about Pool.tla, for every number of pools and chunks and every   *)
(* set of capacities, when pools are destroyed last created first.         *)
(***************************************************************************)
EXTENDS Pool, FiniteSetTheorems, SequenceTheorems, WellFoundedInduction, TLAPS

LivePools == PoolIds \ pool_mask

(* The first chunk behind those of pool p. *)
End(p) == pool[p].chunk_base + pool[p].capacity

(* A slot of _pools that is not in use is as init_pool left it. *)
Unused == \A p \in pool_mask : pool[p] = NoPool /\ free[p] = <<>>

(* The pools lie one behind the other without a gap up to chunk t, and the *)
(* chunks from t on are the free ones.                                     *)
Stacked(t) ==
    /\ t \in 0 .. MAX_NR_POOL_ITEMS
    /\ chunk_mask = t .. MAX_NR_POOL_ITEMS - 1
    /\ \A p \in LivePools :
          /\ pool[p].chunk_base \in ChunkIds
          /\ pool[p].capacity \in Nat \ {0}
          /\ End(p) <= t
    /\ \A p, q \in LivePools :
          p # q => End(p) <= pool[q].chunk_base \/ End(q) <= pool[p].chunk_base
    /\ \A c \in 0 .. t - 1 : \E p \in LivePools : c \in Chunks(p)

(* The free list of p holds chunks of p, each once, and the alloc pointer is its *)
(* front.                                                                        *)
Listed(p) ==
    /\ \A i \in 1 .. Len(free[p]) : free[p][i] \in Chunks(p)
    /\ \A i, j \in 1 .. Len(free[p]) : free[p][i] = free[p][j] => i = j
    /\ free[p] # <<>> => pool[p].alloc = free[p][1]

OnList(p, c) == \E i \in 1 .. Len(free[p]) : free[p][i] = c

(* The chunks of p know their index, and whether their item is in use. *)
Marked(p) ==
    \A c \in Chunks(p) :
        /\ chunk[c].index = c - pool[p].chunk_base
        /\ chunk[c].data = TRUE <=> <<p, chunk[c].index>> \in held
        /\ chunk[c].data = FALSE <=> OnList(p, c)

(* Only items of existing pools are held. *)
HeldLive == \A p \in PoolIds, i \in Nat :
                <<p, i>> \in held => p \in LivePools /\ i < pool[p].capacity

Sound == halt \notin {"assert", "torn"}

PInv ==
    /\ TypeOK
    /\ Unused
    /\ \E t \in Nat : Stacked(t)
    /\ \A p \in LivePools : Listed(p) /\ Marked(p)
    /\ HeldLive
    /\ Sound

-----------------------------------------------------------------------------
USE PoolAssumption DEF PoolIds, ChunkIds

(* A set of natural numbers that is not empty has a least element. *)
LEMMA LeastNumber ==
    ASSUME NEW S, S \subseteq Nat, S # {}
    PROVE  \E m \in S : \A n \in S : m <= n
  <1> DEFINE R == {ss \in Nat \X Nat : ss[1] < ss[2]}
  <1>1. IsWellFoundedOn(R, Nat)
    BY NatLessThanWellFounded DEF OpToRel
  <1> HIDE DEF R
  <1>2. PICK m \in S : \A n \in S : <<n, m>> \notin R
    BY <1>1, WFMin, Zenon
  <1>3. \A n \in S : ~(n < m)
    BY <1>2 DEF R
  <1> QED
    BY <1>3

(* The rest of a sequence behind its head. *)
LEMMA TailOf ==
    ASSUME NEW S, NEW s \in Seq(S), s # <<>>
    PROVE  /\ Tail(s) \in Seq(S) /\ Len(Tail(s)) = Len(s) - 1
           /\ \A i \in 1 .. Len(s) - 1 : Tail(s)[i] = s[i + 1]
  BY HeadTailProperties

(* bit_scan_forward finds a set bit. *)
LEMMA ScanFinds ==
    ASSUME NEW mask, mask \subseteq PoolIds, mask # {}
    PROVE  bit_scan_forward(mask) \in mask
  <1>1. mask \subseteq Nat
    OBVIOUS
  <1>2. \E i \in mask : \A j \in mask : i <= j
    BY <1>1, LeastNumber
  <1> QED
    BY <1>2 DEF bit_scan_forward

(* A run of chunks has as many as its bounds say. *)
LEMMA RunLength ==
    ASSUME NEW a \in Nat, NEW b \in Nat, a <= b
    PROVE  Cardinality(a .. b - 1) = b - a
  <1>1. a \in Int /\ b - 1 \in Int
    OBVIOUS
  <1>2. Cardinality(a .. b - 1) = IF a > b - 1 THEN 0 ELSE b - 1 - a + 1
    BY <1>1, FS_Interval
  <1>3. CASE a = b
    <2>1. a > b - 1 /\ b - a = 0
      BY <1>3
    <2> QED
      BY <1>2, <2>1
  <1>4. CASE a < b
    <2>1. ~(a > b - 1) /\ b - 1 - a + 1 = b - a
      BY <1>4
    <2> QED
      BY <1>2, <2>1
  <1> QED
    BY <1>3, <1>4

(* Below a chunk of the free run there are as many free chunks as its distance *)
(* from the start of the run.                                                  *)
LEMMA CountBelow ==
    ASSUME NEW t \in Nat, NEW c \in t .. MAX_NR_POOL_ITEMS - 1
    PROVE  Cardinality({d \in t .. MAX_NR_POOL_ITEMS - 1 : d < c}) = c - t
  <1>1. {d \in t .. MAX_NR_POOL_ITEMS - 1 : d < c} = t .. c - 1
    OBVIOUS
  <1>2. c \in Nat /\ t <= c
    OBVIOUS
  <1>3. Cardinality(t .. c - 1) = c - t
    BY <1>2, RunLength
  <1> QED
    BY <1>1, <1>3

(* Repeated scans of a mask that is one run yield its chunks one after the other. *)
LEMMA NthOfRun ==
    ASSUME NEW t \in Nat, NEW i \in Nat, t + i < MAX_NR_POOL_ITEMS
    PROVE  Nth(t .. MAX_NR_POOL_ITEMS - 1, i) = t + i
  <1> DEFINE mask == t .. MAX_NR_POOL_ITEMS - 1
             Below(c) == Cardinality({d \in mask : d < c})
  <1>1. \A c \in mask : Below(c) = c - t
    BY CountBelow
  <1>2. t + i \in mask
    OBVIOUS
  <1>3. Nth(mask, i) = CHOOSE c \in mask : Below(c) = i
    BY DEF Nth
  <1> HIDE DEF Below
  <1>4. \A c \in mask : Below(c) = i <=> c = t + i
    BY <1>1
  <1>5. (CHOOSE c \in mask : Below(c) = i) = t + i
    BY <1>2, <1>4
  <1> QED
    BY <1>3, <1>5

LEMMA InitInv == Init => PInv
  <1> SUFFICES ASSUME Init PROVE PInv
    OBVIOUS
  <1>1. TypeOK
    BY DEF Init, TypeOK, NoPool, NoChunk
  <1>2. LivePools = {}
    BY DEF Init, LivePools
  <1>3. Stacked(0)
    BY <1>2 DEF Init, Stacked
  <1> QED
    BY <1>1, <1>2, <1>3 DEF Init, PInv, Unused, HeldLive, Sound

-----------------------------------------------------------------------------
(* What pool_create does when the pools are stacked up to chunk t: the pool in *)
(* slot p takes the n chunks from t on.                                        *)
Created(t, p, name, n) ==
    /\ p \in pool_mask
    /\ t + n <= MAX_NR_POOL_ITEMS
    /\ pool' = [pool EXCEPT ![p] = [name |-> name, capacity |-> n,
                                   chunk_base |-> t, alloc |-> t]]
    /\ free' = [free EXCEPT ![p] = [i \in 1 .. n |-> t + (i - 1)]]
    /\ chunk' = [c \in ChunkIds |-> IF c \in t .. t + n - 1
                                    THEN [index |-> c - t, data |-> FALSE] ELSE chunk[c]]
    /\ pool_mask' = pool_mask \ {p}
    /\ chunk_mask' = t + n .. MAX_NR_POOL_ITEMS - 1
    /\ halt' = "no" /\ ret' = <<p>> /\ held' = held

LEMMA CreateStep ==
    ASSUME PInv, NEW t \in Nat, Stacked(t), NEW name \in Names, NEW n \in Capacities,
           pool_create(name, n)
    PROVE  Panic("full") \/ \E p \in PoolIds : Created(t, p, name, n)
  <1> n \in Nat \ {0}
    OBVIOUS
  <1> SUFFICES ASSUME ensure_capacity(n), pool_mask # {}
               PROVE  \E p \in PoolIds : Created(t, p, name, n)
    BY DEF pool_create
  <1> DEFINE p == bit_scan_forward(pool_mask)
             taken == [i \in 1 .. n |-> Nth(chunk_mask, i - 1)]
             Taken == {taken[i] : i \in 1 .. n}
             index(c) == Cardinality({d \in chunk_mask : d < c})
  <1>1. p \in pool_mask /\ p \in PoolIds
    BY ScanFinds DEF PInv, TypeOK
  <1>2. chunk_mask = t .. MAX_NR_POOL_ITEMS - 1 /\ t <= MAX_NR_POOL_ITEMS
    BY DEF Stacked
  <1>3. t + n <= MAX_NR_POOL_ITEMS
    <2>1. Cardinality(chunk_mask) = MAX_NR_POOL_ITEMS - t
      BY <1>2, RunLength
    <2> QED
      BY <2>1 DEF ensure_capacity
  <1>4. taken = [i \in 1 .. n |-> t + (i - 1)]
    <2>1. \A i \in 1 .. n : Nth(chunk_mask, i - 1) = t + (i - 1)
      BY <1>2, <1>3, NthOfRun
    <2> QED
      BY <2>1
  <1>5. \A i \in 1 .. n : taken[i] = t + (i - 1)
    <2> HIDE DEF taken
    <2> QED
      BY <1>4
  <1>6. Taken = t .. t + n - 1
    <2>1. \A c \in t .. t + n - 1 : c - t + 1 \in 1 .. n /\ taken[c - t + 1] = c
      <3> HIDE DEF taken
      <3> QED
        BY <1>5
    <2>2. \A i \in 1 .. n : taken[i] \in t .. t + n - 1
      <3> HIDE DEF taken
      <3> QED
        BY <1>5
    <2> HIDE DEF taken
    <2>3. Taken \subseteq t .. t + n - 1
      BY <2>2
    <2>4. t .. t + n - 1 \subseteq Taken
      BY <2>1
    <2> QED
      BY <2>3, <2>4
  <1>7. \A c \in t .. t + n - 1 : index(c) = c - t
    BY <1>2, <1>3, CountBelow
  <1>8. \A c \in t .. t + n - 1 : ~StillLinked(c)
    <2> SUFFICES ASSUME NEW c \in t .. t + n - 1, NEW q \in LivePools,
                        NEW i \in DOMAIN free[q], free[q][i] = c
                 PROVE  FALSE
      BY DEF StillLinked, LivePools
    <2>0. free[q] \in Seq(ChunkIds)
      BY DEF PInv, TypeOK, LivePools
    <2>1. i \in 1 .. Len(free[q])
      BY <2>0, LenProperties
    <2>2. c \in Chunks(q)
      BY <2>1 DEF PInv, Listed
    <2>3. pool[q].chunk_base \in Nat /\ pool[q].capacity \in Nat /\ End(q) <= t
      BY DEF Stacked
    <2> QED
      BY <2>2, <2>3 DEF Chunks, End
  <1>9. /\ pool' = [pool EXCEPT ![p] = [name |-> name, capacity |-> n,
                                       chunk_base |-> taken[1], alloc |-> taken[1]]]
        /\ free' = [free EXCEPT ![p] = taken]
        /\ chunk' = [c \in ChunkIds |-> IF c \in Taken
                                        THEN [index |-> index(c), data |-> FALSE] ELSE chunk[c]]
        /\ pool_mask' = pool_mask \ {p}
        /\ chunk_mask' = chunk_mask \ Taken
        /\ halt' = IF \E c \in Taken : StillLinked(c) THEN "torn" ELSE "no"
        /\ ret' = <<p>> /\ held' = held
    BY DEF pool_create
  <1> HIDE DEF p, taken, Taken, index
  <1>10. chunk_mask' = t + n .. MAX_NR_POOL_ITEMS - 1
    BY <1>2, <1>3, <1>6, <1>9
  <1>11. halt' = "no"
    BY <1>6, <1>8, <1>9
  <1>12. chunk' = [c \in ChunkIds |-> IF c \in t .. t + n - 1
                                    THEN [index |-> c - t, data |-> FALSE] ELSE chunk[c]]
    BY <1>6, <1>7, <1>9
  <1>13. taken[1] = t
    BY <1>5
  <1>14. Created(t, p, name, n)
    BY <1>1, <1>3, <1>4, <1>9, <1>10, <1>11, <1>12, <1>13 DEF Created
  <1> QED
    BY <1>1, <1>14

LEMMA CreateInv ==
    ASSUME PInv, NEW t \in Nat, Stacked(t), NEW name \in Names, NEW n \in Capacities,
           NEW p \in PoolIds, Created(t, p, name, n)
    PROVE  PInv'
  <1> n \in Nat \ {0}
    OBVIOUS
  <1> USE DEF PInv
  <1>1. /\ p \in pool_mask /\ t + n <= MAX_NR_POOL_ITEMS
        /\ chunk_mask' = t + n .. MAX_NR_POOL_ITEMS - 1
        /\ pool_mask' = pool_mask \ {p} /\ held' = held /\ halt' = "no"
    BY DEF Created
  <1>2. TypeOK'
    <2>1. pool' \in [PoolIds -> [name : Names \cup {NULL}, capacity : Capacities \cup {0},
                      chunk_base : ChunkIds \cup {NULL}, alloc : ChunkIds \cup {NULL}]]
      BY SMTT(30) DEF TypeOK, Created
    <2>2. free' \in [PoolIds -> Seq(ChunkIds)]
      <3>1. \A i \in 1 .. n : t + (i - 1) \in ChunkIds
        BY <1>1
      <3>2. [i \in 1 .. n |-> t + (i - 1)] \in Seq(ChunkIds)
        BY <3>1, IsASeq
      <3> QED
        BY <3>2 DEF TypeOK, Created
    <2>3. chunk' \in [ChunkIds -> [index : Nat, data : BOOLEAN]]
      <3>1. \A c \in t .. t + n - 1 : [index |-> c - t, data |-> FALSE]
                                       \in [index : Nat, data : BOOLEAN]
        OBVIOUS
      <3>2. \A c \in ChunkIds : chunk[c] \in [index : Nat, data : BOOLEAN]
        BY DEF TypeOK
      <3> QED
        BY <3>1, <3>2 DEF Created
    <2>4. held' \subseteq PoolIds \X Nat /\ halt' \in {"no", "full", "assert", "torn"}
      BY <1>1 DEF TypeOK
    <2>5. pool_mask' \subseteq PoolIds /\ chunk_mask' \subseteq ChunkIds
      BY <1>1 DEF TypeOK
    <2> QED
      BY <2>1, <2>2, <2>3, <2>4, <2>5 DEF TypeOK
  <1>3. /\ pool'[p].chunk_base = t /\ pool'[p].capacity = n /\ pool'[p].alloc = t
        /\ \A q \in PoolIds : q # p => pool'[q] = pool[q] /\ free'[q] = free[q]
    BY DEF TypeOK, Created
  <1>4. Len(free'[p]) = n /\ \A i \in 1 .. n : free'[p][i] = t + (i - 1)
    BY DEF TypeOK, Created
  <1>5. /\ \A c \in t .. t + n - 1 : chunk'[c].index = c - t /\ chunk'[c].data = FALSE
        /\ \A c \in 0 .. t - 1 : chunk'[c] = chunk[c]
    BY <1>1 DEF Created
  <1>6. LivePools' = LivePools \cup {p} /\ p \notin LivePools
    BY <1>1 DEF LivePools
  <1>7. \A q \in LivePools : /\ q # p /\ q \in PoolIds
                            /\ pool[q].chunk_base \in Nat /\ pool[q].capacity \in Nat \ {0}
                            /\ End(q) <= t /\ End(q) = pool[q].chunk_base + pool[q].capacity
                            /\ Chunks(q)' = Chunks(q) /\ End(q)' = End(q)
                            /\ Chunks(q) \subseteq 0 .. t - 1
    <2> SUFFICES ASSUME NEW q \in LivePools
                 PROVE  /\ q # p /\ q \in PoolIds
                        /\ pool[q].chunk_base \in Nat /\ pool[q].capacity \in Nat \ {0}
                        /\ End(q) <= t /\ End(q) = pool[q].chunk_base + pool[q].capacity
                        /\ Chunks(q)' = Chunks(q) /\ End(q)' = End(q)
                        /\ Chunks(q) \subseteq 0 .. t - 1
      BY Zenon
    <2>1. q # p /\ q \in PoolIds
      BY <1>6 DEF LivePools
    <2>2. pool[q].chunk_base \in Nat /\ pool[q].capacity \in Nat \ {0} /\ End(q) <= t
      BY DEF Stacked
    <2>3. pool'[q] = pool[q]
      BY <1>3, <2>1
    <2> QED
      BY <2>1, <2>2, <2>3 DEF Chunks, End
  <1>8. Chunks(p)' = t .. t + n - 1 /\ End(p)' = t + n
    BY <1>3 DEF Chunks, End
  <1>9. Unused'
    BY <1>1, <1>3 DEF Unused, TypeOK
  <1>10. Stacked(t + n)'
    <2>1. \A q \in LivePools' : /\ pool'[q].chunk_base \in ChunkIds
                               /\ pool'[q].capacity \in Nat \ {0}
                               /\ End(q)' <= t + n
      <3>1. \A q \in LivePools : pool'[q] = pool[q] /\ End(q)' <= t + n
        BY <1>3, <1>7
      <3>2. \A q \in LivePools : pool[q].chunk_base \in ChunkIds
        BY DEF Stacked
      <3> QED
        BY <1>1, <1>3, <1>6, <1>7, <1>8, <3>1, <3>2, SMTT(60)
    <2>2. \A q, r \in LivePools' :
             q # r => End(q)' <= pool'[r].chunk_base \/ End(r)' <= pool'[q].chunk_base
      <3>1. \A q \in LivePools : pool'[q] = pool[q] /\ End(q)' = End(q) /\ End(q) <= t
        BY <1>3, <1>7
      <3>2. \A q, r \in LivePools :
               q # r => End(q) <= pool[r].chunk_base \/ End(r) <= pool[q].chunk_base
        BY DEF Stacked
      <3> QED
        BY <1>3, <1>6, <3>1, <3>2
    <2>3. \A c \in 0 .. t + n - 1 : \E q \in LivePools' : c \in Chunks(q)'
      BY <1>6, <1>7, <1>8 DEF Stacked
    <2> QED
      BY <1>1, <2>1, <2>2, <2>3 DEF Stacked
  <1>11. ASSUME NEW q \in LivePools PROVE (Listed(q) /\ Marked(q))'
    <2>1. pool'[q] = pool[q] /\ free'[q] = free[q] /\ Chunks(q)' = Chunks(q)
      BY <1>3, <1>7
    <2>2. \A c \in Chunks(q) : chunk'[c] = chunk[c]
      BY <1>5, <1>7
    <2>3. Listed(q) /\ Marked(q)
      OBVIOUS
    <2>4. Listed(q)'
      BY <2>1, <2>3 DEF Listed
    <2>5. \A c : OnList(q, c)' <=> OnList(q, c)
      BY <2>1 DEF OnList
    <2>6. Marked(q)'
      BY <1>1, <2>1, <2>2, <2>3, <2>5 DEF Marked
    <2> QED
      BY <2>4, <2>6
  <1>12. Listed(p)'
    <2> HIDE DEF PInv
    <2>1. \A i \in 1 .. n : free'[p][i] \in t .. t + n - 1
      BY <1>4
    <2>2. \A i, j \in 1 .. n : free'[p][i] = free'[p][j] => i = j
      BY <1>4
    <2>3. 1 \in 1 .. n /\ free'[p][1] = t
      BY <1>4
    <2>4. /\ \A i \in 1 .. Len(free'[p]) : free'[p][i] \in Chunks(p)'
          /\ pool'[p].alloc = free'[p][1]
      BY <1>3, <1>4, <1>8, <2>1, <2>3, Zenon
    <2>5. \A i, j \in 1 .. Len(free'[p]) : free'[p][i] = free'[p][j] => i = j
      BY <1>4, <2>2, Zenon
    <2> QED
      BY <2>4, <2>5, Zenon DEF Listed
  <1>13. Marked(p)'
    <2>1. \A c \in t .. t + n - 1 : c - t + 1 \in 1 .. n /\ free'[p][c - t + 1] = c
      BY <1>4, SMTT(60)
    <2>2. \A c \in t .. t + n - 1 : OnList(p, c)'
      BY <1>4, <2>1 DEF OnList
    <2>3. \A i \in Nat : <<p, i>> \notin held'
      BY <1>1, <1>6 DEF HeldLive
    <2>4. \A c \in t .. t + n - 1 : <<p, chunk'[c].index>> \notin held'
      BY <1>5, <2>3
    <2> QED
      BY <1>3, <1>5, <1>8, <2>2, <2>4 DEF Marked
  <1>14. HeldLive'
    BY <1>1, <1>3, <1>6 DEF HeldLive
  <1>15. t + n \in Nat
    OBVIOUS
  <1> QED
    BY <1>1, <1>2, <1>6, <1>9, <1>10, <1>11, <1>12, <1>13, <1>14, <1>15 DEF Sound

-----------------------------------------------------------------------------
(* The pool that is destroyed is the last of the stack. *)
LEMMA LastOnStack ==
    ASSUME PInv, AnyOrder = FALSE, NEW t \in Nat, Stacked(t),
           NEW p \in PoolIds, pool_destroy(p)
    PROVE  /\ p \in LivePools
           /\ \A q \in LivePools : pool[q].chunk_base <= pool[p].chunk_base
           /\ End(p) = t
  <1>1. /\ p \in LivePools
        /\ \A q \in LivePools : pool[q].chunk_base <= pool[p].chunk_base
    BY DEF pool_destroy, Live, LivePools
  <1>2. \A q \in LivePools : /\ pool[q].chunk_base \in Nat /\ pool[q].capacity \in Nat \ {0}
                            /\ End(q) <= t /\ pool[q].chunk_base < End(q) /\ End(q) \in Nat
    BY DEF Stacked, End
  <1>3. t > 0 /\ t - 1 \in 0 .. t - 1
    BY <1>1, <1>2
  <1>4. PICK q \in LivePools : t - 1 \in Chunks(q)
    BY <1>3 DEF Stacked
  <1>5. End(q) = t
    BY <1>2, <1>4 DEF Chunks, End
  <1>6. q # p => End(q) <= pool[p].chunk_base \/ End(p) <= pool[q].chunk_base
    BY <1>1 DEF Stacked
  <1>7. q = p
    BY <1>1, <1>2, <1>5, <1>6
  <1> QED
    BY <1>1, <1>5, <1>7

LEMMA DestroyInv ==
    ASSUME PInv, AnyOrder = FALSE, NEW t \in Nat, Stacked(t),
           NEW p \in PoolIds, pool_destroy(p)
    PROVE  PInv'
  <1>0. PICK base \in Nat : base = pool[p].chunk_base
    <2>1. p \in LivePools
      BY LastOnStack
    <2>2. pool[p].chunk_base \in Nat
      BY <2>1 DEF Stacked
    <2> QED
      BY <2>2
  <1>1. /\ p \in LivePools /\ End(p) = t
        /\ \A q \in LivePools : pool[q].chunk_base <= base
    BY <1>0, LastOnStack
  <1> USE DEF PInv
  <1>2. \A q \in LivePools : /\ pool[q].chunk_base \in Nat /\ pool[q].chunk_base \in ChunkIds
                            /\ pool[q].capacity \in Nat \ {0}
                            /\ End(q) <= t /\ pool[q].chunk_base < End(q) /\ End(q) \in Nat
    BY DEF Stacked, End
  <1>3. base + pool[p].capacity = t /\ base \in ChunkIds /\ base < t
    BY <1>0, <1>1, <1>2 DEF End
  <1>4. chunk_mask' = base .. MAX_NR_POOL_ITEMS - 1
    <2>1. chunk_mask' = chunk_mask \cup ((base .. t - 1) \cap ChunkIds)
      <3>1. base + pool[p].capacity - 1 = t - 1
        BY <1>1, <1>2, <1>3
      <3> QED
        BY <1>0, <3>1 DEF pool_destroy
    <2>2. chunk_mask = t .. MAX_NR_POOL_ITEMS - 1 /\ t <= MAX_NR_POOL_ITEMS
      BY DEF Stacked
    <2> QED
      BY <1>3, <2>1, <2>2
  <1>5. /\ pool_mask' = pool_mask \cup {p}
        /\ pool' = [pool EXCEPT ![p] = NoPool]
        /\ free' = [free EXCEPT ![p] = <<>>]
        /\ chunk' = [chunk EXCEPT ![base] = NoChunk]
        /\ held' = {h \in held : h[1] # p}
        /\ halt' = halt
    BY <1>0 DEF pool_destroy
  <1>6. LivePools' = LivePools \ {p}
    BY <1>5 DEF LivePools
  <1>7. /\ pool'[p] = NoPool /\ free'[p] = <<>>
        /\ \A q \in PoolIds : q # p => pool'[q] = pool[q] /\ free'[q] = free[q]
        /\ \A c \in ChunkIds : c # base => chunk'[c] = chunk[c]
    BY <1>5 DEF TypeOK
  <1>8. \A q \in LivePools' : /\ q \in LivePools /\ q # p /\ q \in PoolIds
                             /\ pool'[q] = pool[q] /\ free'[q] = free[q]
                             /\ Chunks(q)' = Chunks(q) /\ End(q)' = End(q)
    BY <1>6, <1>7 DEF LivePools, Chunks, End
  <1>9. \A q \in LivePools' : End(q) <= base
    <2>1. \A q \in LivePools' : End(q) <= base \/ t <= pool[q].chunk_base
      BY <1>0, <1>1, <1>8 DEF Stacked
    <2> QED
      BY <1>0, <1>1, <1>2, <1>3, <1>8, <2>1
  <1>10. \A q \in LivePools' : Chunks(q) \subseteq 0 .. base - 1
    <2> SUFFICES ASSUME NEW q \in LivePools', NEW c \in Chunks(q) PROVE c \in 0 .. base - 1
      BY Zenon
    <2>1. pool[q].chunk_base \in Nat /\ pool[q].capacity \in Nat /\ End(q) <= base
      BY <1>2, <1>8, <1>9
    <2> QED
      BY <2>1 DEF Chunks, End
  <1>11. TypeOK'
    <2>1. pool' \in [PoolIds -> [name : Names \cup {NULL}, capacity : Capacities \cup {0},
                      chunk_base : ChunkIds \cup {NULL}, alloc : ChunkIds \cup {NULL}]]
      BY <1>5 DEF TypeOK, NoPool
    <2>2. free' \in [PoolIds -> Seq(ChunkIds)]
      BY <1>5 DEF TypeOK
    <2>3. chunk' \in [ChunkIds -> [index : Nat, data : BOOLEAN]]
      BY <1>5 DEF TypeOK, NoChunk
    <2>4. held' \subseteq PoolIds \X Nat /\ halt' \in {"no", "full", "assert", "torn"}
      BY <1>5 DEF TypeOK
    <2>5. pool_mask' \subseteq PoolIds /\ chunk_mask' \subseteq ChunkIds
      BY <1>3, <1>4, <1>5 DEF TypeOK
    <2> QED
      BY <2>1, <2>2, <2>3, <2>4, <2>5 DEF TypeOK
  <1>12. Unused'
    BY <1>5, <1>7 DEF Unused, TypeOK
  <1>13. Stacked(base)'
    <2>1. \A q \in LivePools' : /\ pool'[q].chunk_base \in ChunkIds
                               /\ pool'[q].capacity \in Nat \ {0}
                               /\ End(q)' <= base
      BY <1>2, <1>8, <1>9
    <2>2. \A q, r \in LivePools' :
             q # r => End(q)' <= pool'[r].chunk_base \/ End(r)' <= pool'[q].chunk_base
      <3>1. \A q, r \in LivePools :
               q # r => End(q) <= pool[r].chunk_base \/ End(r) <= pool[q].chunk_base
        BY DEF Stacked
      <3> QED
        BY <1>8, <3>1
    <2>3. ASSUME NEW c \in 0 .. base - 1 PROVE \E q \in LivePools' : c \in Chunks(q)'
      <3>1. c \in 0 .. t - 1
        BY <1>3
      <3>2. PICK q \in LivePools : c \in Chunks(q)
        BY <3>1 DEF Stacked
      <3>3. q # p
        BY <1>0, <1>3, <3>2 DEF Chunks
      <3> QED
        BY <1>6, <1>8, <3>2, <3>3
    <2> QED
      BY <1>3, <1>4, <2>1, <2>2, <2>3 DEF Stacked
  <1>14. ASSUME NEW q \in LivePools' PROVE (Listed(q) /\ Marked(q))'
    <2>1. /\ pool'[q] = pool[q] /\ free'[q] = free[q] /\ Chunks(q)' = Chunks(q)
          /\ q \in LivePools /\ q # p
      BY <1>8
    <2>2. \A c \in Chunks(q) : chunk'[c] = chunk[c]
      BY <1>3, <1>7, <1>10
    <2>3. Listed(q) /\ Marked(q)
      BY <2>1
    <2>4. \A i : <<q, i>> \in held' <=> <<q, i>> \in held
      BY <1>5, <2>1
    <2>5. Listed(q)'
      BY <2>1, <2>3 DEF Listed
    <2>6. Marked(q)'
      <3>1. \A c : OnList(q, c)' <=> OnList(q, c)
        BY <2>1 DEF OnList
      <3> QED
        BY <2>1, <2>2, <2>3, <2>4, <3>1 DEF Marked
    <2> QED
      BY <2>5, <2>6
  <1>15. HeldLive'
    <2>1. \A q, i : <<q, i>> \in held' => <<q, i>> \in held /\ q # p
      BY <1>5
    <2> QED
      BY <1>6, <1>7, <2>1 DEF HeldLive
  <1> QED
    BY <1>2, <1>1, <1>5, <1>11, <1>12, <1>13, <1>14, <1>15 DEF Sound

-----------------------------------------------------------------------------
(* The chunks of a pool exist, are taken, and are no other pool's. *)
LEMMA ChunksApart ==
    ASSUME NEW t \in Nat, Stacked(t), NEW p \in LivePools
    PROVE  /\ Chunks(p) \subseteq 0 .. t - 1
           /\ Chunks(p) \subseteq ChunkIds
           /\ pool[p].chunk_base \in Nat /\ pool[p].capacity \in Nat \ {0}
           /\ \A q \in LivePools : q # p => Chunks(p) \cap Chunks(q) = {}
  <1>1. \A q \in LivePools : /\ pool[q].chunk_base \in Nat /\ pool[q].capacity \in Nat \ {0}
                            /\ End(q) <= t
    BY DEF Stacked
  <1>2. t <= MAX_NR_POOL_ITEMS
    BY DEF Stacked
  <1>3. \A q \in LivePools : q # p => \/ End(p) <= pool[q].chunk_base
                                     \/ End(q) <= pool[p].chunk_base
    BY DEF Stacked
  <1>4. Chunks(p) \subseteq 0 .. t - 1
    BY <1>1 DEF Chunks, End
  <1> QED
    BY <1>1, <1>2, <1>3, <1>4 DEF Chunks, End

(* A step that takes or returns no chunk leaves the stack of pools as it is. *)
LEMMA StackKept ==
    ASSUME NEW t \in Nat, Stacked(t), pool_mask' = pool_mask, chunk_mask' = chunk_mask,
           \A q \in PoolIds : /\ pool'[q].chunk_base = pool[q].chunk_base
                             /\ pool'[q].capacity = pool[q].capacity
    PROVE  Stacked(t)' /\ LivePools' = LivePools
           /\ \A q \in PoolIds : Chunks(q)' = Chunks(q)
  <1>1. LivePools' = LivePools /\ LivePools \subseteq PoolIds
    BY DEF LivePools
  <1>2. \A q \in PoolIds : Chunks(q)' = Chunks(q) /\ End(q)' = End(q)
    BY DEF Chunks, End
  <1>3. /\ \A q \in LivePools : /\ pool'[q].chunk_base \in ChunkIds
                               /\ pool'[q].capacity \in Nat \ {0}
                               /\ End(q)' <= t
        /\ \A q, r \in LivePools :
               q # r => End(q)' <= pool'[r].chunk_base \/ End(r)' <= pool'[q].chunk_base
    BY <1>1, <1>2 DEF Stacked
  <1>4. \A c \in 0 .. t - 1 : \E q \in LivePools : c \in Chunks(q)'
    BY <1>1, <1>2 DEF Stacked
  <1> QED
    BY <1>1, <1>2, <1>3, <1>4 DEF Stacked

(* A pool whose list, chunks and items a step leaves alone stays in order. *)
LEMMA PoolKept ==
    ASSUME NEW q, Listed(q), Marked(q), pool'[q] = pool[q], free'[q] = free[q],
           \A c \in Chunks(q) : chunk'[c] = chunk[c],
           \A i : <<q, i>> \in held' <=> <<q, i>> \in held
    PROVE  (Listed(q) /\ Marked(q))'
  <1>1. Chunks(q)' = Chunks(q)
    BY DEF Chunks
  <1>2. Listed(q)'
    BY <1>1 DEF Listed
  <1>3. \A c : OnList(q, c)' <=> OnList(q, c)
    BY DEF OnList
  <1>4. Marked(q)'
    BY <1>1, <1>3 DEF Marked
  <1> QED
    BY <1>2, <1>4

(* What pool_alloc does with c, the front of the free list. *)
Allocated(p, c) ==
    /\ p \in LivePools /\ c \in Chunks(p) /\ OnList(p, c) /\ chunk[c].data = FALSE
    /\ free[p] # <<>> /\ c = free[p][1]
    /\ pool' = [pool EXCEPT ![p].alloc = IF Len(free[p]) > 1 THEN free[p][2] ELSE NULL]
    /\ free' = [free EXCEPT ![p] = Tail(free[p])]
    /\ chunk' = [chunk EXCEPT ![c].data = TRUE]
    /\ ret' = <<p, chunk[c].index>>
    /\ held' = held \cup {<<p, chunk[c].index>>}
    /\ UNCHANGED <<pool_mask, chunk_mask, halt>>

LEMMA AllocStep ==
    ASSUME PInv, NEW p \in PoolIds, pool_alloc(p)
    PROVE  \E c \in ChunkIds : Allocated(p, c)
  <1>1. PICK t \in Nat : Stacked(t)
    BY DEF PInv
  <1>2. PICK c : c = pool[p].alloc
    OBVIOUS
  <1>3. p \in LivePools /\ free[p] # <<>>
    BY DEF pool_alloc, Live, LivePools
  <1>4. free[p] \in Seq(ChunkIds) /\ Len(free[p]) \in Nat \ {0}
    BY <1>3, EmptySeq, LenProperties DEF PInv, TypeOK
  <1>5. Listed(p) /\ Marked(p)
    BY <1>3 DEF PInv
  <1>6. c = free[p][1] /\ 1 \in 1 .. Len(free[p])
    BY <1>2, <1>3, <1>4, <1>5 DEF Listed
  <1>7. c \in Chunks(p) /\ OnList(p, c)
    BY <1>5, <1>6 DEF Listed, OnList
  <1>8. chunk[c].data = FALSE
    BY <1>5, <1>7 DEF Marked
  <1>9. Place(p, c) = 1
    <2>1. DOMAIN free[p] = 1 .. Len(free[p])
      BY <1>4, LenProperties
    <2>2. \A j \in 1 .. Len(free[p]) : free[p][j] = c => j = 1
      BY <1>5, <1>6 DEF Listed
    <2> QED
      BY <1>6, <2>1, <2>2 DEF Place
  <1>10. NextOnList(p, c) = IF Len(free[p]) > 1 THEN free[p][2] ELSE NULL
    BY <1>4, <1>9 DEF NextOnList
  <1>11. Unlinked(p, c) = Tail(free[p])
    <2>1. Unlinked(p, c) = SubSeq(free[p], 1, 0) \o SubSeq(free[p], 2, Len(free[p]))
      BY <1>9 DEF Unlinked
    <2>2. SubSeq(free[p], 1, 0) = <<>>
      BY <1>4
    <2>3. SubSeq(free[p], 2, Len(free[p])) = Tail(free[p])
      BY <1>4, <1>3
    <2>4. Tail(free[p]) \in Seq(ChunkIds)
      BY <1>3, <1>4, HeadTailProperties
    <2> QED
      BY <2>1, <2>2, <2>3, <2>4
  <1>12. c \in ChunkIds
    BY <1>1, <1>3, <1>7, ChunksApart
  <1>13. Allocated(p, c)
    BY <1>2, <1>3, <1>6, <1>7, <1>8, <1>10, <1>11 DEF pool_alloc, Allocated
  <1> QED
    BY <1>12, <1>13

LEMMA AllocInv ==
    ASSUME PInv, NEW p \in PoolIds, NEW c \in ChunkIds, Allocated(p, c)
    PROVE  PInv'
  <1> USE DEF PInv
  <1>0. PICK t \in Nat : Stacked(t)
    OBVIOUS
  <1>1. p \in LivePools /\ c \in Chunks(p) /\ c = free[p][1] /\ free[p] # <<>>
    BY DEF Allocated
  <1>2. free[p] \in Seq(ChunkIds) /\ Len(free[p]) \in Nat \ {0}
    BY <1>1, EmptySeq, LenProperties DEF TypeOK
  <1>3. /\ Tail(free[p]) \in Seq(ChunkIds) /\ Len(Tail(free[p])) = Len(free[p]) - 1
        /\ \A i \in 1 .. Len(free[p]) - 1 : Tail(free[p])[i] = free[p][i + 1]
    BY <1>1, <1>2, TailOf, Zenon
  <1>4. Listed(p) /\ Marked(p)
    BY <1>1
  <1>5. /\ free'[p] = Tail(free[p])
        /\ \A q \in PoolIds : q # p => pool'[q] = pool[q] /\ free'[q] = free[q]
        /\ \A q \in PoolIds : /\ pool'[q].chunk_base = pool[q].chunk_base
                             /\ pool'[q].capacity = pool[q].capacity
        /\ pool'[p].alloc = IF Len(free[p]) > 1 THEN free[p][2] ELSE NULL
    BY ZenonT(60) DEF Allocated, TypeOK
  <1>6. /\ \A d \in ChunkIds : d # c => chunk'[d] = chunk[d]
        /\ chunk'[c].index = chunk[c].index /\ chunk'[c].data = TRUE
    BY DEF Allocated, TypeOK
  <1>7. /\ held' = held \cup {<<p, chunk[c].index>>}
        /\ pool_mask' = pool_mask /\ chunk_mask' = chunk_mask /\ halt' = halt
    BY DEF Allocated
  <1>8. /\ Stacked(t)' /\ LivePools' = LivePools
        /\ \A q \in PoolIds : Chunks(q)' = Chunks(q)
    BY <1>0, <1>5, <1>7, StackKept
  <1>9. chunk[c].index = c - pool[p].chunk_base /\ c - pool[p].chunk_base \in Nat
        /\ c - pool[p].chunk_base < pool[p].capacity
    <2>1. pool[p].chunk_base \in Nat /\ pool[p].capacity \in Nat
      BY <1>0, <1>1, ChunksApart
    <2>2. chunk[c].index = c - pool[p].chunk_base
      BY <1>1, <1>4 DEF Marked
    <2>3. c \in pool[p].chunk_base .. pool[p].chunk_base + pool[p].capacity - 1
      BY <1>1 DEF Chunks
    <2> QED
      BY <2>1, <2>2, <2>3
  <1>10. TypeOK'
    <2>1. pool' \in [PoolIds -> [name : Names \cup {NULL}, capacity : Capacities \cup {0},
                      chunk_base : ChunkIds \cup {NULL}, alloc : ChunkIds \cup {NULL}]]
      <3>1. (IF Len(free[p]) > 1 THEN free[p][2] ELSE NULL) \in ChunkIds \cup {NULL}
        BY <1>2
      <3>2. \A a \in ChunkIds \cup {NULL} : [pool[p] EXCEPT !.alloc = a] \in
                [name : Names \cup {NULL}, capacity : Capacities \cup {0},
                 chunk_base : ChunkIds \cup {NULL}, alloc : ChunkIds \cup {NULL}]
        BY ZenonT(60) DEF TypeOK
      <3> QED
        BY <3>1, <3>2 DEF TypeOK, Allocated
    <2>2. free' \in [PoolIds -> Seq(ChunkIds)]
      BY <1>3 DEF TypeOK, Allocated
    <2>3. chunk' \in [ChunkIds -> [index : Nat, data : BOOLEAN]]
      <3>1. [chunk[c] EXCEPT !.data = TRUE] \in [index : Nat, data : BOOLEAN]
        BY DEF TypeOK
      <3> QED
        BY <3>1 DEF TypeOK, Allocated
    <2>4. held' \subseteq PoolIds \X Nat
      BY <1>7, <1>9 DEF TypeOK
    <2> QED
      BY <1>7, <2>1, <2>2, <2>3, <2>4 DEF TypeOK
  <1>11. Unused'
    <2>1. \A q \in pool_mask : q # p /\ q \in PoolIds
      BY <1>1 DEF LivePools, TypeOK
    <2> QED
      BY <1>5, <1>7, <2>1 DEF Unused
  <1>12. ASSUME NEW q \in LivePools, q # p PROVE (Listed(q) /\ Marked(q))'
    <2>1. q \in PoolIds /\ Listed(q) /\ Marked(q)
      BY DEF LivePools
    <2>2. pool'[q] = pool[q] /\ free'[q] = free[q]
      BY <1>5, <1>12, <2>1
    <2>3. \A d \in Chunks(q) : chunk'[d] = chunk[d]
      BY <1>0, <1>1, <1>6, <1>12, ChunksApart
    <2>4. \A i : <<q, i>> \in held' <=> <<q, i>> \in held
      BY <1>7, <1>12
    <2> QED
      BY <2>1, <2>2, <2>3, <2>4, PoolKept
  <1>13. Listed(p)'
    <2>1. /\ Chunks(p)' = Chunks(p) /\ Len(free'[p]) = Len(free[p]) - 1
          /\ \A i \in 1 .. Len(free[p]) - 1 : free'[p][i] = free[p][i + 1]
      BY <1>3, <1>5, <1>8
    <2>2. free'[p] # <<>> => Len(free[p]) > 1
      BY <1>2, <1>3, <1>5
    <2> QED
      BY <1>2, <1>4, <1>5, <2>1, <2>2 DEF Listed
  <1>14. Marked(p)'
    <2>1. /\ Chunks(p)' = Chunks(p) /\ Len(free'[p]) = Len(free[p]) - 1
          /\ \A i \in 1 .. Len(free[p]) - 1 : free'[p][i] = free[p][i + 1]
      BY <1>3, <1>5, <1>8
    <2>2. \A d : OnList(p, d)' <=> OnList(p, d) /\ d # c
      <3>1. ASSUME NEW d, OnList(p, d)' PROVE OnList(p, d) /\ d # c
        <4>1. PICK i \in 1 .. Len(free'[p]) : free'[p][i] = d
          BY <3>1 DEF OnList
        <4>2. i + 1 \in 1 .. Len(free[p]) /\ free[p][i + 1] = d /\ 1 \in 1 .. Len(free[p])
          <5>1. i \in 1 .. Len(free[p]) - 1
            BY <2>1, <4>1
          <5> QED
            BY <1>2, <2>1, <4>1, <5>1, SMTT(60)
        <4>3. i + 1 # 1
          BY <4>1
        <4> QED
          BY <1>1, <1>4, <4>2, <4>3 DEF Listed, OnList
      <3>2. ASSUME NEW d, OnList(p, d), d # c PROVE OnList(p, d)'
        <4>1. PICK i \in 1 .. Len(free[p]) : free[p][i] = d
          BY <3>2 DEF OnList
        <4>2. i # 1
          BY <1>1, <3>2, <4>1
        <4>3. i - 1 \in 1 .. Len(free'[p]) /\ free'[p][i - 1] = d
          BY <1>2, <2>1, <4>1, <4>2, SMTT(60)
        <4> QED
          BY <4>3 DEF OnList
      <3> QED
        BY <3>1, <3>2
    <2>3. Chunks(p) \subseteq ChunkIds /\ pool[p].chunk_base \in Nat
      BY <1>0, <1>1, ChunksApart
    <2> SUFFICES ASSUME NEW d \in Chunks(p)
                 PROVE  /\ chunk'[d].index = d - pool[p].chunk_base
                        /\ chunk'[d].data = TRUE <=> <<p, chunk'[d].index>> \in held'
                        /\ chunk'[d].data = FALSE <=> OnList(p, d)'
      BY <1>5, <2>1 DEF Marked
    <2>4. d \in ChunkIds /\ d \in Nat /\ c \in Nat
      BY <2>3
    <2>5. /\ chunk[d].index = d - pool[p].chunk_base
          /\ chunk[d].data = TRUE <=> <<p, chunk[d].index>> \in held
          /\ chunk[d].data = FALSE <=> OnList(p, d)
      BY <1>4 DEF Marked
    <2>6. CASE d = c
      BY <1>6, <1>7, <2>2, <2>5, <2>6
    <2>7. CASE d # c
      <3>1. chunk'[d] = chunk[d]
        BY <1>6, <2>4, <2>7
      <3>2. chunk[d].index # chunk[c].index
        BY <1>9, <2>3, <2>4, <2>5, <2>7
      <3> QED
        BY <1>7, <2>2, <2>5, <2>7, <3>1, <3>2
    <2> QED
      BY <2>6, <2>7
  <1>15. HeldLive'
    <2>1. \A q, i : <<q, i>> \in held' =>
                      <<q, i>> \in held \/ (q = p /\ i = chunk[c].index)
      BY <1>7
    <2> QED
      BY <1>1, <1>5, <1>8, <1>9, <2>1, SMTT(30) DEF HeldLive
  <1> QED
    BY <1>7, <1>8, <1>10, <1>11, <1>12, <1>13, <1>14, <1>15 DEF Sound

-----------------------------------------------------------------------------
(* What pool_free does with c, the chunk of the item. *)
Freed(p, i, c) ==
    /\ p \in LivePools /\ c \in Chunks(p) /\ ~OnList(p, c) /\ chunk[c].data = TRUE
    /\ c = pool[p].chunk_base + i /\ chunk[c].index = i
    /\ pool' = [pool EXCEPT ![p].alloc = c]
    /\ free' = [free EXCEPT ![p] = <<c>> \o free[p]]
    /\ chunk' = [chunk EXCEPT ![c].data = FALSE]
    /\ ret' = NULL
    /\ held' = held \ {<<p, i>>}
    /\ UNCHANGED <<pool_mask, chunk_mask, halt>>

LEMMA FreeStep ==
    ASSUME PInv, NEW p \in PoolIds, NEW i \in Nat, pool_free(p, i)
    PROVE  \E c \in ChunkIds : Freed(p, i, c)
  <1>1. PICK t \in Nat : Stacked(t)
    BY DEF PInv
  <1>2. <<p, i>> \in held
    BY DEF pool_free
  <1>3. p \in LivePools /\ i < pool[p].capacity
    BY <1>2 DEF PInv, HeldLive
  <1>4. pool[p].chunk_base \in Nat /\ pool[p].capacity \in Nat /\ Chunks(p) \subseteq ChunkIds
    BY <1>1, <1>3, ChunksApart
  <1>5. PICK c \in Nat : c = pool[p].chunk_base + i
    BY <1>4
  <1>6. c \in Chunks(p)
    BY <1>3, <1>4, <1>5 DEF Chunks
  <1>7. Marked(p)
    BY <1>3 DEF PInv
  <1>8. chunk[c].index = i
    <2>1. chunk[c].index = c - pool[p].chunk_base
      BY <1>6, <1>7 DEF Marked
    <2> QED
      BY <1>4, <1>5, <2>1
  <1>9. chunk[c].data = TRUE /\ ~OnList(p, c)
    BY <1>2, <1>6, <1>7, <1>8 DEF Marked
  <1>10. c \in ChunkIds /\ c = ChunkOf(p, i)
    BY <1>4, <1>5, <1>6 DEF ChunkOf
  <1>11. Freed(p, i, c)
    BY <1>3, <1>5, <1>6, <1>8, <1>9, <1>10 DEF pool_free, Freed
  <1> QED
    BY <1>10, <1>11

LEMMA FreeInv ==
    ASSUME PInv, NEW p \in PoolIds, NEW i \in Nat, NEW c \in ChunkIds, Freed(p, i, c)
    PROVE  PInv'
  <1> USE DEF PInv
  <1>0. PICK t \in Nat : Stacked(t)
    OBVIOUS
  <1>1. /\ p \in LivePools /\ c \in Chunks(p) /\ ~OnList(p, c)
        /\ chunk[c].index = i /\ c = pool[p].chunk_base + i
    BY DEF Freed
  <1>2. free[p] \in Seq(ChunkIds) /\ Len(free[p]) \in Nat
    BY LenProperties DEF TypeOK
  <1>3. /\ <<c>> \o free[p] \in Seq(ChunkIds)
        /\ Len(<<c>> \o free[p]) = Len(free[p]) + 1
        /\ (<<c>> \o free[p])[1] = c
        /\ \A j \in 1 .. Len(free[p]) : (<<c>> \o free[p])[j + 1] = free[p][j]
    <2>1. <<c>> \in Seq(ChunkIds) /\ Len(<<c>>) = 1 /\ <<c>>[1] = c
      OBVIOUS
    <2>2. /\ <<c>> \o free[p] \in Seq(ChunkIds)
          /\ Len(<<c>> \o free[p]) = Len(<<c>>) + Len(free[p])
          /\ \A j \in 1 .. Len(<<c>>) + Len(free[p]) : (<<c>> \o free[p])[j] =
                 IF j <= Len(<<c>>) THEN <<c>>[j] ELSE free[p][j - Len(<<c>>)]
      BY <1>2, <2>1, ConcatProperties, SMTT(60)
    <2> QED
      BY <1>2, <2>1, <2>2
  <1>4. Listed(p) /\ Marked(p)
    BY <1>1
  <1>5. /\ free'[p] = <<c>> \o free[p]
        /\ \A q \in PoolIds : q # p => pool'[q] = pool[q] /\ free'[q] = free[q]
        /\ \A q \in PoolIds : /\ pool'[q].chunk_base = pool[q].chunk_base
                             /\ pool'[q].capacity = pool[q].capacity
        /\ pool'[p].alloc = c
    BY DEF Freed, TypeOK
  <1>6. /\ \A d \in ChunkIds : d # c => chunk'[d] = chunk[d]
        /\ chunk'[c].index = chunk[c].index /\ chunk'[c].data = FALSE
    BY DEF Freed, TypeOK
  <1>7. /\ held' = held \ {<<p, i>>}
        /\ pool_mask' = pool_mask /\ chunk_mask' = chunk_mask /\ halt' = halt
    BY DEF Freed
  <1>8. /\ Stacked(t)' /\ LivePools' = LivePools
        /\ \A q \in PoolIds : Chunks(q)' = Chunks(q)
    BY <1>0, <1>5, <1>7, StackKept
  <1>9. TypeOK'
    <2>1. pool' \in [PoolIds -> [name : Names \cup {NULL}, capacity : Capacities \cup {0},
                      chunk_base : ChunkIds \cup {NULL}, alloc : ChunkIds \cup {NULL}]]
      <3>1. \A a \in ChunkIds \cup {NULL} : [pool[p] EXCEPT !.alloc = a] \in
                [name : Names \cup {NULL}, capacity : Capacities \cup {0},
                 chunk_base : ChunkIds \cup {NULL}, alloc : ChunkIds \cup {NULL}]
        BY ZenonT(60) DEF TypeOK
      <3> QED
        BY <3>1 DEF TypeOK, Freed
    <2>2. free' \in [PoolIds -> Seq(ChunkIds)]
      BY <1>3 DEF TypeOK, Freed
    <2>3. chunk' \in [ChunkIds -> [index : Nat, data : BOOLEAN]]
      <3>1. [chunk[c] EXCEPT !.data = FALSE] \in [index : Nat, data : BOOLEAN]
        BY DEF TypeOK
      <3> QED
        BY <3>1 DEF TypeOK, Freed
    <2>4. held' \subseteq PoolIds \X Nat
      BY <1>7 DEF TypeOK
    <2> QED
      BY <1>7, <2>1, <2>2, <2>3, <2>4 DEF TypeOK
  <1>10. Unused'
    <2>1. \A q \in pool_mask : q # p /\ q \in PoolIds
      BY <1>1 DEF LivePools, TypeOK
    <2> QED
      BY <1>5, <1>7, <2>1 DEF Unused
  <1>11. ASSUME NEW q \in LivePools, q # p PROVE (Listed(q) /\ Marked(q))'
    <2>1. q \in PoolIds /\ Listed(q) /\ Marked(q)
      BY DEF LivePools
    <2>2. pool'[q] = pool[q] /\ free'[q] = free[q]
      BY <1>5, <1>11, <2>1
    <2>3. \A d \in Chunks(q) : chunk'[d] = chunk[d]
      BY <1>0, <1>1, <1>6, <1>11, ChunksApart
    <2>4. \A j : <<q, j>> \in held' <=> <<q, j>> \in held
      BY <1>7, <1>11
    <2> QED
      BY <2>1, <2>2, <2>3, <2>4, PoolKept
  <1>12. Chunks(p)' = Chunks(p) /\ Chunks(p) \subseteq ChunkIds /\ pool[p].chunk_base \in Nat
    BY <1>0, <1>1, <1>8, ChunksApart
  <1>13. /\ Len(free'[p]) = Len(free[p]) + 1 /\ free'[p][1] = c
         /\ \A j \in 2 .. Len(free[p]) + 1 : /\ j - 1 \in 1 .. Len(free[p])
                                           /\ free'[p][j] = free[p][j - 1]
    <2>1. \A j \in 1 .. Len(free[p]) : free'[p][j + 1] = free[p][j]
      BY <1>3, <1>5
    <2>2. \A j \in 2 .. Len(free[p]) + 1 : /\ j - 1 \in 1 .. Len(free[p])
                                         /\ free'[p][(j - 1) + 1] = free[p][j - 1]
                                         /\ (j - 1) + 1 = j
      BY <1>2, <2>1, SMTT(60)
    <2> QED
      BY <1>3, <1>5, <2>2
  <1>14. Listed(p)'
    <2>1. \A j \in 1 .. Len(free[p]) : free[p][j] \in Chunks(p) /\ free[p][j] # c
      BY <1>1, <1>4 DEF Listed, OnList
    <2>2. \A j \in 1 .. Len(free[p]) + 1 : j = 1 \/ j \in 2 .. Len(free[p]) + 1
      BY <1>2
    <2>3. \A j \in 1 .. Len(free[p]) + 1 : free'[p][j] \in Chunks(p)
      BY <1>1, <1>13, <2>1, <2>2
    <2>4. \A j, k \in 1 .. Len(free[p]) + 1 : free'[p][j] = free'[p][k] => j = k
      <3> SUFFICES ASSUME NEW j \in 1 .. Len(free[p]) + 1, NEW k \in 1 .. Len(free[p]) + 1,
                          free'[p][j] = free'[p][k]
                   PROVE  j = k
        OBVIOUS
      <3>1. \A a, b \in 1 .. Len(free[p]) : free[p][a] = free[p][b] => a = b
        BY <1>4 DEF Listed
      <3>2. CASE j = 1
        BY <1>13, <2>1, <2>2, <3>2
      <3>3. CASE k = 1
        BY <1>13, <2>1, <2>2, <3>3
      <3>4. CASE j # 1 /\ k # 1
        <4>1. /\ j - 1 \in 1 .. Len(free[p]) /\ k - 1 \in 1 .. Len(free[p])
              /\ free[p][j - 1] = free[p][k - 1]
          BY <1>13, <2>2, <3>4
        <4>2. j - 1 = k - 1
          BY <3>1, <4>1
        <4> QED
          BY <4>2
      <3> QED
        BY <3>2, <3>3, <3>4
    <2> QED
      BY <1>5, <1>12, <1>13, <2>3, <2>4 DEF Listed
  <1>15. Marked(p)'
    <2>1. \A d : OnList(p, d)' <=> OnList(p, d) \/ d = c
      <3>1. ASSUME NEW d, OnList(p, d)', d # c PROVE OnList(p, d)
        <4>1. PICK j \in 1 .. Len(free'[p]) : free'[p][j] = d
          BY <3>1 DEF OnList
        <4>2. j \in 2 .. Len(free[p]) + 1
          BY <1>2, <1>13, <3>1, <4>1
        <4> QED
          BY <1>13, <4>1, <4>2 DEF OnList
      <3>2. ASSUME NEW d, OnList(p, d) PROVE OnList(p, d)'
        <4>1. PICK j \in 1 .. Len(free[p]) : free[p][j] = d
          BY <3>2 DEF OnList
        <4>2. j + 1 \in 2 .. Len(free[p]) + 1 /\ j + 1 \in 1 .. Len(free[p]) + 1
          BY <1>2, <4>1
        <4>3. free'[p][j + 1] = d
          BY <1>3, <1>5, <4>1
        <4> QED
          BY <1>13, <4>2, <4>3 DEF OnList
      <3>3. OnList(p, c)'
        <4>1. 1 \in 1 .. Len(free'[p])
          BY <1>2, <1>13
        <4> QED
          BY <1>13, <4>1 DEF OnList
      <3> QED
        BY <3>1, <3>2, <3>3
    <2> SUFFICES ASSUME NEW d \in Chunks(p)
                 PROVE  /\ chunk'[d].index = d - pool[p].chunk_base
                        /\ chunk'[d].data = TRUE <=> <<p, chunk'[d].index>> \in held'
                        /\ chunk'[d].data = FALSE <=> OnList(p, d)'
      BY <1>5, <1>12 DEF Marked
    <2>2. d \in ChunkIds /\ d \in Nat /\ c \in Nat
      BY <1>12
    <2>3. /\ chunk[d].index = d - pool[p].chunk_base
          /\ chunk[d].data = TRUE <=> <<p, chunk[d].index>> \in held
          /\ chunk[d].data = FALSE <=> OnList(p, d)
      BY <1>4 DEF Marked
    <2>4. CASE d = c
      BY <1>1, <1>6, <1>7, <2>1, <2>3, <2>4
    <2>5. CASE d # c
      <3>1. chunk'[d] = chunk[d]
        BY <1>6, <2>2, <2>5
      <3>2. chunk[d].index # i
        BY <1>1, <1>12, <2>2, <2>3, <2>5
      <3> QED
        BY <1>7, <2>1, <2>3, <2>5, <3>1, <3>2
    <2> QED
      BY <2>4, <2>5
  <1>16. HeldLive'
    BY <1>5, <1>7, <1>8 DEF HeldLive
  <1> QED
    BY <1>7, <1>8, <1>9, <1>10, <1>11, <1>14, <1>15, <1>16 DEF Sound

-----------------------------------------------------------------------------
(* A call that changes no descriptor. *)
Quiet ==
    /\ UNCHANGED <<pool, free, chunk, pool_mask, chunk_mask, held>>
    /\ halt' = halt \/ halt' = "full"

LEMMA QuietInv ==
    ASSUME PInv, Quiet
    PROVE  PInv'
  <1> USE DEF PInv, Quiet
  <1>1. TypeOK'
    BY DEF TypeOK
  <1>2. Unused' /\ HeldLive' /\ LivePools' = LivePools
    BY DEF Unused, HeldLive, LivePools
  <1>3. \A t \in Nat : Stacked(t)' <=> Stacked(t)
    BY <1>2 DEF Stacked, Chunks, End
  <1>4. \A p : (Listed(p)' <=> Listed(p)) /\ (Marked(p)' <=> Marked(p))
    BY DEF Listed, Marked, OnList, Chunks
  <1> QED
    BY <1>1, <1>2, <1>3, <1>4 DEF Sound

(* The disjuncts of Next, by what they do. *)
LEMMA NextCases ==
    ASSUME PInv, Next
    PROVE  \/ \E t \in Nat, p \in PoolIds, name \in Names, n \in Capacities :
                  Stacked(t) /\ Created(t, p, name, n)
           \/ Panic("full")
           \/ \E name \in Names : find_pool(name)
           \/ \E p \in PoolIds : pool_destroy(p)
           \/ \E p \in PoolIds : pool_alloc_null(p)
           \/ \E p \in PoolIds, item \in held \cup {NULL} : pool_free_refused(p, item)
           \/ \E p \in PoolIds, c \in ChunkIds : Allocated(p, c)
           \/ \E p \in PoolIds, i \in Nat, c \in ChunkIds : Freed(p, i, c)
  <1>1. CASE \E name \in Names, n \in Capacities : pool_create(name, n)
    <2>1. PICK name \in Names, n \in Capacities : pool_create(name, n)
      BY <1>1
    <2>2. PICK t \in Nat : Stacked(t)
      BY DEF PInv
    <2> QED
      BY <2>1, <2>2, CreateStep, Zenon
  <1>2. CASE \E p \in PoolIds : pool_alloc(p)
    BY <1>2, AllocStep, Zenon
  <1>3. CASE \E p \in PoolIds : \E i \in 0 .. pool[p].capacity - 1 : pool_free(p, i)
    <2>1. PICK p \in PoolIds : \E i \in 0 .. pool[p].capacity - 1 : pool_free(p, i)
      BY <1>3, Zenon
    <2>2. pool[p].capacity \in Nat
      <3>1. pool[p].capacity \in Capacities \cup {0}
        BY DEF PInv, TypeOK
      <3>2. \A x \in Capacities \cup {0} : x \in Nat
        OBVIOUS
      <3> QED
        BY <3>1, <3>2, Zenon
    <2>3. PICK i \in Nat : pool_free(p, i)
      BY <2>1, <2>2
    <2> QED
      BY <2>3, FreeStep, Zenon
  <1> QED
    BY <1>1, <1>2, <1>3, Zenon DEF Next

LEMMA NextInv ==
    ASSUME AnyOrder = FALSE, PInv, [Next]_pvars
    PROVE  PInv'
  <1>1. CASE UNCHANGED pvars
    BY <1>1, QuietInv DEF pvars, Quiet
  <1>2. CASE \E t \in Nat, p \in PoolIds, name \in Names, n \in Capacities :
                Stacked(t) /\ Created(t, p, name, n)
    BY <1>2, CreateInv, Zenon
  <1>3. CASE \E p \in PoolIds : pool_destroy(p)
    <2>1. PICK t \in Nat : Stacked(t)
      BY DEF PInv
    <2> QED
      BY <1>3, <2>1, DestroyInv, Zenon
  <1>4. CASE \E p \in PoolIds, c \in ChunkIds : Allocated(p, c)
    BY <1>4, AllocInv, Zenon
  <1>5. CASE \E p \in PoolIds, i \in Nat, c \in ChunkIds : Freed(p, i, c)
    BY <1>5, FreeInv, Zenon
  <1>6. CASE Panic("full")
    BY <1>6, QuietInv DEF Panic, Quiet
  <1>7. CASE \E name \in Names : find_pool(name)
    BY <1>7, QuietInv DEF find_pool, Quiet
  <1>8. CASE \E p \in PoolIds : pool_alloc_null(p)
    BY <1>8, QuietInv DEF pool_alloc_null, Quiet
  <1>9. CASE \E p \in PoolIds, item \in held \cup {NULL} : pool_free_refused(p, item)
    BY <1>9, QuietInv DEF pool_free_refused, Quiet
  <1> QED
    BY <1>1, <1>2, <1>3, <1>4, <1>5, <1>6, <1>7, <1>8, <1>9, NextCases, Zenon

(* For any number of pools and chunks and any capacities, as long as pools are *)
(* destroyed last created first: pools share no chunk, every free list holds   *)
(* exactly the chunks whose items nobody holds, and neither assertion of       *)
(* pool_alloc and pool_free fails.                                             *)
THEOREM PoolsApart ==
    AnyOrder = FALSE => (Spec => [](NoCrosstalk /\ AssertsHold))
  <1> SUFFICES ASSUME AnyOrder = FALSE
               PROVE  Spec => [](NoCrosstalk /\ AssertsHold)
    OBVIOUS
  <1>1. PInv /\ [Next]_pvars => PInv'
    BY NextInv
  <1>2. PInv => NoCrosstalk
    <2> SUFFICES ASSUME PInv, NEW p \in PoolIds, Live(p)
                 PROVE  /\ Chunks(p) \subseteq ChunkIds \ chunk_mask
                        /\ \A q \in PoolIds : Live(q) /\ q # p => Chunks(p) \cap Chunks(q) = {}
                        /\ \A c \in Chunks(p) :
                              /\ chunk[c].index = c - pool[p].chunk_base
                              /\ chunk[c].data <=> <<p, chunk[c].index>> \in held
                              /\ ~chunk[c].data <=> \E i \in DOMAIN free[p] : free[p][i] = c
      BY Zenon DEF NoCrosstalk
    <2>1. PICK t \in Nat : Stacked(t)
      BY DEF PInv
    <2>2. p \in LivePools /\ \A q \in PoolIds : Live(q) => q \in LivePools
      BY DEF Live, LivePools
    <2>3. /\ Chunks(p) \subseteq 0 .. t - 1 /\ Chunks(p) \subseteq ChunkIds
          /\ \A q \in LivePools : q # p => Chunks(p) \cap Chunks(q) = {}
      BY <2>1, <2>2, ChunksApart, Zenon
    <2>4. chunk_mask = t .. MAX_NR_POOL_ITEMS - 1
      BY <2>1 DEF Stacked
    <2>5. Chunks(p) \subseteq ChunkIds \ chunk_mask
      BY <2>3, <2>4
    <2>6. DOMAIN free[p] = 1 .. Len(free[p])
      BY LenProperties DEF PInv, TypeOK
    <2>7. \A c \in Chunks(p) : chunk[c].data \in BOOLEAN
      BY <2>3 DEF PInv, TypeOK
    <2>8. Marked(p)
      BY <2>2 DEF PInv
    <2>9. ASSUME NEW c \in Chunks(p)
          PROVE  /\ chunk[c].index = c - pool[p].chunk_base
                 /\ chunk[c].data <=> <<p, chunk[c].index>> \in held
                 /\ ~chunk[c].data <=> \E i \in DOMAIN free[p] : free[p][i] = c
      <3>1. /\ chunk[c].index = c - pool[p].chunk_base
            /\ chunk[c].data = TRUE <=> <<p, chunk[c].index>> \in held
            /\ chunk[c].data = FALSE <=> \E i \in DOMAIN free[p] : free[p][i] = c
        BY <2>6, <2>8, Zenon DEF Marked, OnList
      <3> QED
        BY <2>7, <3>1, Zenon
    <2> QED
      BY <2>2, <2>3, <2>5, <2>9, Zenon
  <1>3. PInv => AssertsHold
    BY DEF PInv, Sound, AssertsHold
  <1> QED
    BY <1>1, <1>2, <1>3, InitInv, PTL DEF Spec

(* The assertions by themselves: pool_alloc never finds data in a chunk of    *)
(* the free list, and pool_free never finds a chunk without data.             *)
THEOREM PoolAssertsHold ==
    AnyOrder = FALSE => (Spec => []AssertsHold)
  BY PoolsApart, PTL

-----------------------------------------------------------------------------
(* The items of p that are in use, and what the last call gave out, as A sees them. *)
Used(p) == {i \in 0 .. pool[p].capacity - 1 : chunk[pool[p].chunk_base + i].data}

Given == IF ret = NULL \/ Len(ret) = 1 THEN NULL ELSE ret

(* A step after which p has the size and the items in use that it had. *)
Same(p) == pool'[p].capacity = pool[p].capacity /\ Used(p)' = Used(p)

(* An existing pool none of whose chunks a step touches. *)
LEMMA SameKept ==
    ASSUME PInv, NEW p \in PoolIds,
           pool'[p].capacity = pool[p].capacity, pool'[p].chunk_base = pool[p].chunk_base,
           p \in LivePools => \A c \in Chunks(p) : chunk'[c] = chunk[c]
    PROVE  Same(p)
  <1>1. CASE p \in LivePools
    <2>1. pool[p].chunk_base \in Nat /\ pool[p].capacity \in Nat
      BY <1>1, ChunksApart DEF PInv
    <2>2. \A i \in 0 .. pool[p].capacity - 1 : pool[p].chunk_base + i \in Chunks(p)
      BY <2>1 DEF Chunks
    <2>3. \A i \in 0 .. pool[p].capacity - 1 :
             chunk'[pool[p].chunk_base + i] = chunk[pool[p].chunk_base + i]
      BY <1>1, <2>2
    <2> QED
      BY <2>3 DEF Same, Used
  <1>2. CASE p \notin LivePools
    <2>1. pool[p].capacity = 0
      BY <1>2 DEF PInv, Unused, LivePools, NoPool
    <2>2. 0 .. pool[p].capacity - 1 = {}
      BY <2>1
    <2> QED
      BY <2>2 DEF Same, Used
  <1> QED
    BY <1>1, <1>2

LEMMA CreateRefines ==
    ASSUME PInv, NEW t \in Nat, Stacked(t), NEW name \in Names, NEW n \in Capacities,
           NEW p \in PoolIds, Created(t, p, name, n)
    PROVE  A!Create(p, n)
  <1>1. pool[p].capacity = 0 /\ pool'[p].capacity = n /\ pool'[p].chunk_base = t
    BY DEF PInv, Unused, Created, NoPool, TypeOK
  <1>2. Used(p) = {}
    <2>1. 0 .. pool[p].capacity - 1 = {}
      BY <1>1
    <2> QED
      BY <2>1 DEF Used
  <1>3. Used(p)' = {}
    <2>1. n \in Nat
      OBVIOUS
    <2>2. \A i \in 0 .. n - 1 : t + i \in t .. t + n - 1 /\ t + i \in ChunkIds
      BY <2>1 DEF Created
    <2>3. \A i \in 0 .. n - 1 : chunk'[t + i].data = FALSE
      BY <2>2 DEF Created
    <2> QED
      BY <1>1, <2>3 DEF Used
  <1>4. \A q \in PoolIds : q # p => Same(q)
    <2> SUFFICES ASSUME NEW q \in PoolIds, q # p PROVE Same(q)
      OBVIOUS
    <2>1. pool'[q] = pool[q]
      BY DEF Created, PInv, TypeOK
    <2>2. ASSUME q \in LivePools, NEW c \in Chunks(q) PROVE chunk'[c] = chunk[c]
      <3>1. c \in 0 .. t - 1 /\ c \in ChunkIds
        BY <2>2, ChunksApart
      <3> QED
        BY <3>1 DEF Created
    <2> QED
      BY <2>1, <2>2, SameKept
  <1>5. Given' = NULL
    BY DEF Given, Created
  <1>6. [q \in PoolIds |-> pool'[q].capacity] =
           [[q \in PoolIds |-> pool[q].capacity] EXCEPT ![p] = n]
    BY <1>1, <1>4 DEF Same
  <1>7. [q \in PoolIds |-> Used(q)'] = [q \in PoolIds |-> Used(q)]
    BY <1>2, <1>3, <1>4 DEF Same
  <1> QED
    BY <1>1, <1>5, <1>6, <1>7 DEF A!Create, Used, Given

LEMMA DestroyRefines ==
    ASSUME PInv, AnyOrder = FALSE, NEW p \in PoolIds, pool_destroy(p)
    PROVE  A!Destroy(p)
  <1>0. PICK t \in Nat : Stacked(t)
    BY DEF PInv
  <1>1. p \in LivePools
    BY DEF pool_destroy, Live, LivePools
  <1>2. pool'[p].capacity = 0
    BY DEF pool_destroy, PInv, TypeOK, NoPool
  <1>3. Used(p)' = {}
    <2>1. 0 .. pool'[p].capacity - 1 = {}
      BY <1>2
    <2> QED
      BY <2>1 DEF Used
  <1>4. \A q \in PoolIds : q # p => Same(q)
    <2> SUFFICES ASSUME NEW q \in PoolIds, q # p PROVE Same(q)
      OBVIOUS
    <2>1. pool'[q] = pool[q]
      BY DEF pool_destroy, PInv, TypeOK
    <2>2. ASSUME q \in LivePools, NEW c \in Chunks(q) PROVE chunk'[c] = chunk[c]
      <3>1. pool[p].chunk_base \in Chunks(p)
        BY <1>0, <1>1, ChunksApart DEF Chunks
      <3>2. c \in ChunkIds /\ c # pool[p].chunk_base
        BY <1>0, <1>1, <2>2, <3>1, ChunksApart
      <3> QED
        BY <3>2 DEF pool_destroy, PInv, TypeOK
    <2> QED
      BY <2>1, <2>2, SameKept
  <1>5. Given' = NULL
    BY DEF Given, pool_destroy
  <1>6. [q \in PoolIds |-> pool'[q].capacity] =
           [[q \in PoolIds |-> pool[q].capacity] EXCEPT ![p] = 0]
    BY <1>2, <1>4 DEF Same
  <1>7. [q \in PoolIds |-> Used(q)'] = [[q \in PoolIds |-> Used(q)] EXCEPT ![p] = {}]
    BY <1>3, <1>4 DEF Same
  <1> QED
    BY <1>5, <1>6, <1>7 DEF A!Destroy, Used, Given

(* The items of an existing pool by their chunks. *)
LEMMA ItemOf ==
    ASSUME PInv, NEW p \in LivePools, NEW c \in Chunks(p)
    PROVE  /\ pool[p].chunk_base \in Nat /\ pool[p].capacity \in Nat /\ c \in ChunkIds
           /\ chunk[c].index = c - pool[p].chunk_base
           /\ chunk[c].index \in 0 .. pool[p].capacity - 1
           /\ pool[p].chunk_base + chunk[c].index = c
           /\ \A i \in 0 .. pool[p].capacity - 1 :
                 /\ pool[p].chunk_base + i \in Chunks(p)
                 /\ i # chunk[c].index => pool[p].chunk_base + i # c
  <1>1. /\ pool[p].chunk_base \in Nat /\ pool[p].capacity \in Nat /\ c \in ChunkIds
        /\ chunk[c].index = c - pool[p].chunk_base
    BY ChunksApart DEF PInv, Marked
  <1>2. c \in Nat /\ pool[p].chunk_base <= c /\ c < pool[p].chunk_base + pool[p].capacity
    BY <1>1 DEF Chunks
  <1> QED
    BY <1>1, <1>2 DEF Chunks

LEMMA AllocRefines ==
    ASSUME PInv, NEW p \in PoolIds, NEW c \in ChunkIds, Allocated(p, c)
    PROVE  \E i \in 0 .. pool[p].capacity - 1 : A!Alloc(p, i)
  <1>0. PICK t \in Nat : Stacked(t)
    BY DEF PInv
  <1>1. p \in LivePools /\ c \in Chunks(p) /\ chunk[c].data = FALSE
    BY DEF Allocated
  <1>2. PICK i : i = chunk[c].index
    OBVIOUS
  <1>3. /\ i \in 0 .. pool[p].capacity - 1 /\ pool[p].chunk_base + i = c
        /\ \A j \in 0 .. pool[p].capacity - 1 :
              /\ pool[p].chunk_base + j \in ChunkIds
              /\ j # i => pool[p].chunk_base + j # c
    BY <1>0, <1>1, <1>2, ItemOf, ChunksApart
  <1>4. i \notin Used(p)
    BY <1>1, <1>3 DEF Used
  <1>5. \A q \in PoolIds : /\ pool'[q].capacity = pool[q].capacity
                          /\ pool'[q].chunk_base = pool[q].chunk_base
    BY ZenonT(60) DEF Allocated, PInv, TypeOK
  <1>6. /\ \A d \in ChunkIds : d # c => chunk'[d] = chunk[d]
        /\ chunk'[c].data = TRUE
    BY DEF Allocated, PInv, TypeOK
  <1>7. Used(p)' = Used(p) \cup {i}
    <2>1. \A j \in 0 .. pool[p].capacity - 1 :
             j # i => chunk'[pool[p].chunk_base + j] = chunk[pool[p].chunk_base + j]
      BY <1>3, <1>6
    <2>2. chunk'[pool[p].chunk_base + i].data = TRUE
      BY <1>3, <1>6
    <2> QED
      BY <1>3, <1>5, <2>1, <2>2 DEF Used
  <1>8. \A q \in PoolIds : q # p => Same(q)
    <2> SUFFICES ASSUME NEW q \in PoolIds, q # p PROVE Same(q)
      OBVIOUS
    <2>1. ASSUME q \in LivePools, NEW d \in Chunks(q) PROVE chunk'[d] = chunk[d]
      <3>1. d \in ChunkIds /\ d # c
        BY <1>0, <1>1, <2>1, ChunksApart
      <3> QED
        BY <1>6, <3>1
    <2> QED
      BY <1>5, <2>1, SameKept
  <1>9. Given' = <<p, i>>
    BY <1>2 DEF Given, Allocated
  <1>10. [q \in PoolIds |-> pool'[q].capacity] = [q \in PoolIds |-> pool[q].capacity]
    BY <1>5
  <1>11. [q \in PoolIds |-> Used(q)'] =
            [[q \in PoolIds |-> Used(q)] EXCEPT ![p] = Used(p) \cup {i}]
    BY <1>7, <1>8 DEF Same
  <1>12. A!Alloc(p, i)
    BY <1>3, <1>4, <1>9, <1>10, <1>11 DEF A!Alloc, Used, Given
  <1> QED
    BY <1>3, <1>12

LEMMA FreeRefines ==
    ASSUME PInv, NEW p \in PoolIds, NEW i \in Nat, NEW c \in ChunkIds, Freed(p, i, c)
    PROVE  i \in 0 .. pool[p].capacity - 1 /\ A!Free(p, i)
  <1>0. PICK t \in Nat : Stacked(t)
    BY DEF PInv
  <1>1. p \in LivePools /\ c \in Chunks(p) /\ chunk[c].data = TRUE /\ i = chunk[c].index
    BY DEF Freed
  <1>3. /\ i \in 0 .. pool[p].capacity - 1 /\ pool[p].chunk_base + i = c
        /\ \A j \in 0 .. pool[p].capacity - 1 :
              /\ pool[p].chunk_base + j \in ChunkIds
              /\ j # i => pool[p].chunk_base + j # c
    BY <1>0, <1>1, ItemOf, ChunksApart
  <1>4. i \in Used(p)
    BY <1>1, <1>3 DEF Used
  <1>5. \A q \in PoolIds : /\ pool'[q].capacity = pool[q].capacity
                          /\ pool'[q].chunk_base = pool[q].chunk_base
    BY DEF Freed, PInv, TypeOK
  <1>6. /\ \A d \in ChunkIds : d # c => chunk'[d] = chunk[d]
        /\ chunk'[c].data = FALSE
    BY DEF Freed, PInv, TypeOK
  <1>7. Used(p)' = Used(p) \ {i}
    <2>1. \A j \in 0 .. pool[p].capacity - 1 :
             j # i => chunk'[pool[p].chunk_base + j] = chunk[pool[p].chunk_base + j]
      BY <1>3, <1>6
    <2>2. chunk'[pool[p].chunk_base + i].data = FALSE
      BY <1>3, <1>6
    <2> QED
      BY <1>3, <1>5, <2>1, <2>2 DEF Used
  <1>8. \A q \in PoolIds : q # p => Same(q)
    <2> SUFFICES ASSUME NEW q \in PoolIds, q # p PROVE Same(q)
      OBVIOUS
    <2>1. ASSUME q \in LivePools, NEW d \in Chunks(q) PROVE chunk'[d] = chunk[d]
      <3>1. d \in ChunkIds /\ d # c
        BY <1>0, <1>1, <2>1, ChunksApart
      <3> QED
        BY <1>6, <3>1
    <2> QED
      BY <1>5, <2>1, SameKept
  <1>9. Given' = NULL
    BY DEF Given, Freed
  <1>10. [q \in PoolIds |-> pool'[q].capacity] = [q \in PoolIds |-> pool[q].capacity]
    BY <1>5
  <1>11. [q \in PoolIds |-> Used(q)'] =
            [[q \in PoolIds |-> Used(q)] EXCEPT ![p] = Used(p) \ {i}]
    BY <1>7, <1>8 DEF Same
  <1>12. A!Free(p, i)
    BY <1>4, <1>9, <1>10, <1>11 DEF A!Free, Used, Given
  <1> QED
    BY <1>3, <1>12

(* pool_alloc returns no item only when all are in use. *)
LEMMA AllocNullRefines ==
    ASSUME PInv, NEW p \in PoolIds, pool_alloc_null(p)
    PROVE  A!AllocFails(p)
  <1>1. Used(p) = 0 .. pool[p].capacity - 1
    <2>1. CASE p \notin LivePools
      <3>1. pool[p].capacity = 0
        BY <2>1 DEF PInv, Unused, LivePools, NoPool
      <3>2. 0 .. pool[p].capacity - 1 = {}
        BY <3>1
      <3> QED
        BY <3>2 DEF Used
    <2>2. CASE p \in LivePools
      <3>1. free[p] = <<>>
        BY <2>2 DEF pool_alloc_null, Live, LivePools
      <3>2. \A c : ~OnList(p, c)
        <4>1. Len(free[p]) = 0
          BY <3>1
        <4>2. 1 .. Len(free[p]) = {}
          BY <4>1
        <4> QED
          BY <4>2 DEF OnList
      <3>3. PICK t \in Nat : Stacked(t)
        BY DEF PInv
      <3>4. /\ Chunks(p) \subseteq ChunkIds
            /\ pool[p].chunk_base \in Nat /\ pool[p].capacity \in Nat
        BY <2>2, <3>3, ChunksApart
      <3>5. \A c \in Chunks(p) : chunk[c].data \in BOOLEAN /\ chunk[c].data # FALSE
        BY <2>2, <3>2, <3>4 DEF PInv, TypeOK, Marked
      <3>6. \A c \in Chunks(p) : chunk[c].data
        BY <3>5, Zenon
      <3>7. \A i \in 0 .. pool[p].capacity - 1 : pool[p].chunk_base + i \in Chunks(p)
        BY <3>4 DEF Chunks
      <3> QED
        BY <3>6, <3>7 DEF Used
    <2> QED
      BY <2>1, <2>2
  <1>2. Given' = <<p, NULL>>
    BY DEF Given, pool_alloc_null
  <1>3. /\ [q \in PoolIds |-> pool'[q].capacity] = [q \in PoolIds |-> pool[q].capacity]
        /\ [q \in PoolIds |-> Used(q)'] = [q \in PoolIds |-> Used(q)]
    BY DEF pool_alloc_null, Used
  <1> QED
    BY <1>1, <1>2, <1>3 DEF A!AllocFails, Used, Given

LEMMA StepRefines ==
    ASSUME AnyOrder = FALSE, PInv, [Next]_pvars
    PROVE  [A!ANext]_(A!avars)
  <1> USE DEF A!ANext
  <1>1. CASE UNCHANGED pvars
    BY <1>1 DEF pvars, A!avars
  <1>2. CASE \E t \in Nat, p \in PoolIds, name \in Names, n \in Capacities :
                Stacked(t) /\ Created(t, p, name, n)
    <2>1. \E p \in PoolIds, n \in Capacities : A!Create(p, n)
      BY <1>2, CreateRefines, Zenon
    <2> QED
      BY <2>1, Zenon
  <1>3. CASE \E p \in PoolIds : pool_destroy(p)
    <2>1. \E p \in PoolIds : A!Destroy(p)
      BY <1>3, DestroyRefines, Zenon
    <2> QED
      BY <2>1, Zenon
  <1>4. CASE \E p \in PoolIds, c \in ChunkIds : Allocated(p, c)
    <2>1. PICK p \in PoolIds : \E i \in 0 .. pool[p].capacity - 1 : A!Alloc(p, i)
      BY <1>4, AllocRefines, Zenon
    <2>2. [q \in PoolIds |-> pool[q].capacity][p] = pool[p].capacity
      OBVIOUS
    <2> QED
      BY <2>1, <2>2, Zenon
  <1>5. CASE \E p \in PoolIds, i \in Nat, c \in ChunkIds : Freed(p, i, c)
    <2>1. PICK p \in PoolIds : \E i \in 0 .. pool[p].capacity - 1 : A!Free(p, i)
      BY <1>5, FreeRefines, Zenon
    <2>2. [q \in PoolIds |-> pool[q].capacity][p] = pool[p].capacity
      OBVIOUS
    <2> QED
      BY <2>1, <2>2, Zenon
  <1>6. CASE \E p \in PoolIds : pool_alloc_null(p)
    <2>1. \E p \in PoolIds : A!AllocFails(p)
      BY <1>6, AllocNullRefines, Zenon
    <2> QED
      BY <2>1, Zenon
  <1>7. ASSUME UNCHANGED <<pool, chunk>>, Given' = NULL
        PROVE  A!Refuse
    BY <1>7 DEF A!Refuse, Given
  <1>8. CASE Panic("full")
    BY <1>7, <1>8 DEF Panic, Given
  <1>9. CASE \E name \in Names : find_pool(name)
    <2>1. UNCHANGED <<pool, chunk>> /\ (ret' = NULL \/ \E p : ret' = <<p>>)
      BY <1>9 DEF find_pool
    <2>2. Given' = NULL
      BY <2>1 DEF Given
    <2> QED
      BY <1>7, <2>1, <2>2
  <1>10. CASE \E p \in PoolIds, item \in held \cup {NULL} : pool_free_refused(p, item)
    BY <1>7, <1>10 DEF pool_free_refused, Given
  <1> QED
    BY <1>1, <1>2, <1>3, <1>4, <1>5, <1>6, <1>8, <1>9, <1>10, NextCases, Zenon

(* The pools implement the allocator of pool.h, for any number of pools and   *)
(* chunks: an item handed out is in use by nobody else, and an allocation     *)
(* fails only when every item of the pool is in use.                          *)
THEOREM PoolsAllocate ==
    AnyOrder = FALSE => (Spec => ImplementsAllocator)
  <1> SUFFICES ASSUME AnyOrder = FALSE
               PROVE  Spec => ImplementsAllocator
    OBVIOUS
  <1>1. PInv /\ [Next]_pvars => PInv'
    BY NextInv
  <1>2. Init => A!AInit
    <2> SUFFICES ASSUME Init PROVE A!AInit
      OBVIOUS
    <2>1. \A p \in PoolIds : pool[p].capacity = 0
      BY DEF Init, NoPool
    <2>2. \A p \in PoolIds : Used(p) = {}
      <3>1. \A p \in PoolIds : 0 .. pool[p].capacity - 1 = {}
        BY <2>1
      <3> QED
        BY <3>1 DEF Used
    <2>3. ret = NULL
      BY DEF Init
    <2> QED
      BY <2>1, <2>2, <2>3 DEF A!AInit, Used
  <1>3. PInv /\ [Next]_pvars => [A!ANext]_(A!avars)
    BY StepRefines
  <1> QED
    BY <1>1, <1>2, <1>3, InitInv, PTL DEF Spec, ImplementsAllocator, A!AllocatorSpec
=============================================================================
