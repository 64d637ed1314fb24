------------------------------ MODULE FatTable ------------------------------
(* The file allocation table of tools/fatfs: 12-bit entries packed into bytes
   (fat.c) and the searches FatDisk makes in it (FatDisk.cpp).  A table is a
   function from 0..(bytes - 1) to byte values; every index, shift and mask of
   the C code is kept.  FAT16 volumes, which need more than 4084 clusters, are
   out of a model checker's reach: the 16-bit branches are left out. *)
EXTENDS Integers, Sequences, FiniteSets

CONSTANT ClusterCount      \* GetClusterCount(): data clusters of the volume

ASSUME ClusterCountAssumption == ClusterCount \in 1..4084

CLUSTER_FREE     == 0
CLUSTER_RESERVED == 1
CLUSTER_FIRST    == 2
CLUSTER_BAD_12   == 4087
CLUSTER_EOC_12   == 4095

\* Bytes a table needs for the two reserved entries and every cluster, rounded
\* up so that the 16-bit access to the last entry stays inside.
FatBytes == ((ClusterCount + 2) * 3) \div 2 + 1

\* The little-endian 16-bit word at byte i, and a table with it replaced.
Word(fat, i) == fat[i] + 256 * fat[i + 1]

PutWord(fat, i, w) == [fat EXCEPT ![i] = w % 256, ![i + 1] = (w \div 256) % 256]

GetCluster12(fat, index) ==
  LET pair == Word(fat, index + (index \div 2))
  IN IF index % 2 = 1 THEN pair \div 16 ELSE pair % 4096

\* A plausible slip: an even entry's store wipes the neighbour's four bits.
SetCluster12_wipe(fat, index, value) ==
  LET i == index + (index \div 2)
  IN PutWord(fat, i, IF index % 2 = 1 THEN (Word(fat, i) % 16) + 16 * value
                                      ELSE value % 4096)

\* The store keeps the four bits of the neighbouring entry in the shared byte.
SetCluster12(fat, index, value) ==
  LET i    == index + (index \div 2)
      pair == Word(fat, i)
  IN PutWord(fat, i, IF index % 2 = 1 THEN (pair % 16) + 16 * value
                                      ELSE (pair \div 4096) * 4096 + (value % 4096))

InitFat12(mediaType) ==
  LET zero == [i \in 0..(FatBytes - 1) |-> 0]
  IN SetCluster12(SetCluster12(zero, 0, 3840 + mediaType), 1, CLUSTER_EOC_12)

-----------------------------------------------------------------------------
(* FatDisk's view of the table. *)

GetClusterNumberEOC(fat) == GetCluster12(fat, 1)

IsClusterNumberEOC(c) == c < CLUSTER_FIRST \/ c = CLUSTER_BAD_12 \/ c \in 4088..4095

\* The bounds admit one index too many, as the code's do (FatDisk.cpp:507).
GetCluster(fat, index) ==
  IF index >= CLUSTER_FIRST /\ index - CLUSTER_FIRST > ClusterCount
    THEN GetClusterNumberEOC(fat)
    ELSE GetCluster12(fat, index)

SetCluster(fat, index, value) ==
  IF index < CLUSTER_FIRST \/ index - CLUSTER_FIRST > ClusterCount
    THEN fat
    ELSE SetCluster12(fat, index, value)

Clusters == CLUSTER_FIRST..(CLUSTER_FIRST + ClusterCount - 1)

FreeClusters(fat) == {c \in Clusters : GetCluster(fat, c) = CLUSTER_FREE}

CountFreeClusters(fat) == Cardinality(FreeClusters(fat))

\* First fit, scanning up from cluster 2; the EOC mark when the disk is full.
FindNextFreeCluster(fat) ==
  IF FreeClusters(fat) = {} THEN GetClusterNumberEOC(fat)
  ELSE CHOOSE c \in FreeClusters(fat) : \A d \in FreeClusters(fat) : c <= d

\* The clusters CountClusters counts: the first one whatever it is, then every
\* successor up to an end mark.  A walk longer than the volume has met a cycle,
\* on which the C loop would not end.
Chain(fat, first) ==
  LET walk[n \in 0..(ClusterCount + 1)] ==
        IF n = 0 THEN <<first>>
        ELSE LET s    == walk[n - 1]
                 next == GetCluster(fat, s[Len(s)])
             IN IF Len(s) < n \/ IsClusterNumberEOC(next) THEN s ELSE Append(s, next)
  IN walk[ClusterCount + 1]

=============================================================================
