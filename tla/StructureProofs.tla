--------------------------- MODULE StructureProofs ---------------------------
(***************************************************************************)
(* Proofs about the two data structures that other components build on.    *)
(* kernel/ring.c, for every buffer length and character set: its indices   *)
(* stay inside the buffer, its two ends never cross, and it implements the *)
(* double-ended queue of queue.h.  The file allocation table of            *)
(* tools/fatfs, for every size of a volume: its packed bytes are an array  *)
(* of entries, and a cluster is handed out once.                           *)
(***************************************************************************)
EXTENDS Ring, FatTable, FiniteSetTheorems, WellFoundedInduction, TLAPS

USE RingAssumption

-----------------------------------------------------------------------------
(* The two index computations of ring.c stay inside the buffer. *)
LEMMA IncWrapType == \A i \in Index : IncWrap(i) \in Index
  BY DEF IncWrap, Index

LEMMA DecWrapType == \A i \in Index : DecWrap(i) \in Index
  BY DEF DecWrap, Index

(* ring_init establishes the invariant. *)
LEMMA InitInv == ring_init => RingInv
  BY DEF ring_init, RingInv, TypeOK, EndsMeet, Index

(* Every call of ring.c preserves it. *)
LEMMA StepInv == RingInv /\ [Next]_rvars => RingInv'
<1> SUFFICES ASSUME RingInv, [Next]_rvars
             PROVE  RingInv'
  OBVIOUS
<1> USE DEF RingInv, TypeOK, EndsMeet, Index, ring_empty, ring_full
<1>1. CASE ring_get
  BY <1>1 DEF ring_get, IncWrap
<1>2. CASE ring_erase
  BY <1>2 DEF ring_erase, DecWrap
<1>3. ASSUME NEW c \in Char, ring_put(c)
      PROVE  RingInv'
  <2>1. ok' \in BOOLEAN
    BY <1>3, Zenon DEF ring_put
  <2>2. /\ ring' \in [Index -> Char]
        /\ tail' \in Index
        /\ count' \in 0 .. Length
        /\ head' = head /\ ret' = ret
        /\ EndsMeet'
    BY <1>3 DEF ring_put, IncWrap
  <2> QED
    BY <2>1, <2>2
<1>4. ASSUME NEW c \in Char, ring_insert(c)
      PROVE  RingInv'
  <2>1. ok' \in BOOLEAN
    BY <1>4, Zenon DEF ring_insert
  <2>2. /\ ring' \in [Index -> Char]
        /\ head' \in Index
        /\ count' \in 0 .. Length
        /\ tail' = tail /\ ret' = ret
        /\ EndsMeet'
    BY <1>4 DEF ring_insert, DecWrap
  <2> QED
    BY <2>1, <2>2
<1>5. CASE ring_clear
  BY <1>5 DEF ring_clear
<1>6. CASE UNCHANGED rvars
  BY <1>6 DEF rvars
<1> QED
  BY <1>1, <1>2, <1>3, <1>4, <1>5, <1>6 DEF Next

(* The fields of struct ring stay in their ranges and the count always agrees *)
(* with the distance from head to tail, after any sequence of calls.          *)
THEOREM RingSafe == Spec => [](TypeOK /\ EndsMeet)
  BY InitInv, StepInv, PTL DEF Spec, RingInv

-----------------------------------------------------------------------------
(* The queue a struct ring stands for is a sequence of count characters. *)
LEMMA SlotType ==
  ASSUME RingInv, NEW i \in 1 .. count
  PROVE  Slot(i) \in Index
  BY DEF Slot, RingInv, TypeOK, Index

ContentsIsSeq == Contents \in Seq(Char) /\ Len(Contents) = count

LEMMA ContentsSeq == RingInv => ContentsIsSeq
<1> SUFFICES ASSUME RingInv PROVE ContentsIsSeq
  OBVIOUS
<1>1. \A i \in 1 .. count : ring[Slot(i)] \in Char
  BY SlotType DEF RingInv, TypeOK
<1>2. count \in Nat
  BY DEF RingInv, TypeOK, Index
<1> QED
  BY <1>1, <1>2 DEF Contents, ContentsIsSeq

LEMMA StepSeq ==
  RingInv /\ Next => /\ Contents \in Seq(Char) /\ Len(Contents) = count
                     /\ Contents' \in Seq(Char) /\ Len(Contents') = count'
<1>1. RingInv /\ Next => ContentsIsSeq /\ ContentsIsSeq'
  BY StepInv, ContentsSeq, PTL
<1> QED
  BY <1>1 DEF ContentsIsSeq

(* The initial buffer stands for the empty queue. *)
LEMMA InitRefines == ring_init => Q!DequeInit
<1> SUFFICES ASSUME ring_init PROVE Q!DequeInit
  OBVIOUS
<1>1. Contents \in Seq(Char) /\ Len(Contents) = 0
  BY InitInv, ContentsSeq DEF ring_init, ContentsIsSeq
<1>2. Contents = <<>>
  BY <1>1
<1> QED
  BY <1>2 DEF ring_init, Q!DequeInit

(* ring_get takes the front character. *)
LEMMA GetRefines == RingInv /\ ring_get => Q!PopFront
<1> SUFFICES ASSUME RingInv, ring_get PROVE Q!PopFront
  OBVIOUS
<1>0. Next
  BY DEF Next
<1>1. /\ Contents \in Seq(Char) /\ Len(Contents) = count
      /\ Contents' \in Seq(Char) /\ Len(Contents') = count'
  BY <1>0, StepSeq
<1>2. CASE count = 0
  <2>1. Contents = <<>> /\ Contents' = <<>>
    BY <1>1, <1>2 DEF ring_get, ring_empty
  <2> QED
    BY <1>2, <2>1 DEF ring_get, ring_empty, Q!PopFront
<1>3. CASE count # 0
  <2>1. Contents # <<>>
    BY <1>1, <1>3
  <2>2. Contents[1] = ring[head]
    BY <1>3 DEF Contents, Slot, RingInv, TypeOK, Index
  <2>3. Contents' = SubSeq(Contents, 2, Len(Contents))
    <3>1. count' = count - 1 /\ head' = IncWrap(head) /\ ring' = ring
      BY <1>3 DEF ring_get, ring_empty
    <3>2. Len(SubSeq(Contents, 2, Len(Contents))) = count - 1
      BY <1>1, <1>3 DEF RingInv, TypeOK
    <3>3. ASSUME NEW i \in 1 .. count - 1
          PROVE  Contents'[i] = SubSeq(Contents, 2, Len(Contents))[i]
      <4>1. Slot(i)' = Slot(i + 1)
        BY <3>1 DEF Slot, IncWrap, RingInv, TypeOK, Index
      <4>2. Contents'[i] = ring[Slot(i + 1)]
        BY <3>1, <4>1 DEF Contents
      <4>3. SubSeq(Contents, 2, Len(Contents))[i] = Contents[i + 1]
        BY <1>1 DEF RingInv, TypeOK
      <4>4. Contents[i + 1] = ring[Slot(i + 1)]
        BY DEF Contents, RingInv, TypeOK
      <4> QED
        BY <4>2, <4>3, <4>4
    <3> QED
      BY <1>1, <3>1, <3>2, <3>3
  <2> QED
    BY <1>3, <2>1, <2>2, <2>3 DEF ring_get, ring_empty, Q!PopFront
<1> QED
  BY <1>2, <1>3

(* ring_erase takes the back character. *)
LEMMA EraseRefines == RingInv /\ ring_erase => Q!PopBack
<1> SUFFICES ASSUME RingInv, ring_erase PROVE Q!PopBack
  OBVIOUS
<1>0. Next
  BY DEF Next
<1>1. /\ Contents \in Seq(Char) /\ Len(Contents) = count
      /\ Contents' \in Seq(Char) /\ Len(Contents') = count'
  BY <1>0, StepSeq
<1>2. CASE count = 0
  <2>1. Contents = <<>> /\ Contents' = <<>>
    BY <1>1, <1>2 DEF ring_erase, ring_empty
  <2> QED
    BY <1>2, <2>1 DEF ring_erase, ring_empty, Q!PopBack
<1>3. CASE count # 0
  <2>0. /\ count' = count - 1 /\ head' = head /\ ring' = ring
        /\ ret' = ring[DecWrap(tail)] /\ ok' = ok
    BY <1>3 DEF ring_erase, ring_empty
  <2>1. Contents # <<>>
    BY <1>1, <1>3
  <2>2. Contents[Len(Contents)] = ring[DecWrap(tail)]
    <3>1. Slot(count) = DecWrap(tail)
      BY <1>3 DEF Slot, DecWrap, RingInv, TypeOK, EndsMeet, Index
    <3> QED
      BY <1>1, <1>3, <3>1 DEF Contents, RingInv, TypeOK
  <2>3. Contents' = SubSeq(Contents, 1, Len(Contents) - 1)
    <3>1. Len(SubSeq(Contents, 1, Len(Contents) - 1)) = count - 1
      BY <1>1, <1>3 DEF RingInv, TypeOK
    <3>2. ASSUME NEW i \in 1 .. count - 1
          PROVE  Contents'[i] = SubSeq(Contents, 1, Len(Contents) - 1)[i]
      <4>1. Slot(i)' = Slot(i)
        BY <2>0 DEF Slot
      <4>2. Contents'[i] = ring[Slot(i)]
        BY <2>0, <4>1 DEF Contents
      <4>3. SubSeq(Contents, 1, Len(Contents) - 1)[i] = Contents[i]
        BY <1>1 DEF RingInv, TypeOK
      <4>4. Contents[i] = ring[Slot(i)]
        BY DEF Contents, RingInv, TypeOK
      <4> QED
        BY <4>2, <4>3, <4>4
    <3> QED
      BY <1>1, <2>0, <3>1, <3>2
  <2> QED
    BY <2>0, <2>1, <2>2, <2>3 DEF Q!PopBack
<1> QED
  BY <1>2, <1>3

(* ring_put appends its character, or reports a full queue. *)
LEMMA PutRefines ==
  ASSUME NEW c \in Char
  PROVE  RingInv /\ ring_put(c) => Q!PushBack(c)
<1> SUFFICES ASSUME RingInv, ring_put(c) PROVE Q!PushBack(c)
  OBVIOUS
<1>0. Next
  BY DEF Next
<1>1. /\ Contents \in Seq(Char) /\ Len(Contents) = count
      /\ Contents' \in Seq(Char) /\ Len(Contents') = count'
  BY <1>0, StepSeq
<1>2. CASE count = Length
  <2>0. /\ count' = count /\ head' = head /\ ring' = ring
        /\ ret' = ret /\ ok' = FALSE
    BY <1>2 DEF ring_put, ring_full
  <2>1. Contents' = Contents
    BY <2>0 DEF Contents, Slot
  <2>2. ~(Len(Contents) < Length)
    BY <1>1, <1>2
  <2> QED
    BY <2>0, <2>1, <2>2 DEF Q!PushBack
<1>3. CASE count # Length
  <2>0. /\ count' = count + 1 /\ head' = head
        /\ ring' = [ring EXCEPT ![tail] = c]
        /\ ret' = ret /\ ok' = TRUE
    BY <1>3 DEF ring_put, ring_full
  <2>1. Len(Contents) < Length
    BY <1>1, <1>3 DEF RingInv, TypeOK
  <2>2. Contents' = Contents \o <<c>>
    <3>1. /\ Contents \o <<c>> \in Seq(Char)
          /\ Len(Contents \o <<c>>) = count + 1
      BY <1>1
    <3>2. ASSUME NEW i \in 1 .. count + 1
          PROVE  Contents'[i] = (Contents \o <<c>>)[i]
      <4>1. Contents'[i] = ring'[Slot(i)]
        BY <2>0 DEF Contents, Slot
      <4>2. CASE i = count + 1
        <5>1. Slot(i) = tail
          BY <4>2 DEF Slot, RingInv, TypeOK, EndsMeet, Index
        <5>2. ring'[tail] = c
          BY <2>0 DEF RingInv, TypeOK
        <5>3. (Contents \o <<c>>)[i] = c
          BY <1>1, <4>2
        <5> QED
          BY <4>1, <5>1, <5>2, <5>3
      <4>3. CASE i # count + 1
        <5>1. i \in 1 .. count
          BY <4>3 DEF RingInv, TypeOK
        <5>2. Slot(i) # tail
          BY <1>3, <5>1 DEF Slot, RingInv, TypeOK, EndsMeet, Index
        <5>3. ring'[Slot(i)] = ring[Slot(i)]
          BY <2>0, <5>1, <5>2, SlotType DEF RingInv, TypeOK
        <5>4. (Contents \o <<c>>)[i] = Contents[i]
          BY <1>1, <5>1
        <5>5. Contents[i] = ring[Slot(i)]
          BY <5>1 DEF Contents
        <5> QED
          BY <4>1, <5>3, <5>4, <5>5
      <4> QED
        BY <4>2, <4>3
    <3> QED
      BY <1>1, <2>0, <3>1, <3>2
  <2> QED
    BY <2>0, <2>1, <2>2 DEF Q!PushBack
<1> QED
  BY <1>2, <1>3

(* ring_insert prepends its character, or reports a full queue. *)
LEMMA InsertRefines ==
  ASSUME NEW c \in Char
  PROVE  RingInv /\ ring_insert(c) => Q!PushFront(c)
<1> SUFFICES ASSUME RingInv, ring_insert(c) PROVE Q!PushFront(c)
  OBVIOUS
<1>0. Next
  BY DEF Next
<1>1. /\ Contents \in Seq(Char) /\ Len(Contents) = count
      /\ Contents' \in Seq(Char) /\ Len(Contents') = count'
  BY <1>0, StepSeq
<1>2. CASE count = Length
  <2>0. /\ count' = count /\ head' = head /\ ring' = ring
        /\ ret' = ret /\ ok' = FALSE
    BY <1>2 DEF ring_insert, ring_full
  <2>1. Contents' = Contents
    BY <2>0 DEF Contents, Slot
  <2>2. ~(Len(Contents) < Length)
    BY <1>1, <1>2
  <2> QED
    BY <2>0, <2>1, <2>2 DEF Q!PushFront
<1>3. CASE count # Length
  <2>0. /\ count' = count + 1 /\ head' = DecWrap(head)
        /\ ring' = [ring EXCEPT ![DecWrap(head)] = c]
        /\ ret' = ret /\ ok' = TRUE
    BY <1>3 DEF ring_insert, ring_full
  <2>1. Len(Contents) < Length
    BY <1>1, <1>3 DEF RingInv, TypeOK
  <2>2. Contents' = <<c>> \o Contents
    <3>1. /\ <<c>> \o Contents \in Seq(Char)
          /\ Len(<<c>> \o Contents) = count + 1
      BY <1>1
    <3>2. ASSUME NEW i \in 1 .. count + 1
          PROVE  Contents'[i] = (<<c>> \o Contents)[i]
      <4>1. Contents'[i] = ring'[Slot(i)']
        BY <2>0 DEF Contents
      <4>2. CASE i = 1
        <5>1. Slot(i)' = DecWrap(head)
          BY <2>0, <4>2 DEF Slot, DecWrap, RingInv, TypeOK, Index
        <5>2. ring'[DecWrap(head)] = c
          BY <2>0, DecWrapType DEF RingInv, TypeOK
        <5>3. (<<c>> \o Contents)[i] = c
          BY <1>1, <4>2
        <5> QED
          BY <4>1, <5>1, <5>2, <5>3
      <4>3. CASE i # 1
        <5>1. i - 1 \in 1 .. count
          BY <4>3 DEF RingInv, TypeOK
        <5>2. Slot(i)' = Slot(i - 1)
          BY <2>0, <5>1 DEF Slot, DecWrap, RingInv, TypeOK, Index
        <5>3. Slot(i - 1) # DecWrap(head)
          BY <1>3, <5>1 DEF Slot, DecWrap, RingInv, TypeOK, Index
        <5>4. ring'[Slot(i - 1)] = ring[Slot(i - 1)]
          BY <2>0, <5>1, <5>3, SlotType DEF RingInv, TypeOK
        <5>5. (<<c>> \o Contents)[i] = Contents[i - 1]
          BY <1>1, <5>1, <4>3
        <5>6. Contents[i - 1] = ring[Slot(i - 1)]
          BY <5>1 DEF Contents
        <5> QED
          BY <4>1, <5>2, <5>4, <5>5, <5>6
      <4> QED
        BY <4>2, <4>3
    <3> QED
      BY <1>1, <2>0, <3>1, <3>2
  <2> QED
    BY <2>0, <2>1, <2>2 DEF Q!PushFront
<1> QED
  BY <1>2, <1>3

(* ring_clear empties the queue. *)
LEMMA ClearRefines == RingInv /\ ring_clear => Q!Erase
<1> SUFFICES ASSUME RingInv, ring_clear PROVE Q!Erase
  OBVIOUS
<1>0. Next
  BY DEF Next
<1>1. /\ Contents \in Seq(Char) /\ Len(Contents) = count
      /\ Contents' \in Seq(Char) /\ Len(Contents') = count'
  BY <1>0, StepSeq
<1>2. Contents' = <<>>
  BY <1>1 DEF ring_clear
<1> QED
  BY <1>2 DEF ring_clear, Q!Erase

(* The ring buffer of ring.c, with any buffer length and any sequence of     *)
(* calls, implements the double-ended queue that queue.h documents.          *)
THEOREM RingImplementsDeque == Spec => ImplementsDeque
<1>1. ring_init => Q!DequeInit
  BY InitRefines
<1>2. RingInv /\ [Next]_rvars => [Q!DequeNext]_Q!dvars
  <2> SUFFICES ASSUME RingInv, [Next]_rvars
               PROVE  [Q!DequeNext]_Q!dvars
    OBVIOUS
  <2>1. CASE ring_get
    BY <2>1, GetRefines DEF Q!DequeNext
  <2>2. CASE ring_erase
    BY <2>2, EraseRefines DEF Q!DequeNext
  <2>3. ASSUME NEW c \in Char, ring_put(c)
        PROVE  Q!DequeNext
    BY <2>3, PutRefines DEF Q!DequeNext
  <2>4. ASSUME NEW c \in Char, ring_insert(c)
        PROVE  Q!DequeNext
    BY <2>4, InsertRefines DEF Q!DequeNext
  <2>5. CASE ring_clear
    BY <2>5, ClearRefines DEF Q!DequeNext
  <2>6. CASE UNCHANGED rvars
    BY <2>6 DEF rvars, Q!dvars, Contents, Slot
  <2> QED
    BY <2>1, <2>2, <2>3, <2>4, <2>5, <2>6 DEF Next
<1> QED
  BY <1>1, <1>2, RingSafe, PTL DEF Spec, RingInv, ImplementsDeque, Q!DequeSpec

-----------------------------------------------------------------------------
(* The file allocation table. *)
HIDE RingAssumption

Bytes == 0 .. 255
FatTables == [0 .. FatBytes - 1 -> Bytes]
Entries == 0 .. ClusterCount + 1
Values == 0 .. 4095

LEMMA Volume == ClusterCount \in Nat \ {0} /\ ClusterCount <= 4084
  BY ClusterCountAssumption

(* Two entries share three bytes. *)
LEMMA EntryPlace ==
    ASSUME NEW k \in Entries
    PROVE  \E a \in Nat : /\ k = 2 * a \/ k = 2 * a + 1
                          /\ k = 2 * a => k % 2 = 0 /\ k + (k \div 2) = 3 * a
                          /\ k = 2 * a + 1 => k % 2 = 1 /\ k + (k \div 2) = 3 * a + 1
                          /\ k = 2 * a => 3 * a + 1 <= FatBytes - 1
                          /\ k = 2 * a + 1 => 3 * a + 2 <= FatBytes - 1
  <1>1. k \in Nat /\ k <= ClusterCount + 1
    BY Volume DEF Entries
  <1> DEFINE a == k \div 2
  <1>2. a \in Nat /\ ((k = 2 * a /\ k % 2 = 0) \/ (k = 2 * a + 1 /\ k % 2 = 1))
    BY <1>1
  <1> HIDE DEF a
  <1>3. k + (k \div 2) = k + a
    BY DEF a
  <1>4. FatBytes \in Nat /\ 2 * (FatBytes - 1) + 1 >= (ClusterCount + 2) * 3
    BY Volume DEF FatBytes
  <1> QED
    BY <1>1, <1>2, <1>3, <1>4, Volume

(* The arithmetic of the three bytes: the even entry has the first and the low *)
(* half of the second, the odd one the rest.                                   *)
LEMMA EvenStored ==
    ASSUME NEW x \in Bytes, NEW y \in Bytes, NEW v \in Values,
           NEW w, w = ((x + 256 * y) \div 4096) * 4096 + (v % 4096)
    PROVE  /\ w % 256 \in Bytes /\ (w \div 256) % 256 \in Bytes
           /\ ((w % 256) + 256 * ((w \div 256) % 256)) % 4096 = v
           /\ ((w \div 256) % 256) \div 16 = y \div 16
  <1>1. PICK h \in 0 .. 15, l \in 0 .. 15 : y = 16 * h + l /\ y \div 16 = h
    <2>1. y \div 16 \in 0 .. 15 /\ y % 16 \in 0 .. 15 /\ y = 16 * (y \div 16) + (y % 16)
      BY DEF Bytes
    <2> QED
      BY <2>1
  <1>2. PICK p \in 0 .. 15, q \in Bytes : v = 256 * p + q
    <2>1. v \div 256 \in 0 .. 15 /\ v % 256 \in Bytes /\ v = 256 * (v \div 256) + (v % 256)
      BY DEF Bytes, Values
    <2> QED
      BY <2>1
  <1>3. (x + 256 * y) \div 4096 = h /\ v % 4096 = v
    BY <1>1 DEF Bytes, Values
  <1>4. w = 256 * (16 * h + p) + q
    BY <1>2, <1>3 DEF Bytes
  <1>5. w % 256 = q /\ w \div 256 = 16 * h + p
    BY <1>4 DEF Bytes
  <1>6. (16 * h + p) % 256 = 16 * h + p /\ (16 * h + p) \div 16 = h
    OBVIOUS
  <1>7. q + 256 * (16 * h + p) = 4096 * h + v
    BY <1>2 DEF Bytes
  <1>8. (4096 * h + v) % 4096 = v
    BY DEF Values
  <1>9. 16 * h + p \in Bytes
    BY DEF Bytes
  <1>10. (w \div 256) % 256 = 16 * h + p
    BY <1>5, <1>6
  <1>11. (w % 256) + 256 * ((w \div 256) % 256) = 4096 * h + v
    BY <1>5, <1>7, <1>10
  <1>12. ((w % 256) + 256 * ((w \div 256) % 256)) % 4096 = v
    BY <1>8, <1>11
  <1>13. ((w \div 256) % 256) \div 16 = y \div 16
    BY <1>1, <1>6, <1>10
  <1> QED
    BY <1>5, <1>9, <1>10, <1>12, <1>13

LEMMA OddStored ==
    ASSUME NEW y \in Bytes, NEW z \in Bytes, NEW v \in Values,
           NEW w, w = ((y + 256 * z) % 16) + 16 * v
    PROVE  /\ w % 256 \in Bytes /\ (w \div 256) % 256 \in Bytes
           /\ ((w % 256) + 256 * ((w \div 256) % 256)) \div 16 = v
           /\ (w % 256) % 16 = y % 16
  <1>1. PICK l \in 0 .. 15 : y % 16 = l /\ (y + 256 * z) % 16 = l
    <2>1. y % 16 \in 0 .. 15 /\ (y + 256 * z) % 16 = y % 16
      BY DEF Bytes
    <2> QED
      BY <2>1
  <1>2. PICK p \in Bytes, q \in 0 .. 15 : v = 16 * p + q
    <2>1. v \div 16 \in Bytes /\ v % 16 \in 0 .. 15 /\ v = 16 * (v \div 16) + (v % 16)
      BY DEF Bytes, Values
    <2> QED
      BY <2>1
  <1>3. w = 256 * p + (16 * q + l)
    BY <1>1, <1>2 DEF Bytes
  <1>4. w % 256 = 16 * q + l /\ w \div 256 = p /\ p % 256 = p
    BY <1>3 DEF Bytes
  <1>5. 16 * q + l \in Bytes /\ (16 * q + l) % 16 = l
    BY DEF Bytes
  <1>6. (16 * q + l + 256 * p) \div 16 = v
    BY <1>2 DEF Bytes
  <1> QED
    BY <1>1, <1>4, <1>5, <1>6

(* The entries read from three bytes. *)
LEMMA EvenRead ==
    ASSUME NEW x \in Bytes, NEW y \in Bytes
    PROVE  /\ (x + 256 * y) % 4096 = x + 256 * (y % 16)
           /\ (x + 256 * y) % 4096 \in Values
  BY DEF Bytes, Values

LEMMA OddRead ==
    ASSUME NEW y \in Bytes, NEW z \in Bytes
    PROVE  /\ (y + 256 * z) \div 16 = (y \div 16) + 16 * z
           /\ (y + 256 * z) \div 16 \in Values
  BY DEF Bytes, Values

(* An entry is in the pair a of three bytes, its first or its second half. *)
IsEven(k, a) == a \in Nat /\ k = 2 * a /\ 3 * a + 1 <= FatBytes - 1
IsOdd(k, a) == a \in Nat /\ k = 2 * a + 1 /\ 3 * a + 2 <= FatBytes - 1

LEMMA EvenOrOdd ==
    ASSUME NEW k \in Entries
    PROVE  \E a \in Nat : IsEven(k, a) \/ IsOdd(k, a)
  BY EntryPlace DEF IsEven, IsOdd

LEMMA HalfIs ==
    ASSUME NEW k, NEW a
    PROVE  /\ IsEven(k, a) => k % 2 = 0 /\ k + (k \div 2) = 3 * a
           /\ IsOdd(k, a) => k % 2 = 1 /\ k + (k \div 2) = 3 * a + 1
  BY DEF IsEven, IsOdd

LEMMA InTable ==
    ASSUME NEW fat \in FatTables, NEW b \in Nat, b <= FatBytes - 1
    PROVE  fat[b] \in Bytes /\ b \in 0 .. FatBytes - 1
  <1>1. FatBytes \in Nat
    BY Volume DEF FatBytes
  <1> QED
    BY <1>1 DEF FatTables

LEMMA GetIs ==
    ASSUME NEW fat, NEW k, NEW a
    PROVE  /\ IsEven(k, a) => GetCluster12(fat, k) = (fat[3 * a] + 256 * fat[3 * a + 1]) % 4096
           /\ IsOdd(k, a) => GetCluster12(fat, k) = (fat[3 * a + 1] + 256 * fat[3 * a + 2]) \div 16
  <1>1. ASSUME IsEven(k, a)
        PROVE  GetCluster12(fat, k) = (fat[3 * a] + 256 * fat[3 * a + 1]) % 4096
    BY <1>1, HalfIs DEF GetCluster12, Word
  <1>2. ASSUME IsOdd(k, a)
        PROVE  GetCluster12(fat, k) = (fat[3 * a + 1] + 256 * fat[3 * a + 2]) \div 16
    <2>1. 3 * a + 1 + 1 = 3 * a + 2
      BY <1>2 DEF IsOdd
    <2> QED
      BY <1>2, <2>1, HalfIs DEF GetCluster12, Word
  <1> QED
    BY <1>1, <1>2

(* A store changes two neighbouring bytes. *)
LEMMA SetEven ==
    ASSUME NEW fat \in FatTables, NEW k, NEW a, IsEven(k, a), NEW v \in Values,
           NEW f, f = SetCluster12(fat, k, v)
    PROVE  /\ f \in FatTables
           /\ (f[3 * a] + 256 * f[3 * a + 1]) % 4096 = v
           /\ f[3 * a + 1] \div 16 = fat[3 * a + 1] \div 16
           /\ \A b \in 0 .. FatBytes - 1 : b # 3 * a /\ b # 3 * a + 1 => f[b] = fat[b]
  <1> DEFINE x == fat[3 * a]
             y == fat[3 * a + 1]
             w == ((x + 256 * y) \div 4096) * 4096 + (v % 4096)
  <1>1. /\ 3 * a \in Nat /\ 3 * a <= FatBytes - 1 /\ 3 * a + 1 \in Nat /\ 3 * a + 1 <= FatBytes - 1
        /\ 3 * a # 3 * a + 1
    BY Volume DEF IsEven, FatBytes
  <1>2. x \in Bytes /\ y \in Bytes /\ 3 * a \in 0 .. FatBytes - 1 /\ 3 * a + 1 \in 0 .. FatBytes - 1
    BY <1>1, InTable
  <1>3. f = [fat EXCEPT ![3 * a] = w % 256, ![3 * a + 1] = (w \div 256) % 256]
    <2>1. k + (k \div 2) = 3 * a /\ k % 2 # 1
      BY HalfIs
    <2>2. f = PutWord(fat, 3 * a, w)
      BY <2>1 DEF SetCluster12, Word
    <2> HIDE DEF w
    <2> QED
      BY <2>2 DEF PutWord
  <1> HIDE DEF x, y
  <1>4. /\ w % 256 \in Bytes /\ (w \div 256) % 256 \in Bytes
        /\ ((w % 256) + 256 * ((w \div 256) % 256)) % 4096 = v
        /\ ((w \div 256) % 256) \div 16 = y \div 16
    BY <1>2, EvenStored
  <1> DEFINE lo == w % 256
             hi == (w \div 256) % 256
  <1> HIDE DEF w, lo, hi
  <1>5. f = [fat EXCEPT ![3 * a] = lo, ![3 * a + 1] = hi]
    BY <1>3 DEF lo, hi
  <1>6. lo \in Bytes /\ hi \in Bytes /\ (lo + 256 * hi) % 4096 = v /\ hi \div 16 = y \div 16
    BY <1>4 DEF lo, hi
  <1>7. f[3 * a] = lo /\ f[3 * a + 1] = hi /\ f \in FatTables
    BY <1>1, <1>2, <1>5, <1>6 DEF FatTables
  <1>8. \A b \in 0 .. FatBytes - 1 : b # 3 * a /\ b # 3 * a + 1 => f[b] = fat[b]
    BY <1>5 DEF FatTables
  <1> QED
    BY <1>6, <1>7, <1>8 DEF y

LEMMA SetOdd ==
    ASSUME NEW fat \in FatTables, NEW k, NEW a, IsOdd(k, a), NEW v \in Values,
           NEW f, f = SetCluster12(fat, k, v)
    PROVE  /\ f \in FatTables
           /\ (f[3 * a + 1] + 256 * f[3 * a + 2]) \div 16 = v
           /\ f[3 * a + 1] % 16 = fat[3 * a + 1] % 16
           /\ \A b \in 0 .. FatBytes - 1 : b # 3 * a + 1 /\ b # 3 * a + 2 => f[b] = fat[b]
  <1> DEFINE y == fat[3 * a + 1]
             z == fat[3 * a + 2]
             w == ((y + 256 * z) % 16) + 16 * v
  <1>1. /\ 3 * a + 1 \in Nat /\ 3 * a + 1 <= FatBytes - 1
        /\ 3 * a + 2 \in Nat /\ 3 * a + 2 <= FatBytes - 1
        /\ 3 * a + 1 # 3 * a + 2 /\ 3 * a + 1 + 1 = 3 * a + 2
    BY Volume DEF IsOdd, FatBytes
  <1>2. y \in Bytes /\ z \in Bytes /\ 3 * a + 1 \in 0 .. FatBytes - 1 /\ 3 * a + 2 \in 0 .. FatBytes - 1
    BY <1>1, InTable
  <1>3. f = [fat EXCEPT ![3 * a + 1] = w % 256, ![3 * a + 2] = (w \div 256) % 256]
    <2>1. k + (k \div 2) = 3 * a + 1 /\ k % 2 = 1
      BY HalfIs
    <2>2. f = PutWord(fat, 3 * a + 1, w)
      BY <1>1, <2>1 DEF SetCluster12, Word
    <2> HIDE DEF w
    <2> QED
      BY <1>1, <2>2 DEF PutWord
  <1> HIDE DEF y, z
  <1>4. /\ w % 256 \in Bytes /\ (w \div 256) % 256 \in Bytes
        /\ ((w % 256) + 256 * ((w \div 256) % 256)) \div 16 = v
        /\ (w % 256) % 16 = y % 16
    BY <1>2, OddStored
  <1> DEFINE lo == w % 256
             hi == (w \div 256) % 256
  <1> HIDE DEF w, lo, hi
  <1>5. f = [fat EXCEPT ![3 * a + 1] = lo, ![3 * a + 2] = hi]
    BY <1>3 DEF lo, hi
  <1>6. lo \in Bytes /\ hi \in Bytes /\ (lo + 256 * hi) \div 16 = v /\ lo % 16 = y % 16
    BY <1>4 DEF lo, hi
  <1>7. f[3 * a + 1] = lo /\ f[3 * a + 2] = hi /\ f \in FatTables
    BY <1>1, <1>2, <1>5, <1>6 DEF FatTables
  <1>8. \A b \in 0 .. FatBytes - 1 : b # 3 * a + 1 /\ b # 3 * a + 2 => f[b] = fat[b]
    BY <1>5 DEF FatTables
  <1> QED
    BY <1>6, <1>7, <1>8 DEF y

LEMMA GetRange ==
    ASSUME NEW fat \in FatTables, NEW k \in Entries
    PROVE  GetCluster12(fat, k) \in Values
  <1>1. PICK a \in Nat : IsEven(k, a) \/ IsOdd(k, a)
    BY EvenOrOdd
  <1>2. CASE IsEven(k, a)
    <2>1. fat[3 * a] \in Bytes /\ fat[3 * a + 1] \in Bytes
      BY <1>2, InTable, Volume DEF IsEven, FatBytes
    <2>2. (fat[3 * a] + 256 * fat[3 * a + 1]) % 4096 \in Values
      BY <2>1, EvenRead, SMT
    <2> QED
      BY <1>2, <2>2, GetIs
  <1>3. CASE IsOdd(k, a)
    <2>1. fat[3 * a + 1] \in Bytes /\ fat[3 * a + 2] \in Bytes
      BY <1>3, InTable, Volume DEF IsOdd, FatBytes
    <2>2. (fat[3 * a + 1] + 256 * fat[3 * a + 2]) \div 16 \in Values
      BY <2>1, OddRead, SMT
    <2> QED
      BY <1>3, <2>2, GetIs
  <1> QED
    BY <1>1, <1>2, <1>3

(* Another entry reads the same bytes, or the half of the shared byte that the *)
(* store keeps.                                                                *)
LEMMA OtherEntry ==
    ASSUME NEW fat \in FatTables, NEW k \in Entries, NEW j \in Entries, j # k, NEW v \in Values,
           NEW f, f = SetCluster12(fat, k, v)
    PROVE  GetCluster12(f, j) = GetCluster12(fat, j)
  <1>0. FatBytes \in Nat
    BY Volume DEF FatBytes
  <1>1. PICK a \in Nat : IsEven(k, a) \/ IsOdd(k, a)
    BY EvenOrOdd
  <1>2. PICK b \in Nat : IsEven(j, b) \/ IsOdd(j, b)
    BY EvenOrOdd
  <1>3. CASE IsEven(k, a) /\ IsEven(j, b)
    <2>1. /\ 3 * b \in 0 .. FatBytes - 1 /\ 3 * b + 1 \in 0 .. FatBytes - 1
          /\ 3 * b # 3 * a /\ 3 * b # 3 * a + 1 /\ 3 * b + 1 # 3 * a /\ 3 * b + 1 # 3 * a + 1
      BY <1>0, <1>3 DEF IsEven
    <2>2. f[3 * b] = fat[3 * b] /\ f[3 * b + 1] = fat[3 * b + 1]
      BY <1>3, <2>1, SetEven
    <2> QED
      BY <1>3, <2>2, GetIs
  <1>4. CASE IsOdd(k, a) /\ IsOdd(j, b)
    <2>1. /\ 3 * b + 1 \in 0 .. FatBytes - 1 /\ 3 * b + 2 \in 0 .. FatBytes - 1
          /\ 3 * b + 1 # 3 * a + 1 /\ 3 * b + 1 # 3 * a + 2
          /\ 3 * b + 2 # 3 * a + 1 /\ 3 * b + 2 # 3 * a + 2
      BY <1>0, <1>4 DEF IsOdd
    <2>2. f[3 * b + 1] = fat[3 * b + 1] /\ f[3 * b + 2] = fat[3 * b + 2]
      BY <1>4, <2>1, SetOdd
    <2> QED
      BY <1>4, <2>2, GetIs
  <1>5. CASE IsEven(k, a) /\ IsOdd(j, b)
    <2>1. /\ 3 * b + 1 \in 0 .. FatBytes - 1 /\ 3 * b + 2 \in 0 .. FatBytes - 1
          /\ 3 * b + 1 # 3 * a /\ 3 * b + 2 # 3 * a /\ 3 * b + 2 # 3 * a + 1
      BY <1>0, <1>5 DEF IsEven, IsOdd
    <2>2. /\ f[3 * b + 2] = fat[3 * b + 2] /\ f \in FatTables
          /\ f[3 * b + 1] \div 16 = fat[3 * b + 1] \div 16
      <3>1. f[3 * b + 2] = fat[3 * b + 2] /\ f \in FatTables
        BY <1>5, <2>1, SetEven
      <3>2. CASE 3 * b + 1 = 3 * a + 1
        <4>1. f[3 * a + 1] \div 16 = fat[3 * a + 1] \div 16
          BY <1>5, SetEven
        <4> QED
          BY <3>1, <3>2, <4>1
      <3>3. CASE 3 * b + 1 # 3 * a + 1
        <4>1. f[3 * b + 1] = fat[3 * b + 1]
          BY <1>5, <2>1, <3>3, SetEven
        <4> QED
          BY <3>1, <4>1
      <3> QED
        BY <3>2, <3>3
    <2>3. /\ fat[3 * b + 1] \in Bytes /\ fat[3 * b + 2] \in Bytes
          /\ f[3 * b + 1] \in Bytes /\ f[3 * b + 2] \in Bytes
      BY <2>1, <2>2 DEF FatTables
    <2>4. /\ (f[3 * b + 1] + 256 * f[3 * b + 2]) \div 16 = (f[3 * b + 1] \div 16) + 16 * f[3 * b + 2]
          /\ (fat[3 * b + 1] + 256 * fat[3 * b + 2]) \div 16
                = (fat[3 * b + 1] \div 16) + 16 * fat[3 * b + 2]
      BY <2>3, OddRead, SMT
    <2> QED
      BY <1>5, <2>2, <2>4, GetIs
  <1>6. CASE IsOdd(k, a) /\ IsEven(j, b)
    <2>1. /\ 3 * b \in 0 .. FatBytes - 1 /\ 3 * b + 1 \in 0 .. FatBytes - 1
          /\ 3 * b # 3 * a + 1 /\ 3 * b # 3 * a + 2 /\ 3 * b + 1 # 3 * a + 2
      BY <1>0, <1>6 DEF IsEven, IsOdd
    <2>2. /\ f[3 * b] = fat[3 * b] /\ f \in FatTables
          /\ f[3 * b + 1] % 16 = fat[3 * b + 1] % 16
      <3>1. f[3 * b] = fat[3 * b] /\ f \in FatTables
        BY <1>6, <2>1, SetOdd
      <3>2. CASE 3 * b + 1 = 3 * a + 1
        <4>1. f[3 * a + 1] % 16 = fat[3 * a + 1] % 16
          BY <1>6, SetOdd
        <4> QED
          BY <3>1, <3>2, <4>1
      <3>3. CASE 3 * b + 1 # 3 * a + 1
        <4>1. f[3 * b + 1] = fat[3 * b + 1]
          BY <1>6, <2>1, <3>3, SetOdd
        <4> QED
          BY <3>1, <4>1
      <3> QED
        BY <3>2, <3>3
    <2>3. /\ fat[3 * b] \in Bytes /\ fat[3 * b + 1] \in Bytes
          /\ f[3 * b] \in Bytes /\ f[3 * b + 1] \in Bytes
      BY <2>1, <2>2 DEF FatTables
    <2>4. /\ (f[3 * b] + 256 * f[3 * b + 1]) % 4096 = f[3 * b] + 256 * (f[3 * b + 1] % 16)
          /\ (fat[3 * b] + 256 * fat[3 * b + 1]) % 4096 = fat[3 * b] + 256 * (fat[3 * b + 1] % 16)
      BY <2>3, EvenRead, SMT
    <2> QED
      BY <1>6, <2>2, <2>4, GetIs
  <1> QED
    BY <1>1, <1>2, <1>3, <1>4, <1>5, <1>6

(* The twelve-bit entries, as an array. *)
EntriesOf(fat) == [k \in Entries |-> GetCluster12(fat, k)]

(* For every size of a volume: the packed bytes of fat.c are an array of twelve-bit *)
(* entries.  A store is read back, and reaches no other entry, although every       *)
(* second byte is shared by two of them.                                            *)
THEOREM TableIsArray ==
    \A fat \in FatTables, k \in Entries, v \in Values :
        /\ SetCluster12(fat, k, v) \in FatTables
        /\ EntriesOf(SetCluster12(fat, k, v)) = [EntriesOf(fat) EXCEPT ![k] = v]
  <1> SUFFICES ASSUME NEW fat \in FatTables, NEW k \in Entries, NEW v \in Values,
                      NEW f, f = SetCluster12(fat, k, v)
               PROVE  f \in FatTables /\ EntriesOf(f) = [EntriesOf(fat) EXCEPT ![k] = v]
    OBVIOUS
  <1>1. PICK a \in Nat : IsEven(k, a) \/ IsOdd(k, a)
    BY EvenOrOdd
  <1>2. f \in FatTables /\ GetCluster12(f, k) = v
    <2>1. CASE IsEven(k, a)
      BY <2>1, SetEven, GetIs
    <2>2. CASE IsOdd(k, a)
      BY <2>2, SetOdd, GetIs
    <2> QED
      BY <1>1, <2>1, <2>2
  <1>3. \A j \in Entries : j # k => GetCluster12(f, j) = GetCluster12(fat, j)
    BY OtherEntry
  <1> QED
    BY <1>2, <1>3 DEF EntriesOf

(* FatDisk's reads and stores of a cluster that exists go to its entry. *)
LEMMA ClusterEntry ==
    ASSUME NEW c \in Clusters
    PROVE  /\ c \in Entries /\ c \in Nat /\ c # 0 /\ c # 1
           /\ \A fat : GetCluster(fat, c) = GetCluster12(fat, c)
           /\ \A fat, v : SetCluster(fat, c, v) = SetCluster12(fat, c, v)
  <1>1. c \in Nat /\ c >= 2 /\ c <= ClusterCount + 1 /\ c - 2 <= ClusterCount
    BY Volume DEF Clusters, CLUSTER_FIRST
  <1>2. c \in Entries /\ ~(c - 2 > ClusterCount) /\ ~(c < 2)
    BY <1>1, Volume DEF Entries
  <1> QED
    BY <1>1, <1>2 DEF GetCluster, SetCluster, CLUSTER_FIRST

(* What a store of a cluster leaves free. *)
LEMMA StoredFree ==
    ASSUME NEW fat \in FatTables, NEW c \in Clusters, NEW v \in Values
    PROVE  /\ SetCluster(fat, c, v) \in FatTables
           /\ \A d \in Clusters : GetCluster(SetCluster(fat, c, v), d) =
                                    IF d = c THEN v ELSE GetCluster(fat, d)
           /\ FreeClusters(SetCluster(fat, c, v)) =
                IF v = CLUSTER_FREE THEN FreeClusters(fat) \cup {c} ELSE FreeClusters(fat) \ {c}
  <1>1. PICK f : f = SetCluster(fat, c, v)
    OBVIOUS
  <1>2. f = SetCluster12(fat, c, v) /\ c \in Entries
    BY <1>1, ClusterEntry
  <1>3. f \in FatTables /\ EntriesOf(f) = [EntriesOf(fat) EXCEPT ![c] = v]
    BY <1>2, TableIsArray
  <1>4. \A d \in Clusters : GetCluster(f, d) = IF d = c THEN v ELSE GetCluster(fat, d)
    <2> SUFFICES ASSUME NEW d \in Clusters
                 PROVE  GetCluster(f, d) = IF d = c THEN v ELSE GetCluster(fat, d)
      OBVIOUS
    <2>1. d \in Entries /\ GetCluster(f, d) = GetCluster12(f, d)
          /\ GetCluster(fat, d) = GetCluster12(fat, d)
      BY ClusterEntry
    <2>2. EntriesOf(f)[d] = GetCluster12(f, d) /\ EntriesOf(fat)[d] = GetCluster12(fat, d)
      BY <2>1 DEF EntriesOf
    <2>3. EntriesOf(f)[d] = IF d = c THEN v ELSE EntriesOf(fat)[d]
      <3>1. DOMAIN EntriesOf(fat) = Entries
        BY DEF EntriesOf
      <3> QED
        BY <1>3, <2>1, <3>1
    <2> QED
      BY <2>1, <2>2, <2>3
  <1>5. FreeClusters(f) = IF v = CLUSTER_FREE THEN FreeClusters(fat) \cup {c}
                          ELSE FreeClusters(fat) \ {c}
    BY <1>4 DEF FreeClusters
  <1> QED
    BY <1>1, <1>3, <1>4, <1>5

(* The search for a free cluster finds one, if there is one. *)
LEMMA Found ==
    ASSUME NEW fat, FreeClusters(fat) # {}
    PROVE  /\ FindNextFreeCluster(fat) \in FreeClusters(fat)
           /\ \A d \in FreeClusters(fat) : FindNextFreeCluster(fat) <= d
  <1> DEFINE S == FreeClusters(fat)
             R == {ss \in Nat \X Nat : ss[1] < ss[2]}
  <1>1. S \subseteq Nat
    BY Volume DEF FreeClusters, Clusters, CLUSTER_FIRST
  <1>2. IsWellFoundedOn(R, Nat)
    BY NatLessThanWellFounded DEF OpToRel
  <1>3. FindNextFreeCluster(fat) = CHOOSE c \in S : \A d \in S : c <= d
    BY DEF FindNextFreeCluster
  <1> HIDE DEF R, S
  <1>4. PICK m \in S : \A n \in S : <<n, m>> \notin R
    BY <1>1, <1>2, WFMin, Zenon DEF S
  <1>5. \A n \in S : m <= n
    <2>1. \A n \in S : ~(n < m)
      BY <1>1, <1>4 DEF R
    <2> QED
      BY <1>1, <2>1
  <1>6. \E c \in S : \A d \in S : c <= d
    BY <1>5
  <1> QED
    BY <1>3, <1>6 DEF S

(* For every volume: the cluster FatDisk takes next is free, and once it is in use *)
(* (any mark but the free one) it is not found again, no other cluster's entry has *)
(* changed, and there is one free cluster less.                                    *)
THEOREM AllocatedOnce ==
    \A fat \in FatTables, v \in Values \ {CLUSTER_FREE} :
        FreeClusters(fat) # {} =>
            LET c == FindNextFreeCluster(fat)
                f == SetCluster(fat, c, v)
            IN  /\ c \in FreeClusters(fat) /\ f \in FatTables
                /\ FreeClusters(f) = FreeClusters(fat) \ {c}
                /\ CountFreeClusters(f) = CountFreeClusters(fat) - 1
                /\ GetCluster(f, c) = v
                /\ \A d \in Clusters \ {c} : GetCluster(f, d) = GetCluster(fat, d)
  <1> SUFFICES ASSUME NEW fat \in FatTables, NEW v \in Values \ {CLUSTER_FREE},
                      FreeClusters(fat) # {},
                      NEW c, c = FindNextFreeCluster(fat), NEW f, f = SetCluster(fat, c, v)
               PROVE  /\ c \in FreeClusters(fat) /\ f \in FatTables
                      /\ FreeClusters(f) = FreeClusters(fat) \ {c}
                      /\ CountFreeClusters(f) = CountFreeClusters(fat) - 1
                      /\ GetCluster(f, c) = v
                      /\ \A d \in Clusters \ {c} : GetCluster(f, d) = GetCluster(fat, d)
    OBVIOUS
  <1>1. c \in FreeClusters(fat) /\ c \in Clusters
    BY Found DEF FreeClusters
  <1>2. /\ f \in FatTables /\ FreeClusters(f) = FreeClusters(fat) \ {c}
        /\ \A d \in Clusters : GetCluster(f, d) = IF d = c THEN v ELSE GetCluster(fat, d)
    BY <1>1, StoredFree
  <1>3. IsFiniteSet(Clusters)
    BY FS_Interval, Volume DEF Clusters, CLUSTER_FIRST
  <1>4. IsFiniteSet(FreeClusters(fat))
    BY <1>3, FS_Subset DEF FreeClusters
  <1>5. Cardinality(FreeClusters(fat) \ {c}) = Cardinality(FreeClusters(fat)) - 1
    BY <1>1, <1>4, FS_RemoveElement
  <1> QED
    BY <1>1, <1>2, <1>5 DEF CountFreeClusters

(* For every volume and media byte: in the table of a new disk every cluster is *)
(* free, and the mark that ends a chain is recognised as one.                   *)
THEOREM NewTableIsFree ==
    \A m \in 240 .. 255 :
        /\ InitFat12(m) \in FatTables
        /\ FreeClusters(InitFat12(m)) = Clusters
        /\ GetCluster12(InitFat12(m), 0) = 3840 + m
        /\ IsClusterNumberEOC(GetClusterNumberEOC(InitFat12(m)))
  <1> SUFFICES ASSUME NEW m \in 240 .. 255
               PROVE  /\ InitFat12(m) \in FatTables
                      /\ FreeClusters(InitFat12(m)) = Clusters
                      /\ GetCluster12(InitFat12(m), 0) = 3840 + m
                      /\ IsClusterNumberEOC(GetClusterNumberEOC(InitFat12(m)))
    OBVIOUS
  <1> DEFINE zero == [i \in 0 .. FatBytes - 1 |-> 0]
             mark == 3840 + m
             first == SetCluster12(zero, 0, mark)
             both == SetCluster12(first, 1, CLUSTER_EOC_12)
  <1>1. 0 \in Entries /\ 1 \in Entries /\ mark \in Values /\ CLUSTER_EOC_12 \in Values
    BY Volume DEF Entries, Values, CLUSTER_EOC_12
  <1>2. zero \in FatTables
    BY DEF FatTables, Bytes
  <1>3. first \in FatTables /\ EntriesOf(first) = [EntriesOf(zero) EXCEPT ![0] = mark]
    <2> HIDE DEF zero, mark
    <2> QED
      BY <1>1, <1>2, TableIsArray
  <1>4. both \in FatTables /\ EntriesOf(both) = [EntriesOf(first) EXCEPT ![1] = CLUSTER_EOC_12]
    <2> HIDE DEF zero, first
    <2> QED
      BY <1>1, <1>3, TableIsArray
  <1>5. InitFat12(m) = both
    BY DEF InitFat12
  <1>6. \A k \in Entries : EntriesOf(zero)[k] = 0
    <2> SUFFICES ASSUME NEW k \in Entries PROVE GetCluster12(zero, k) = 0
      BY DEF EntriesOf
    <2>1. PICK a \in Nat : IsEven(k, a) \/ IsOdd(k, a)
      BY EvenOrOdd
    <2>2. CASE IsEven(k, a)
      <3>1. 3 * a \in 0 .. FatBytes - 1 /\ 3 * a + 1 \in 0 .. FatBytes - 1
        BY <2>2, Volume DEF IsEven, FatBytes
      <3>2. zero[3 * a] = 0 /\ zero[3 * a + 1] = 0
        BY <3>1
      <3>3. GetCluster12(zero, k) = (zero[3 * a] + 256 * zero[3 * a + 1]) % 4096
        <4> HIDE DEF zero
        <4> QED
          BY <2>2, GetIs
      <3> HIDE DEF zero
      <3> QED
        BY <3>2, <3>3
    <2>3. CASE IsOdd(k, a)
      <3>1. 3 * a + 1 \in 0 .. FatBytes - 1 /\ 3 * a + 2 \in 0 .. FatBytes - 1
        BY <2>3, Volume DEF IsOdd, FatBytes
      <3>2. zero[3 * a + 1] = 0 /\ zero[3 * a + 2] = 0
        BY <3>1
      <3>3. GetCluster12(zero, k) = (zero[3 * a + 1] + 256 * zero[3 * a + 2]) \div 16
        <4> HIDE DEF zero
        <4> QED
          BY <2>3, GetIs
      <3> HIDE DEF zero
      <3> QED
        BY <3>2, <3>3
    <2> QED
      BY <2>1, <2>2, <2>3
  <1> HIDE DEF zero, mark, first, both
  <1>7. \A k \in Entries : EntriesOf(both)[k] =
                             IF k = 1 THEN CLUSTER_EOC_12 ELSE IF k = 0 THEN mark ELSE 0
    <2>1. DOMAIN EntriesOf(zero) = Entries /\ DOMAIN EntriesOf(first) = Entries
      BY DEF EntriesOf
    <2> QED
      BY <1>3, <1>4, <1>6, <2>1
  <1>8. \A k \in Entries : GetCluster12(both, k) = EntriesOf(both)[k]
    BY DEF EntriesOf
  <1>9. \A c \in Clusters : GetCluster(both, c) = 0
    <2> SUFFICES ASSUME NEW c \in Clusters PROVE GetCluster(both, c) = 0
      OBVIOUS
    <2>1. c \in Entries /\ c # 0 /\ c # 1 /\ GetCluster(both, c) = GetCluster12(both, c)
      BY ClusterEntry
    <2> QED
      BY <1>7, <1>8, <2>1
  <1>10. FreeClusters(both) = Clusters
    BY <1>9 DEF FreeClusters, CLUSTER_FREE
  <1>11. GetCluster12(both, 0) = mark /\ GetCluster12(both, 1) = CLUSTER_EOC_12
    BY <1>1, <1>7, <1>8
  <1>12. IsClusterNumberEOC(GetClusterNumberEOC(both))
    BY <1>11 DEF IsClusterNumberEOC, GetClusterNumberEOC, CLUSTER_EOC_12
  <1> QED
    BY <1>4, <1>5, <1>10, <1>11, <1>12 DEF mark
===============================================================================
