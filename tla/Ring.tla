-------------------------------- MODULE Ring --------------------------------
(***************************************************************************)
(* kernel/ring.c: the character ring buffer behind the TTY input buffer    *)
(* (tty_ldisc.c) and the serial transmit buffer (serial.c).  The variables *)
(* are the fields of struct ring; ret and ok hold what the last popping    *)
(* and the last pushing call returned.                                     *)
(***************************************************************************)
EXTENDS Naturals, Sequences

CONSTANTS Char, NUL, Length

ASSUME RingAssumption ==
    /\ NUL \in Char
    /\ Length \in Nat \ {0}

VARIABLES ring,   \* ring->ring, the buffer
          head,   \* index of the front character
          tail,   \* index one past the back character
          count,  \* number of characters in the queue
          ret,    \* last character returned by ring_get or ring_erase
          ok      \* last result of ring_put or ring_insert

rvars == <<ring, head, tail, count, ret, ok>>

Index == 0 .. Length - 1

(* The caller supplies the buffer: its bytes are arbitrary. *)
ring_init ==
    /\ ring \in [Index -> Char]
    /\ head = 0
    /\ tail = 0
    /\ count = 0
    /\ ret = NUL
    /\ ok = TRUE

ring_empty == count = 0
ring_full == count = Length

(* "i++; if (i >= length) i = 0" *)
IncWrap(i) == IF i + 1 >= Length THEN 0 ELSE i + 1

(* Mutant: wraps to the last index before it decrements. *)
DecWrap_short(i) == IF i = 0 THEN (IF Length > 1 THEN Length - 2 ELSE 0) ELSE i - 1

(* "if (i == 0) i = length; --i" *)
DecWrap(i) == (IF i = 0 THEN Length ELSE i) - 1

ring_get ==
    /\ IF ring_empty
       THEN ret' = NUL /\ UNCHANGED <<head, count>>
       ELSE /\ ret' = ring[head]
            /\ head' = IncWrap(head)
            /\ count' = count - 1
    /\ UNCHANGED <<ring, tail, ok>>

ring_put(c) ==
    /\ IF ring_full
       THEN ok' = FALSE /\ UNCHANGED <<ring, tail, count>>
       ELSE /\ ring' = [ring EXCEPT ![tail] = c]
            /\ tail' = IncWrap(tail)
            /\ count' = count + 1
            /\ ok' = TRUE
    /\ UNCHANGED <<head, ret>>

(* Mutant: returns the character one past the back, "ring[tail--]". *)
ring_erase_post ==
    /\ IF ring_empty
       THEN ret' = NUL /\ UNCHANGED <<tail, count>>
       ELSE /\ tail' = DecWrap(tail)
            /\ count' = count - 1
            /\ ret' = ring[tail]
    /\ UNCHANGED <<ring, head, ok>>

ring_erase ==
    /\ IF ring_empty
       THEN ret' = NUL /\ UNCHANGED <<tail, count>>
       ELSE /\ tail' = DecWrap(tail)
            /\ count' = count - 1
            /\ ret' = ring[DecWrap(tail)]
    /\ UNCHANGED <<ring, head, ok>>

ring_insert(c) ==
    /\ IF ring_full
       THEN ok' = FALSE /\ UNCHANGED <<ring, head, count>>
       ELSE /\ head' = DecWrap(head)
            /\ ring' = [ring EXCEPT ![DecWrap(head)] = c]
            /\ count' = count + 1
            /\ ok' = TRUE
    /\ UNCHANGED <<tail, ret>>

ring_clear ==
    /\ head' = 0
    /\ tail' = 0
    /\ count' = 0
    /\ UNCHANGED <<ring, ret, ok>>

Next ==
    \/ ring_get
    \/ ring_erase
    \/ \E c \in Char : ring_put(c) \/ ring_insert(c)
    \/ ring_clear

Spec == ring_init /\ [][Next]_rvars

-----------------------------------------------------------------------------
(* The slot that holds the i-th character of the queue (i >= 1). *)
Slot(i) == IF head + i - 1 >= Length THEN head + i - 1 - Length
                                     ELSE head + i - 1

(* The queue a struct ring stands for. *)
Contents == [i \in 1 .. count |-> ring[Slot(i)]]

(* Every field of struct ring stays in its range: an index outside 0..Length-1 *)
(* would make the next ring_get/put/erase/insert touch memory outside the     *)
(* buffer the caller supplied.                                                *)
TypeOK ==
    /\ ring \in [Index -> Char]
    /\ head \in Index
    /\ tail \in Index
    /\ count \in 0 .. Length
    /\ ret \in Char
    /\ ok \in BOOLEAN

(* The redundant count agrees with the distance from head to tail, so the two *)
(* ends never cross: ring_put cannot overwrite a character ring_get has not   *)
(* returned, although no operation compares head with tail.                   *)
EndsMeet == tail = IF head + count >= Length THEN head + count - Length
                                             ELSE head + count

RingInv == TypeOK /\ EndsMeet

(* Every operation of ring.c, with its return value, is an operation of the   *)
(* double-ended queue documented in queue.h.                                  *)
Q == INSTANCE Deque WITH dq <- Contents

ImplementsDeque == Q!DequeSpec
=============================================================================
