-------------------------------- MODULE Deque --------------------------------
(***************************************************************************)
(* What include/kernel/queue.h promises: "A double-ended fixed-length      *)
(* character queue".  The queue is a sequence dq of at most Length         *)
(* characters.  A pop of an empty queue returns NUL and changes nothing; a *)
(* push to a full queue returns FALSE and changes nothing.                 *)
(*                                                                         *)
(* Ring.tla (kernel/ring.c) is shown to implement this specification; the  *)
(* models of the line discipline and of the serial driver then use a       *)
(* sequence where the code has a struct ring.                              *)
(***************************************************************************)
EXTENDS Naturals, Sequences

CONSTANTS Char,     \* the characters a queue can hold
          NUL,      \* '\0', the value a pop of an empty queue returns
          Length    \* the capacity of the queue

VARIABLES dq,   \* the characters in the queue, front first
          ret,  \* the character the last pop returned
          ok    \* what the last push returned

dvars == <<dq, ret, ok>>

DequeInit ==
    /\ dq = <<>>
    /\ ret = NUL
    /\ ok = TRUE

-----------------------------------------------------------------------------
PopFront ==
    /\ IF dq = <<>> THEN ret' = NUL /\ dq' = dq
                    ELSE ret' = dq[1] /\ dq' = SubSeq(dq, 2, Len(dq))
    /\ ok' = ok

PopBack ==
    /\ IF dq = <<>> THEN ret' = NUL /\ dq' = dq
                    ELSE ret' = dq[Len(dq)] /\ dq' = SubSeq(dq, 1, Len(dq) - 1)
    /\ ok' = ok

PushBack(c) ==
    /\ IF Len(dq) < Length THEN ok' = TRUE /\ dq' = dq \o <<c>>
                           ELSE ok' = FALSE /\ dq' = dq
    /\ ret' = ret

PushFront(c) ==
    /\ IF Len(dq) < Length THEN ok' = TRUE /\ dq' = <<c>> \o dq
                           ELSE ok' = FALSE /\ dq' = dq
    /\ ret' = ret

Erase ==
    /\ dq' = <<>>
    /\ UNCHANGED <<ret, ok>>

DequeNext ==
    \/ PopFront
    \/ PopBack
    \/ \E c \in Char : PushBack(c) \/ PushFront(c)
    \/ Erase

DequeSpec == DequeInit /\ [][DequeNext]_dvars
=============================================================================
