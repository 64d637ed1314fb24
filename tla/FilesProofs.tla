----------------------------- MODULE FilesProofs -----------------------------
(***************************************************************************)
(* Proofs about Files.tla, for every number of descriptors, file structs,  *)
(* terminals and ports.                                                    *)
(***************************************************************************)
EXTENDS Files, SequenceTheorems, WellFoundedInduction, TLAPS

(* The part of the type invariant that ownership rests on: the table, the free *)
(* list, and an array of struct files.                                         *)
Shape ==
    /\ files \in [Fd -> FileIds \cup {NULL}]
    /\ pool \in Seq(FileIds)

Structs == file = [f \in FileIds |-> file[f]]

OInv == Shape /\ Structs /\ FilesOwned

-----------------------------------------------------------------------------
(* Taking the front of the free list leaves the rest as it was, one place down. *)
LEMMA TailFacts ==
    ASSUME NEW s \in Seq(FileIds), s # <<>>
    PROVE  /\ Head(s) = s[1]
           /\ Tail(s) \in Seq(FileIds)
           /\ Len(Tail(s)) = Len(s) - 1
           /\ \A i \in 1 .. Len(Tail(s)) : Tail(s)[i] = s[i + 1]
           /\ Len(s) \in Nat \ {0}
           /\ s[1] \in FileIds
  BY HeadTailProperties, EmptySeq, LenProperties, SMT

(* Putting a struct in front moves the others one place up. *)
LEMMA PushFacts ==
    ASSUME NEW s \in Seq(FileIds), NEW f \in FileIds
    PROVE  /\ <<f>> \o s \in Seq(FileIds)
           /\ Len(<<f>> \o s) = Len(s) + 1
           /\ (<<f>> \o s)[1] = f
           /\ \A i \in 2 .. Len(s) + 1 : (<<f>> \o s)[i] = s[i - 1]
           /\ Head(<<f>> \o s) = f
           /\ Tail(<<f>> \o s) = s
           /\ <<f>> \o s # <<>>
  OBVIOUS

(* pool_alloc whose struct goes nowhere: a failed open. *)
LEMMA PopKeeps ==
    ASSUME NEW fs \in [Fd -> FileIds \cup {NULL}], NEW s \in Seq(FileIds), s # <<>>,
           Owned(fs, s)
    PROVE  Owned(fs, Tail(s))
  BY TailFacts DEF Owned

(* pool_alloc whose struct goes to a descriptor. *)
LEMMA PopInstallKeeps ==
    ASSUME NEW fs \in [Fd -> FileIds \cup {NULL}], NEW s \in Seq(FileIds), s # <<>>,
           Owned(fs, s), NEW fd
    PROVE  /\ Owned([fs EXCEPT ![fd] = Head(s)], Tail(s))
           /\ [fs EXCEPT ![fd] = Head(s)] \in [Fd -> FileIds \cup {NULL}]
  <1> DEFINE g == [fs EXCEPT ![fd] = Head(s)]
             t == Tail(s)
  <1>1. /\ s[1] \in FileIds /\ Len(s) \in Nat \ {0} /\ Len(t) = Len(s) - 1
        /\ \A i \in 1 .. Len(t) : t[i] = s[i + 1]
        /\ \A a \in Fd : g[a] = IF a = fd THEN s[1] ELSE fs[a]
        /\ g \in [Fd -> FileIds \cup {NULL}]
    BY TailFacts
  <1> HIDE DEF g, t
  <1>2. /\ \A a, b \in Fd : fs[a] # NULL /\ fs[a] = fs[b] => a = b
        /\ \A a \in Fd, i \in 1 .. Len(s) : fs[a] # s[i]
        /\ \A i, j \in 1 .. Len(s) : s[i] = s[j] => i = j
    BY DEF Owned
  <1>3. \A a, b \in Fd : g[a] # NULL /\ g[a] = g[b] => a = b
    BY <1>1, <1>2
  <1>4. \A a \in Fd, i \in 1 .. Len(t) : g[a] # t[i]
    BY <1>1, <1>2
  <1>5. \A i, j \in 1 .. Len(t) : t[i] = t[j] => i = j
    BY <1>1, <1>2
  <1>6. Owned(g, t)
    BY <1>3, <1>4, <1>5 DEF Owned
  <1> QED
    BY <1>1, <1>6 DEF g, t

(* free_fd of a descriptor's struct, and the descriptor cleared. *)
LEMMA ClosePushKeeps ==
    ASSUME NEW fs \in [Fd -> FileIds \cup {NULL}], NEW s \in Seq(FileIds),
           Owned(fs, s), NEW fd \in Fd, fs[fd] # NULL
    PROVE  /\ Owned([fs EXCEPT ![fd] = NULL], <<fs[fd]>> \o s)
           /\ [fs EXCEPT ![fd] = NULL] \in [Fd -> FileIds \cup {NULL}]
           /\ <<fs[fd]>> \o s \in Seq(FileIds)
  <1> DEFINE g == [fs EXCEPT ![fd] = NULL]
             t == <<fs[fd]>> \o s
             f == fs[fd]
  <1>1. f \in FileIds /\ NULL \notin FileIds
    BY FilesAssumption
  <1>2. /\ t \in Seq(FileIds) /\ Len(t) = Len(s) + 1 /\ t[1] = f
        /\ \A i \in 2 .. Len(s) + 1 : t[i] = s[i - 1]
    BY <1>1, PushFacts
  <1>3. /\ \A a \in Fd : g[a] = IF a = fd THEN NULL ELSE fs[a]
        /\ g \in [Fd -> FileIds \cup {NULL}]
    OBVIOUS
  <1>4. Len(s) \in Nat /\ \A i \in 1 .. Len(s) : s[i] \in FileIds
    BY LenProperties, ElementOfSeq
  <1> HIDE DEF g, t
  <1>5. /\ \A a, b \in Fd : fs[a] # NULL /\ fs[a] = fs[b] => a = b
        /\ \A a \in Fd, i \in 1 .. Len(s) : fs[a] # s[i]
        /\ \A i, j \in 1 .. Len(s) : s[i] = s[j] => i = j
    BY DEF Owned
  <1>6. \A a, b \in Fd : g[a] # NULL /\ g[a] = g[b] => a = b
    BY <1>3, <1>5
  <1>7. \A i \in 1 .. Len(t) : t[i] = f \/ (i \in 2 .. Len(s) + 1 /\ t[i] = s[i - 1])
    BY <1>2, <1>4
  <1>8. \A a \in Fd, i \in 1 .. Len(t) : g[a] # t[i]
    <2> SUFFICES ASSUME NEW a \in Fd, NEW i \in 1 .. Len(t) PROVE g[a] # t[i]
      OBVIOUS
    <2>1. CASE a = fd
      BY <2>1, <1>1, <1>3, <1>4, <1>7
    <2>2. CASE a # fd /\ t[i] = f
      BY <2>2, <1>1, <1>3, <1>5
    <2>3. CASE a # fd /\ i \in 2 .. Len(s) + 1 /\ t[i] = s[i - 1]
      BY <2>3, <1>3, <1>4, <1>5
    <2> QED
      BY <2>1, <2>2, <2>3, <1>7
  <1>9. \A i, j \in 1 .. Len(t) : t[i] = t[j] => i = j
    <2> SUFFICES ASSUME NEW i \in 1 .. Len(t), NEW j \in 1 .. Len(t), t[i] = t[j] PROVE i = j
      OBVIOUS
    <2>1. \A m \in 2 .. Len(s) + 1 : t[m] # f
      BY <1>2, <1>4, <1>5
    <2>2. ASSUME NEW m \in 2 .. Len(s) + 1, NEW n \in 2 .. Len(s) + 1, t[m] = t[n]
          PROVE  m = n
      <3>1. s[m - 1] = s[n - 1] /\ m - 1 \in 1 .. Len(s) /\ n - 1 \in 1 .. Len(s)
        BY <2>2, <1>2, <1>4
      <3>2. m - 1 = n - 1
        BY <3>1, <1>5
      <3> QED
        BY <3>2, <1>4
    <2> QED
      BY <2>1, <2>2, <1>2, <1>4
  <1>10. Owned(g, t)
    BY <1>6, <1>8, <1>9 DEF Owned
  <1> QED
    BY <1>2, <1>3, <1>10 DEF g, t

-----------------------------------------------------------------------------
(* How each call changes task->files and the free list. *)
LEMMA Effects ==
    ASSUME OInv, [Next]_fvars
    PROVE  \/ UNCHANGED <<files, pool>>
           \/ pool # <<>> /\ pool' = Tail(pool) /\ files' = files
           \/ /\ pool # <<>> /\ pool' = Tail(pool)
              /\ \E fd : files' = [files EXCEPT ![fd] = Head(pool)]
           \/ \E fd \in Fd : /\ files[fd] # NULL
                             /\ files' = [files EXCEPT ![fd] = NULL]
                             /\ pool' = <<files[fd]>> \o pool
  <1>1. CASE \/ open_enfile \/ open_exhausted \/ kb_putq \/ UNCHANGED fvars
            \/ (\E name \in Paths : open_tty0(name)) \/ (\E t \in Terms : switch_terminal(t))
    BY <1>1 DEF open_enfile, open_exhausted, kb_putq, open_tty0, switch_terminal, Faults, Fails,
                fvars
  <1>2. CASE \/ \E name \in Paths, nb \in BOOLEAN : open_noent(name, nb)
            \/ \E d \in Devices, nb \in BOOLEAN : open_fails(d, nb)
    BY <1>2 DEF open_noent, open_fails, Fails
  <1>3. CASE \E d \in Devices, nb \in BOOLEAN : sys_open(d, nb)
    BY <1>3 DEF sys_open
  <1>4. ASSUME NEW fd \in Fd, sys_close(fd)
        PROVE  /\ files[fd] # NULL
               /\ files' = [files EXCEPT ![fd] = NULL]
               /\ pool' = <<files[fd]>> \o pool
    BY <1>4 DEF sys_close, CanClose, close_fd, free_fd
  <1>5. CASE \E fd \in Fd : close_fails(fd) \/ dup_fails(fd) \/ dup_exhausted(fd)
                          \/ \E nb \in BOOLEAN : sys_fcntl(fd, nb)
    BY <1>5 DEF close_fails, dup_fails, dup_exhausted, sys_fcntl, Fails, Faults
  <1>6. CASE \E fd \in Fd : sys_dup(fd)
    BY <1>6 DEF sys_dup
  <1>7. CASE \E fd, newfd \in Fd : sys_dup2(fd, newfd)
    <2> PICK fd \in Fd, newfd \in Fd : sys_dup2(fd, newfd)
      BY <1>7
    <2>1. CASE CanClose(newfd)
      <3>1. files[newfd] \in FileIds
        BY <2>1 DEF CanClose, OInv, Shape
      <3> DEFINE free == <<files[newfd]>> \o pool
      <3>2. Head(free) = files[newfd] /\ Tail(free) = pool /\ free # <<>>
        BY <3>1, PushFacts DEF OInv, Shape
      <3>3. pool' = Tail(free) /\ files' = [files EXCEPT ![newfd] = Head(free)]
        BY <2>1, <3>2 DEF sys_dup2, free_fd, Faults
      <3>4. files' = files
        BY <3>2, <3>3 DEF OInv, Shape
      <3> QED
        BY <3>2, <3>3, <3>4
    <2>2. CASE ~CanClose(newfd)
      BY <2>2 DEF sys_dup2, Faults
    <2> QED
      BY <2>1, <2>2
  <1> QED
    BY <1>1, <1>2, <1>3, <1>4, <1>5, <1>6, <1>7 DEF Next

(* Every call writes at most one struct file. *)
LEMMA StructsStep ==
    ASSUME Structs, [Next]_fvars
    PROVE  Structs'
  <1>1. file' = file \/ \E f, v : file' = [file EXCEPT ![f] = v]
    <2> DEFINE Writes(f, v) == file' = [file EXCEPT ![f] = v]
    <2>1. ASSUME NEW name \in Paths, NEW nb \in BOOLEAN, open_noent(name, nb)
          PROVE  Writes(Head(pool), [Zeroed EXCEPT !.nonblock = nb])
      BY <2>1, Zenon DEF open_noent
    <2>2. ASSUME NEW d \in Devices, NEW nb \in BOOLEAN, open_fails(d, nb)
          PROVE  Writes(Head(pool), [Zeroed EXCEPT !.fops = "chdev", !.nonblock = nb])
      BY <2>2, Zenon DEF open_fails
    <2>3. ASSUME NEW d \in Devices, NEW nb \in BOOLEAN, sys_open(d, nb)
          PROVE  Writes(Head(pool), [fops |-> "tty", inode |-> d, nonblock |-> nb])
      BY <2>3, Zenon DEF sys_open
    <2>4. ASSUME NEW fd \in Fd, sys_dup(fd)
          PROVE  Writes(Head(pool), file[files[fd]])
      BY <2>4, Zenon DEF sys_dup
    <2>5. ASSUME NEW fd \in Fd, NEW nb \in BOOLEAN, sys_fcntl(fd, nb)
          PROVE  Writes(files[fd], [file[files[fd]] EXCEPT !.nonblock = nb])
      BY <2>5 DEF sys_fcntl, FlagsOf
    <2>6. ASSUME NEW fd \in Fd, NEW newfd \in Fd, sys_dup2(fd, newfd)
          PROVE  file' = file \/ \E f, v : Writes(f, v)
      <3> DEFINE free == IF CanClose(newfd) THEN free_fd(files[newfd], pool) ELSE pool
                 src  == IF Head(free) = files[fd] THEN Zeroed ELSE file[files[fd]]
      <3>1. CASE free = <<>>
        BY <2>6, <3>1 DEF sys_dup2, Faults
      <3>2. CASE free # <<>>
        <4>1. Writes(Head(free), src)
          BY <2>6, <3>2, Zenon DEF sys_dup2
        <4> HIDE DEF free, src, Writes
        <4> QED
          BY <4>1
      <3> QED
        BY <3>1, <3>2
    <2>7. ASSUME
               \/ open_enfile \/ open_exhausted \/ kb_putq \/ UNCHANGED fvars
               \/ (\E name \in Paths : open_tty0(name)) \/ (\E t \in Terms : switch_terminal(t))
               \/ \E fd \in Fd : \/ sys_close(fd) \/ close_fails(fd)
                                 \/ dup_fails(fd) \/ dup_exhausted(fd)
          PROVE  file' = file
      BY <2>7 DEF open_enfile, open_exhausted, kb_putq, open_tty0, switch_terminal, sys_close,
                  close_fails, dup_fails, dup_exhausted, Faults, fvars
    <2> DEFINE Wrote == \E f, v : Writes(f, v)
    <2>8. /\ \A name \in Paths, nb \in BOOLEAN : open_noent(name, nb) => Wrote
          /\ \A d \in Devices, nb \in BOOLEAN : open_fails(d, nb) \/ sys_open(d, nb) => Wrote
      BY <2>1, <2>2, <2>3, Zenon
    <2>9. /\ \A fd \in Fd : sys_dup(fd) => Wrote
          /\ \A fd \in Fd, nb \in BOOLEAN : sys_fcntl(fd, nb) => Wrote
          /\ \A fd, newfd \in Fd : sys_dup2(fd, newfd) => file' = file \/ Wrote
      BY <2>4, <2>5, <2>6, Zenon
    <2>10. file' = file \/ Wrote
      <3> HIDE DEF Wrote
      <3> QED
        BY <2>7, <2>8, <2>9 DEF Next
    <2> QED
      BY <2>10
  <1> QED
    BY <1>1 DEF Structs

(* Every call preserves ownership. *)
LEMMA OwnedStep ==
    ASSUME OInv, [Next]_fvars
    PROVE  OInv'
  <1>0. Structs'
    BY StructsStep DEF OInv
  <1> USE <1>0 DEF OInv, Shape, FilesOwned
  <1>1. CASE UNCHANGED <<files, pool>>
    BY <1>1 DEF Owned
  <1>2. CASE pool # <<>> /\ pool' = Tail(pool) /\ files' = files
    BY <1>2, PopKeeps, TailFacts
  <1>3. CASE /\ pool # <<>> /\ pool' = Tail(pool)
            /\ \E fd : files' = [files EXCEPT ![fd] = Head(pool)]
    <2>1. PICK fd : files' = [files EXCEPT ![fd] = Head(pool)]
      BY <1>3
    <2>2. pool' \in Seq(FileIds)
      BY <1>3, TailFacts
    <2>3. /\ Owned([files EXCEPT ![fd] = Head(pool)], Tail(pool))
          /\ [files EXCEPT ![fd] = Head(pool)] \in [Fd -> FileIds \cup {NULL}]
      BY <1>3, PopInstallKeeps, Zenon
    <2>4. Owned(files', pool') /\ files' \in [Fd -> FileIds \cup {NULL}]
      BY <1>3, <2>1, <2>3, Zenon
    <2> QED
      BY <2>2, <2>4
  <1>4. CASE \E fd \in Fd : /\ files[fd] # NULL
                          /\ files' = [files EXCEPT ![fd] = NULL]
                          /\ pool' = <<files[fd]>> \o pool
    <2>1. PICK fd \in Fd : /\ files[fd] # NULL
                          /\ files' = [files EXCEPT ![fd] = NULL]
                          /\ pool' = <<files[fd]>> \o pool
      BY <1>4
    <2>2. /\ Owned([files EXCEPT ![fd] = NULL], <<files[fd]>> \o pool)
          /\ [files EXCEPT ![fd] = NULL] \in [Fd -> FileIds \cup {NULL}]
          /\ <<files[fd]>> \o pool \in Seq(FileIds)
      BY <2>1, ClosePushKeeps, Zenon
    <2> QED
      BY <2>1, <2>2, Zenon
  <1> QED
    BY <1>1, <1>2, <1>3, <1>4, Effects

LEMMA OwnedInit == Init => OInv
  BY FilesAssumption DEF Init, OInv, Shape, Structs, FilesOwned, Owned, Fd, FileIds

(* No call sequence makes descriptors share or outlive a struct file: the ownership *)
(* that sys_open, sys_close and dupfd of open.c maintain without a reference count.  *)
THEOREM FilesSafe == Spec => []FilesOwned
  <1>1. Init => OInv
    BY OwnedInit
  <1>2. OInv /\ [Next]_fvars => OInv'
    BY OwnedStep
  <1>3. OInv => FilesOwned
    BY DEF OInv
  <1> QED
    BY <1>1, <1>2, <1>3, PTL DEF Spec
-----------------------------------------------------------------------------
(* A set of natural numbers that is not empty has a least element. *)
LEMMA LeastNumber ==
    ASSUME NEW S, S \subseteq Nat, S # {}
    PROVE  \E m \in S : \A n \in S : m <= n
  <1> DEFINE R == {ss \in Nat \X Nat : ss[1] < ss[2]}
  <1>1. IsWellFoundedOn(R, Nat)
    BY NatLessThanWellFounded DEF OpToRel
  <1> HIDE DEF R
  <1>2. PICK m \in S : \A n \in S : <<n, m>> \notin R
    BY <1>1, WFMin, Zenon
  <1>3. \A n \in S : ~(n < m)
    BY <1>2 DEF R
  <1> QED
    BY <1>3

(* find_next_fd is a descriptor that is not open, or -1. *)
LEMMA FindNextFd ==
    find_next_fd # -1 => find_next_fd \in Fd /\ files[find_next_fd] = NULL
  <1> DEFINE none == {fd \in Fd : files[fd] = NULL}
  <1> SUFFICES ASSUME none # {}
               PROVE  find_next_fd \in none
    BY DEF find_next_fd
  <1>1. \E fd \in none : \A e \in none : fd <= e
    <2>1. none \subseteq Nat
      BY FilesAssumption DEF Fd
    <2> HIDE DEF none
    <2> QED
      BY <2>1, LeastNumber
  <1> QED
    BY <1>1 DEF find_next_fd

(* A call writes to a struct file only through the descriptor it is made on, or to *)
(* one that was free; both belong to no other descriptor.                          *)
LEMMA IndependentStep ==
    ASSUME OInv, [Next]_fvars, NEW fd \in Fd, Open(fd), call'.fd # fd
    PROVE  files'[fd] = files[fd] /\ file'[files[fd]] = file[files[fd]]
  <1> USE DEF OInv, Shape, Structs, FilesOwned, Owned, Open
  <1>1. files[fd] \in FileIds
    OBVIOUS
  <1>2. pool # <<>> => Head(pool) # files[fd]
    BY TailFacts
  <1>3. CASE \/ open_enfile \/ open_exhausted \/ kb_putq \/ UNCHANGED fvars
             \/ (\E name \in Paths : open_tty0(name)) \/ (\E t \in Terms : switch_terminal(t))
    BY <1>3 DEF open_enfile, open_exhausted, kb_putq, open_tty0, switch_terminal, Faults, Fails,
                fvars
  <1>4. CASE \/ \E name \in Paths, nb \in BOOLEAN : open_noent(name, nb)
             \/ \E d \in Devices, nb \in BOOLEAN : open_fails(d, nb)
    BY <1>1, <1>2, <1>4 DEF open_noent, open_fails, Fails
  <1>5. CASE \E d \in Devices, nb \in BOOLEAN : sys_open(d, nb)
    BY <1>1, <1>2, <1>5 DEF sys_open
  <1>6. CASE \E e \in Fd : sys_close(e)
    BY <1>6 DEF sys_close, close_fd
  <1>7. CASE \E e \in Fd : close_fails(e) \/ dup_fails(e) \/ dup_exhausted(e)
    BY <1>7 DEF close_fails, dup_fails, dup_exhausted, Fails, Faults
  <1>8. CASE \E e \in Fd, nb \in BOOLEAN : sys_fcntl(e, nb)
    BY <1>1, <1>8 DEF sys_fcntl, FlagsOf
  <1>9. CASE \E e \in Fd : sys_dup(e)
    BY <1>1, <1>2, <1>9 DEF sys_dup
  <1>10. CASE \E e, newfd \in Fd : sys_dup2(e, newfd)
    <2> PICK e \in Fd, newfd \in Fd : sys_dup2(e, newfd)
      BY <1>10
    <2>1. CASE CanClose(newfd)
      <3> DEFINE free == <<files[newfd]>> \o pool
      <3>1. files[newfd] \in FileIds
        BY <2>1 DEF CanClose
      <3>2. Head(free) = files[newfd] /\ Tail(free) = pool /\ free # <<>>
        BY <3>1, PushFacts
      <3>3. /\ files' = [files EXCEPT ![newfd] = files[newfd]]
            /\ file' = [file EXCEPT ![files[newfd]] =
                                      IF files[newfd] = files[e] THEN Zeroed ELSE file[files[e]]]
            /\ call'.fd = newfd
        BY <2>1, <3>2 DEF sys_dup2, free_fd
      <3>4. files[newfd] # files[fd]
        BY <3>3
      <3> QED
        BY <1>1, <3>3, <3>4
    <2>2. CASE ~CanClose(newfd)
      <3>1. CASE pool = <<>>
        BY <2>2, <3>1 DEF sys_dup2, Faults
      <3>2. CASE pool # <<>>
        <4>1. /\ files' = [files EXCEPT ![newfd] = Head(pool)]
              /\ file' = [file EXCEPT ![Head(pool)] =
                                        IF Head(pool) = files[e] THEN Zeroed ELSE file[files[e]]]
              /\ call'.fd = newfd
          BY <2>2, <3>2 DEF sys_dup2
        <4> QED
          BY <1>1, <1>2, <3>2, <4>1
      <3> QED
        BY <3>1, <3>2
    <2> QED
      BY <2>1, <2>2
  <1> QED
    BY <1>3, <1>4, <1>5, <1>6, <1>7, <1>8, <1>9, <1>10 DEF Next

(* Only close takes a file that can be closed away from its descriptor: open and dup *)
(* use a descriptor that is not open, and dup2 takes the struct it has just freed.   *)
LEMMA ReturnedStep ==
    ASSUME OInv, [Next]_fvars, NEW fd \in Fd, CanClose(fd), files'[fd] # files[fd]
    PROVE  \E i \in 1 .. Len(pool') : pool'[i] = files[fd]
  <1> USE DEF OInv, Shape, CanClose
  <1>1. files[fd] \in FileIds
    OBVIOUS
  <1>2. CASE \/ open_enfile \/ open_exhausted \/ kb_putq \/ UNCHANGED fvars
             \/ (\E name \in Paths : open_tty0(name)) \/ (\E t \in Terms : switch_terminal(t))
    BY <1>2 DEF open_enfile, open_exhausted, kb_putq, open_tty0, switch_terminal, Faults, Fails,
                fvars
  <1>3. CASE \/ \E name \in Paths, nb \in BOOLEAN : open_noent(name, nb)
             \/ \E d \in Devices, nb \in BOOLEAN : open_fails(d, nb)
    BY <1>3 DEF open_noent, open_fails, Fails
  <1>4. CASE \E e \in Fd : close_fails(e) \/ dup_fails(e) \/ dup_exhausted(e)
                           \/ \E nb \in BOOLEAN : sys_fcntl(e, nb)
    BY <1>4 DEF close_fails, dup_fails, dup_exhausted, sys_fcntl, Fails, Faults
  <1>5. CASE (\E d \in Devices, nb \in BOOLEAN : sys_open(d, nb)) \/ \E e \in Fd : sys_dup(e)
    <2>1. find_next_fd # -1 /\ files' = [files EXCEPT ![find_next_fd] = Head(pool)]
      BY <1>5 DEF sys_open, sys_dup
    <2>2. find_next_fd # fd
      BY <2>1, FindNextFd, FilesAssumption
    <2> QED
      BY <2>1, <2>2
  <1>6. CASE \E e \in Fd : sys_close(e)
    <2> PICK e \in Fd : sys_close(e)
      BY <1>6
    <2>1. e = fd
      BY DEF sys_close, close_fd
    <2>2. pool' = <<files[fd]>> \o pool
      BY <2>1 DEF sys_close, free_fd
    <2>3. Len(pool') = Len(pool) + 1 /\ pool'[1] = files[fd] /\ Len(pool) \in Nat
      BY <1>1, <2>2, PushFacts, LenProperties
    <2> QED
      BY <2>3
  <1>7. CASE \E e, newfd \in Fd : sys_dup2(e, newfd)
    <2> PICK e \in Fd, newfd \in Fd : sys_dup2(e, newfd)
      BY <1>7
    <2>1. CASE CanClose(newfd)
      <3> DEFINE free == <<files[newfd]>> \o pool
      <3>1. Head(free) = files[newfd] /\ free # <<>>
        BY <2>1, PushFacts
      <3>2. files' = [files EXCEPT ![newfd] = files[newfd]]
        BY <2>1, <3>1 DEF sys_dup2, free_fd
      <3> QED
        BY <3>2
    <2>2. CASE ~CanClose(newfd)
      BY <2>2 DEF sys_dup2, Faults
    <2> QED
      BY <2>1, <2>2
  <1> QED
    BY <1>2, <1>3, <1>4, <1>5, <1>6, <1>7 DEF Next

(* What a descriptor refers to changes only by calls on that descriptor: open, dup, *)
(* dup2, close and fcntl leave the device, operations and flags of the others alone. *)
THEOREM FilesIndependent == Spec => DescriptorsIndependent
  <1> DEFINE Alone == \A fd \in Fd :
                          Open(fd) /\ call'.fd # fd =>
                              files'[fd] = files[fd] /\ file'[files[fd]] = file[files[fd]]
  <1>1. OInv /\ [Next]_fvars => [Alone]_fvars
    BY IndependentStep
  <1>2. OInv /\ [Next]_fvars => OInv'
    BY OwnedStep
  <1> HIDE DEF Alone
  <1>3. Spec => [][Alone]_fvars
    BY <1>1, <1>2, OwnedInit, PTL DEF Spec
  <1> QED
    BY <1>3 DEF Alone, DescriptorsIndependent

(* The struct file of a closed descriptor goes back to file_pool: sys_close and the *)
(* close inside dupfd never leak one.                                                *)
THEOREM FilesReturned == Spec => ClosedFileReturned
  <1> DEFINE Returned == \A fd \in Fd :
                             CanClose(fd) /\ files'[fd] # files[fd] =>
                                 \/ \E i \in 1 .. Len(pool') : pool'[i] = files[fd]
                                 \/ \E e \in Fd : files'[e] = files[fd]
  <1>1. OInv /\ [Next]_fvars => [Returned]_fvars
    BY ReturnedStep
  <1>2. OInv /\ [Next]_fvars => OInv'
    BY OwnedStep
  <1> HIDE DEF Returned
  <1>3. Spec => [][Returned]_fvars
    BY <1>1, <1>2, OwnedInit, PTL DEF Spec
  <1> QED
    BY <1>3 DEF Returned, ClosedFileReturned
=============================================================================
