-------------------------------- MODULE Files --------------------------------
(***************************************************************************)
(* File descriptors: sys_open, sys_close, sys_dup, sys_dup2 (open.c),      *)
(* F_SETFL (sys.c), find_inode, alloc_fd and free_fd (fs.c), chdev_open    *)
(* (char.c), tty_open and tty_close (tty.c), and the open and close of the *)
(* two TTY drivers, for the one task there is.  Keystrokes and terminal    *)
(* switches come from the keyboard's interrupt handler.                    *)
(*                                                                         *)
(* sys_open runs with interrupts off.  The other calls do not, but the     *)
(* handler writes nothing they use: it opens a terminal that was never     *)
(* opened, or reads the terminal's tty.  So each call is one step.         *)
(***************************************************************************)
EXTENDS Integers, Sequences

CONSTANTS MAX_OPEN,    \* descriptors of a task (8)
          NR_FILES,    \* capacity of file_pool (16)
          Terms,       \* /dev/tty1, ...: virtual terminals
          DefaultTerm, \* the one the kernel boots on
          Ports,       \* /dev/ttyS1, ...: serial ports
          Absent,      \* serial ports whose UART does not exist
          Paths,       \* other names given to open: "tty0", "nosuch"
          NULL

Fd == 0 .. MAX_OPEN - 1
FileIds == 1 .. NR_FILES
Devices == Terms \cup Ports

ASSUME FilesAssumption ==
    /\ MAX_OPEN \in Nat \ {0} /\ NR_FILES \in Nat \ {0}
    /\ DefaultTerm \in Terms
    /\ Absent \subseteq Ports
    /\ Terms \cap Ports = {}
    /\ NULL \notin Devices \cup FileIds

VARIABLES files,     \* task->files
          file,      \* struct file: fops, inode (the device), O_NONBLOCK of f_oflag
          pool,      \* the free list of file_pool: see Pool.tla
          tty,       \* struct tty: open, file
          attached,  \* devices whose driver has a tty (term->tty, com->tty)
          current,   \* g_currterm
          call,      \* the last call: the descriptor it was made on and its result
          fault      \* "no", or how the kernel failed

fvars == <<files, file, pool, tty, attached, current, call, fault>>

(* A struct file as pool_alloc hands it out. *)
Zeroed == [fops |-> NULL, inode |-> NULL, nonblock |-> FALSE]

(* After init_tty: init_terminal has switched to the boot terminal. *)
Init ==
    /\ files = [fd \in Fd |-> NULL]
    /\ file = [f \in FileIds |-> Zeroed]
    /\ pool = [i \in 1 .. NR_FILES |-> i]
    /\ tty = [d \in Devices |-> [open |-> d = DefaultTerm, file |-> NULL]]
    /\ attached = {DefaultTerm}
    /\ current = DefaultTerm
    /\ call = [fd |-> NULL, err |-> "ok"]
    /\ fault = "no"

Running == fault = "no"

-----------------------------------------------------------------------------
(* find_next_fd: the lowest free descriptor, or -1. *)
find_next_fd ==
    LET none == {fd \in Fd : files[fd] = NULL}
    IN  IF none = {} THEN -1 ELSE CHOOSE fd \in none : \A e \in none : fd <= e

(* Mutant: not freed. *)
free_fd_lost(f, free) == free

(* free_fd: back to the front of the free list. *)
free_fd(f, free) == <<f>> \o free

(* A call that fails and changes nothing but this. *)
Fails(fd, e) ==
    /\ call' = [fd |-> fd, err |-> e]
    /\ UNCHANGED <<files, tty, attached, current, fault>>

(* The kernel dereferences a pointer that points nowhere. *)
Faults(how) ==
    /\ fault' = how
    /\ UNCHANGED <<files, file, pool, tty, attached, current, call>>

(* All descriptors in use: -ENFILE. *)
open_enfile ==
    /\ Running /\ find_next_fd = -1
    /\ Fails(NULL, "ENFILE")
    /\ UNCHANGED <<file, pool>>

(* alloc_fd returns -ENOMEM and leaves file unset.  The test for ENOMEM, without  *)
(* the sign, does not see it, and file->f_oflag is set through whatever is there. *)
open_exhausted ==
    /\ Running /\ find_next_fd # -1 /\ pool = <<>>
    /\ Faults("uninit")

(* open of a name: the file struct is taken from the pool first and is not given *)
(* back when the name is not found ...                                           *)
open_noent(name, nonblock) ==
    /\ Running /\ find_next_fd # -1 /\ pool # <<>>
    /\ name # "tty0"
    /\ pool' = Tail(pool)
    /\ file' = [file EXCEPT ![Head(pool)] = [Zeroed EXCEPT !.nonblock = nonblock]]
    /\ Fails(NULL, "ENOENT")

(* ... tty0 has a directory entry without an inode, whose fops find_inode reads ... *)
open_tty0(name) ==
    /\ Running /\ find_next_fd # -1 /\ pool # <<>>
    /\ name = "tty0"
    /\ Faults("null")

(* Does tty_open_internal succeed?  It does nothing for a TTY that is open. *)
tty_opens(d) == tty[d].open \/ (d \notin Absent /\ d \notin attached)

(* ... and neither is it given back when the driver's open fails. *)
open_fails(d, nonblock) ==
    /\ Running /\ find_next_fd # -1 /\ pool # <<>>
    /\ ~tty_opens(d)
    /\ pool' = Tail(pool)
    /\ file' = [file EXCEPT ![Head(pool)] = [Zeroed EXCEPT !.fops = "chdev", !.nonblock = nonblock]]
    /\ Fails(NULL, "EIO")

(* tty_open: the driver attaches unless the TTY counts as open already, and the *)
(* TTY's file is the one opened last.                                           *)
sys_open(d, nonblock) ==
    /\ Running /\ find_next_fd # -1 /\ pool # <<>>
    /\ tty_opens(d)
    /\ pool' = Tail(pool)
    /\ file' = [file EXCEPT ![Head(pool)] =
                              [fops |-> "tty", inode |-> d, nonblock |-> nonblock]]
    /\ tty' = [tty EXCEPT ![d] = [open |-> TRUE, file |-> Head(pool)]]
    /\ attached' = IF tty[d].open THEN attached ELSE attached \cup {d}
    /\ files' = [files EXCEPT ![find_next_fd] = Head(pool)]
    /\ call' = [fd |-> find_next_fd, err |-> "ok"]
    /\ UNCHANGED <<current, fault>>

-----------------------------------------------------------------------------
(* What closing a descriptor leaves: the driver lets go of its tty, the file goes *)
(* back to the pool.  A file without fops cannot be closed.                       *)
CanClose(fd) == files[fd] # NULL /\ file[files[fd]].fops # NULL

(* Mutant: the descriptor is not cleared. *)
close_fd_dangling(fd) == files

(* task->files after close. *)
close_fd(fd) == [files EXCEPT ![fd] = NULL]

sys_close(fd) ==
    /\ Running /\ CanClose(fd)
    /\ attached' = attached \ {file[files[fd]].inode}
    /\ pool' = free_fd(files[fd], pool)
    /\ files' = close_fd(fd)
    /\ call' = [fd |-> fd, err |-> "ok"]
    /\ UNCHANGED <<file, tty, current, fault>>

(* -EBADF, or -ENOSYS for a file without operations. *)
close_fails(fd) ==
    /\ Running /\ ~CanClose(fd)
    /\ Fails(fd, IF files[fd] = NULL THEN "EBADF" ELSE "ENOSYS")
    /\ UNCHANGED <<file, pool>>

dup_fails(fd) ==
    /\ Running
    /\ files[fd] = NULL \/ find_next_fd = -1
    /\ Fails(fd, IF files[fd] = NULL THEN "EBADF" ELSE "EMFILE")
    /\ UNCHANGED <<file, pool>>

(* The test for ENOMEM again. *)
dup_exhausted(fd) ==
    /\ Running /\ files[fd] # NULL /\ find_next_fd # -1 /\ pool = <<>>
    /\ Faults("uninit")

(* dup, and dup2 onto descriptor 0, which dupfd takes for dup. *)
sys_dup(fd) ==
    /\ Running /\ files[fd] # NULL /\ find_next_fd # -1 /\ pool # <<>>
    /\ file' = [file EXCEPT ![Head(pool)] = file[files[fd]]]
    /\ files' = [files EXCEPT ![find_next_fd] = Head(pool)]
    /\ pool' = Tail(pool)
    /\ call' = [fd |-> find_next_fd, err |-> "ok"]
    /\ UNCHANGED <<tty, attached, current, fault>>

(* dup2: close newfd if that works, take a file struct (cleared by pool_alloc), *)
(* copy.  When newfd = fd the copy reads the struct that was just cleared.       *)
sys_dup2(fd, newfd) ==
    /\ Running /\ files[fd] # NULL /\ newfd # 0
    /\ LET closes == CanClose(newfd)
           free   == IF closes THEN free_fd(files[newfd], pool) ELSE pool
           new    == Head(free)
           src    == IF new = files[fd] THEN Zeroed ELSE file[files[fd]]
       IN  IF free = <<>> THEN Faults("uninit")
           ELSE /\ attached' = IF closes THEN attached \ {file[files[newfd]].inode}
                                         ELSE attached
                /\ pool' = Tail(free)
                /\ file' = [file EXCEPT ![new] = src]
                /\ files' = [files EXCEPT ![newfd] = new]
                /\ call' = [fd |-> newfd, err |-> "ok"]
                /\ UNCHANGED <<tty, current, fault>>

(* Mutant: the flags of the file that the TTY is connected to. *)
FlagsOf_tty(fd) ==
    IF file[files[fd]].inode = NULL THEN files[fd] ELSE tty[file[files[fd]].inode].file

(* The struct file whose flags fcntl sets. *)
FlagsOf(fd) == files[fd]

(* fcntl(fd, F_SETFL, O_NONBLOCK or 0) *)
sys_fcntl(fd, nonblock) ==
    /\ Running /\ files[fd] # NULL
    /\ file' = [file EXCEPT ![FlagsOf(fd)].nonblock = nonblock]
    /\ call' = [fd |-> fd, err |-> "ok"]
    /\ UNCHANGED <<files, pool, tty, attached, current, fault>>

-----------------------------------------------------------------------------
(* The keyboard handler: kb_putq panics when the current terminal has no tty. *)
kb_putq ==
    /\ Running
    /\ fault' = IF current \in attached THEN fault ELSE "panic"
    /\ UNCHANGED <<files, file, pool, tty, attached, current, call>>

(* ALT+Fn: opens the terminal's TTY if it never was, and makes it current. *)
switch_terminal(t) ==
    /\ Running
    /\ IF tty_opens(t)
       THEN /\ attached' = IF tty[t].open THEN attached ELSE attached \cup {t}
            /\ tty' = [tty EXCEPT ![t].open = TRUE]
            /\ current' = t
            /\ fault' = fault
       ELSE fault' = "panic" /\ UNCHANGED <<attached, tty, current>>
    /\ UNCHANGED <<files, file, pool, call>>

-----------------------------------------------------------------------------
Next ==
    \/ open_enfile \/ open_exhausted \/ kb_putq
    \/ \E name \in Paths, nb \in BOOLEAN : open_noent(name, nb)
    \/ \E name \in Paths : open_tty0(name)
    \/ \E d \in Devices, nb \in BOOLEAN : open_fails(d, nb) \/ sys_open(d, nb)
    \/ \E fd \in Fd :
          \/ sys_close(fd) \/ close_fails(fd)
          \/ sys_dup(fd) \/ dup_fails(fd) \/ dup_exhausted(fd)
          \/ \E newfd \in Fd : sys_dup2(fd, newfd)
          \/ \E nb \in BOOLEAN : sys_fcntl(fd, nb)
    \/ \E t \in Terms : switch_terminal(t)

Spec == Init /\ [][Next]_fvars

-----------------------------------------------------------------------------
(* Properties. *)

Open(fd) == files[fd] # NULL

TypeOK ==
    /\ files \in [Fd -> FileIds \cup {NULL}]
    /\ file \in [FileIds -> [fops : {NULL, "chdev", "tty"}, inode : Devices \cup {NULL},
                             nonblock : BOOLEAN]]
    /\ pool \in Seq(FileIds)
    /\ tty \in [Devices -> [open : BOOLEAN, file : FileIds \cup {NULL}]]
    /\ attached \subseteq Devices
    /\ current \in Terms
    /\ fault \in {"no", "uninit", "null", "panic"}

(* No two descriptors share a struct file, none is on the free list, and nothing *)
(* is on the free list twice.                                                    *)
Owned(fs, free) ==
    /\ \A a, b \in Fd : fs[a] # NULL /\ fs[a] = fs[b] => a = b
    /\ \A a \in Fd, i \in 1 .. Len(free) : fs[a] # free[i]
    /\ \A i, j \in 1 .. Len(free) : free[i] = free[j] => i = j

(* No sequence of open, dup, dup2 and close makes two descriptors share a struct *)
(* file, leaves a descriptor on a struct that was freed, or frees one twice.     *)
FilesOwned == Owned(files, pool)

(* A call on one descriptor leaves what another descriptor refers to alone: its *)
(* device, its operations and its flags.                                        *)
DescriptorsIndependent ==
    [][\A fd \in Fd :
          Open(fd) /\ call'.fd # fd =>
              files'[fd] = files[fd] /\ file'[files[fd]] = file[files[fd]]]_fvars

(* The struct file of a descriptor that is closed, by close or by dup2, goes back *)
(* to the pool or is in use again: closing never leaks.                           *)
ClosedFileReturned ==
    [][\A fd \in Fd :
          CanClose(fd) /\ files'[fd] # files[fd] =>
              \/ \E i \in 1 .. Len(pool') : pool'[i] = files[fd]
              \/ \E e \in Fd : files'[e] = files[fd]]_fvars

(* alloc_fd's failure is noticed: open and dup report that there are too many *)
(* open files.                                                                *)
ExhaustionReported == fault # "uninit"

(* While a descriptor is open on the current terminal, keys have a tty to go to. *)
KeyboardHasTty ==
    (\E fd \in Fd : Open(fd) /\ file[files[fd]].inode = current) => fault # "panic"

(* tty->file, whose flags n_tty_read looks at, is a file description that is in *)
(* use as long as a descriptor is open on that TTY.                             *)
TtyFileConnected ==
    \A fd \in Fd : Open(fd) /\ file[files[fd]].fops # NULL =>
        \E e \in Fd : Open(e) /\ files[e] = tty[file[files[fd]].inode].file

(* dup2 makes newfd a duplicate of a descriptor that was usable. *)
DupIsUsable ==
    [][\A fd, newfd \in Fd :
          sys_dup2(fd, newfd) /\ fault' = "no" /\ CanClose(fd) =>
              file'[files'[newfd]] = file[files[fd]]]_fvars

(* A name without an inode is reported as not found. *)
NoInodeIsNoent == fault # "null"
=============================================================================
