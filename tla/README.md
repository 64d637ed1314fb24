# OH-WES kernel: TLA+ models, checks and proofs

This directory models the parts of the OH-WES kernel (a 32-bit i386 hobby
kernel, `src/src/`) and of its disk tool (`src/tools/fatfs/`) that keep state
across calls, interrupts and processes: the character ring, the serial port from
the UART's registers to `read()` and `write()`, the object pools, the file
descriptors, the virtual terminals, the PS/2 keyboard, interrupts up to the crash
screen, the debugger stub, the real-time clock, the console log, port
reservations, and the way of a file from the disk tool through both stages of the
boot loader into memory. Every definition is translated from the source;
`PROJECT.json` maps each one to its lines.

- **Runs** (`tlc -config X.cfg M`) check properties on small instances.
- **Theorems** (`tlapm M.tla` for `M` one of the eight modules `...Proofs`) hold for
  every value of the constants: 36 of them, about the ring, the file allocation
  table, the file descriptors, the pools, the terminals, the serial port, the
  keyboard, the debugger stub and the kernel services.
- **Mutants**: each checked property has a plausible bug of the code (operators
  whose name is the mutated definition's with a suffix) that makes TLC find it
  violated.

## 1. The system

### The machine the code runs on

One CPU, one task, no scheduler. What interleaves is the task's system call with
interrupt handlers and with devices:

- a system call runs with interrupts **on** (`entry.S:240` executes `sti`),
  except `sys_open`, which clears the interrupt flag around its work
  (`open.c:61`), and stretches between `cli_save` and `restore_flags`;
- a handler runs with interrupts **off** from its first to its last instruction;
  it is never preempted, and it never waits for the task without hanging the
  machine;
- the 8259 PIC is programmed **edge triggered**, and `handle_irq` acknowledges
  before it calls the handler: a source that becomes pending while the line is
  already high makes no new edge;
- devices (UART, peer, keyboard) move at any time, between any two instructions.

A stretch with interrupts off is therefore one atomic step with respect to other
software, but not with respect to the devices: `SerialTty` keeps the handler's
register reads as separate steps so that a character may arrive between them.

### Inventory

| Component | State | Operations | Interacts with | Hard part | What makes it correct |
|---|---|---|---|---|---|
| Ring buffer (`ring.c`) | buffer, head, tail, count | get, put, erase, insert, clear | used by N_TTY (input) and serial (output) | wrap in both directions; redundant `count` | indices in range; it is a double-ended queue |
| Serial driver (`serial.c`) | `struct com`: open, tty, tx ring, pending XON/XOFF, IER/MCR shadows | open, close, write, flush, throttle, start, stop, modem ioctls, interrupt handler | UART; called by N_TTY, calls N_TTY from the handler | task against handler; edge-triggered line; transmitter interrupt armed and disarmed in many places | output neither reordered, repeated nor stuck; XOFF obeyed; no interrupt lost |
| N_TTY (`tty_ldisc.c`) | input ring, throttled/stopped flags, termios | open, read, write, receive (echo, CR/NL, XON/XOFF) | driver below, `tty.c` above | room tests that go stale; unthrottle in two steps | input intact; a throttled peer is released again |
| TTY layer (`tty.c`) | `struct tty`: open, file, driver, ldisc, termios | open, close, read, write, ioctl | files above, ldisc and driver below | `open` and `file` outlive the descriptors | a descriptor refers to a connected device |
| Object pools (`pool.c`, `list.c`) | pool and chunk descriptors, two bit masks, free lists | create, destroy, find, alloc, free | file structs, inodes, dentries, I/O ranges | chunk found by address arithmetic; cached alloc pointer | no item handed out twice; assertions hold |
| File descriptors (`open.c`, `fs.c`, `sys.c`, `char.c`) | descriptor table, struct files, their pool | open, close, dup, dup2, fcntl | pools, TTYs, drivers | error paths; no reference counts | descriptors own their struct and are independent |
| Virtual terminals (`terminal.c`) | per terminal: control state, cursor, wrap flag, attributes, tab stops, saved state, lock bit; frame buffers, page mapping, VGA registers | putchar with ESC/CSI sequences, write, switch, console write | keyboard handler, task, kernel messages, VGA | switch and echo in a handler while the task prints; boundaries of the screen | text lands once and in place; the shown frame is the current terminal's |
| PS/2 keyboard (`ps2kb.c`, `ps2.c`) | scancode prefix, modifier and lock state, lights, command exchange, controller configuration | init, interrupt handler, kb_sendcmd, kb_getc | terminals (input, switch), crash screen | one byte per interrupt; refused, late and lost answers while keys are typed | the text is what the user means; no modifier stuck; no byte left in the controller |
| Interrupt dispatch (`irq.c`, `pic.c`, `entry.S`) | handler lists, PIC masks, in-service bits | register, mask, EOI, spurious check, exceptions | every driver | a handler that crashes and never returns | keys still reach the crash screen |
| Timer, speaker (`timer.c`) | beep countdown | interrupt, beep | terminals (BEL), crash screen | a crash while the speaker is on | a beep ends |
| Crash screen (`crash.c`, `panic`) | crash flags, masks | exceptions, double fault, crash keys, wait for a key | interrupts, keyboard | runs on top of whatever was interrupted | ends by reset or waits with what it needs unmasked |
| RTC (`rtc.c`) | register B, rate, time and alarm registers | init, time, alarm, rate and enable ioctls | the chip | BCD and 12-hour forms; the chip counts between two register accesses | a time read is a time that was; enables survive |
| Console (`console.c`) | list of consoles, circular log | register with replay, unregister, write | serial and terminal consoles | log wraps before a console registers | a new console gets what is kept, once |
| I/O ranges (`io.c`, `list.c`) | ordered list of ranges, their pool | reserve, release | drivers | ordered insertion; pointers both ways | no overlap granted |
| Debugger stub (`gdbstub.c`) | packet buffers, register file, single-step state | packet loop, acknowledgements, resume | serial line, traps | lost and garbled characters, late acknowledgements | what GDB shows is what the kernel has; it resumes only as told |
| FAT disk tool (`tools/fatfs`) | FAT in memory, directories, data on the image | create, add, mkdir, attr, extract, type, touch | the image file, the boot loader | 12-bit entries in shared bytes; the FAT written last; death between two writes | files intact; clusters neither lost nor shared |
| Boot loader (`stage1.S`, `stage2.S`) | load addresses, retry counts, BIOS results | find and load BOOT.SYS, then OHWES.SYS | the image, the BIOS | never reads the FAT; failing reads | what runs is what was added |

Also in the repository: CPU tables and paging, VGA helpers, C library, kernel
start and self tests. Section 7 says why they are not modelled.

## 2. Modules

| Module | Models | State |
|---|---|---|
| `Deque` | abstract: the queue `queue.h` documents | a sequence, last results |
| `Ring` | `ring.c`, one action per function | the fields of `struct ring` |
| `StructureProofs` | theorems about `Ring` and `FatTable` | |
| `Uart` | 16550 and PIC as the driver uses them (external) | fields of the record `k` |
| `Serial` | `serial.c`: one operator per function, from `k` to the `k` it leaves | fields of `k` |
| `NTty` | `tty_ldisc.c`, the parts that run uninterrupted | fields of `k` |
| `SerialTty` | composition: system calls of the task, steps of `com_interrupt`, UART, peer | `k`, `task` (pc and locals), `isr` (pc and locals), `hist` (history) |
| `SerialProofs` | theorems about `SerialTty` | |
| `MCSerialTty` | constants of its instances (flag sets, buffers) | |
| `Allocator` | abstract: what `pool.h` promises | items in use |
| `Pool` | `pool.c` with its assertions (DEBUG build) and panics | descriptors, masks, free lists |
| `PoolProofs` | theorems about `Pool` | |
| `Files` | `open.c`, `fs.c`, `char.c`, `tty_open`/`tty_close` and both drivers' open/close, the keyboard's use of the current terminal | descriptor table, struct files, pool, TTYs |
| `FilesProofs` | theorems about `Files` | |
| `Terminal` | `terminal.c` on one terminal: one operator per function; `body` is `terminal_putchar` under its lock | a terminal record |
| `Teletype` | abstract: plain text typed on a sheet of paper | lines, row, column |
| `VirtualTerminals` | composition: terminals, task, keyboard handler, kernel messages, VGA, page mapping | terminals, frames, mapping, registers |
| `VtProofs` | theorems about `VirtualTerminals` | |
| `KeyMap` | key codes, scancode and character tables of `ps2kb.c` and `input.h` | |
| `Keyboard` | `ps2kb.c`, `ps2.c`, with the 8042, the keyboard and the user (external) | driver, CPU, controller, device, user, text out |
| `KeyboardProofs` | theorems about `Keyboard` | |
| `Interrupts` | `irq.c`, `pic.c`, `timer.c`, `crash.c`, `panic`, the gates of `entry.S` | both 8259s, handler table, speaker, keyboard byte and port, printing bit, stack of interrupted contexts |
| `Gdb` | `gdbstub.c`, with the stopped kernel, GDB and the line (external) | stub, debug port, target, two channels, host |
| `GdbProofs` | theorems about `Gdb` | |
| `Rtc` | `rtc.c` beside the chip (external) | registers, the call under way, what was asked for |
| `Console` | `console.c` | list of consoles, log, calls under way, output |
| `IoRanges` | `io.c` over the pointers of `list.c` | prev, next, items, granted ranges |
| `KernelServices` | `Ring`, `Rtc`, `Console` and `IoRanges` in one run | `service`: which one the behaviour exercises |
| `ServicesProofs` | theorems about `Rtc`, `Console` and `IoRanges` | |
| `FatTable` | 12-bit FAT entries in bytes, searches | a function from byte index to byte |
| `FatNames` | short and long names of directory entries | |
| `FatDisk` | the commands of the disk tool, one sector write at a time | image, the process's memory, its queue of writes |
| `BootLoader` | both boot stages on such an image, with the BIOS (external) | loader stage, memory |
| `MCFat` | names and paths of its instance; long-name checks as assumptions | |

How they compose: `SerialTty` EXTENDS `NTty` EXTENDS `Serial` EXTENDS `Uart`. The
rings in them are sequences; this is what `Ring` implementing `Deque` justifies.
`Files` uses the free list of the file pool as a sequence with take-from-front
and put-in-front, which is what `Pool` does (its definition `AllocIsFront`).
`VirtualTerminals` EXTENDS `Terminal`. `BootLoader` EXTENDS `FatDisk`, which
EXTENDS `FatTable` and `FatNames`: the loader boots from images the tool has
made, at any point between two commands.

**State and actions of `SerialTty`.** `k` gathers `struct tty`, `struct com`, the
input ring and the UART's registers in one record, so that each C function is one
operator on it. The task's control points are the places where an interrupt can
change the outcome: between the room test and the write in `opost`, between
`ring_get` and the unthrottle test in `n_tty_read`, inside `unthrottle_tty`
(clear the flag, then call the driver), between the two stores of
`serial_close`. The handler's are its register reads: IIR, LSR, each RX, MSR, and
the end of a pass. The peer honours flow control (`PeerMaySend`); the data it
sends are distinct characters, so that a duplicate or a swap shows.

**`Pool`** has `halt`: a failed assertion, a panic, or a list torn because a chunk
taken for a new pool was still linked in another pool's list. `AnyOrder = FALSE`
is the way the kernel and its tests use pools: last created, first destroyed.

**`Files`** has `fault`: a wild or null dereference or a panic stops the model.
The pool of struct files holds 16 because `fs.c` passes size and capacity to
`pool_create` in exchanged order. File structs leaked by the error paths of open
are part of the behaviour: `open_noent`, `open_fails`.

**`VirtualTerminals`**: the lock bit, the work under it, the `is_current` test,
the register writes and the unlock are five steps of the task. A handler that
finds the lock bit set either drops the character (`vt_console_write`) or retries
for ever (`terminal_write`): the state "spin". Colours of a cell are left out
(they are a function of the attributes), the attributes are kept.

**`Keyboard`** cuts a driver call where it polls the controller: between a byte
written and its answer the keyboard goes on sending. The user presses and
releases keys; `Typed` says, independently of the driver's tables and flags, what
text the user means. The keyboard may be "full", "noread" (the scancode set
cannot be read back) or "fixed" (it has no set command).

**`Interrupts`**: a handler is one step because it runs with interrupts off,
unless it crashes; then the crash context goes on top of `stack` and stays. What
a handler had acknowledged by then, and what the crash code unmasks, decides
whether the keyboard still gets through. A key that the CPU can take is taken
before the next tick. `printing` is the reentrancy bit of the current terminal:
kernel messages, a task's write and the crash screen set it while they print, a
bell sounds under it, and a fault, a key or a tick may come at that moment. Then
the crash screen (`fbwrite`), or an echo, loops for ever with interrupts off: the
context "hung". A key pressed before `init` has opened its terminal panics in
`kb_putq`, inside the handler, so that the port stays disabled (`kb.on`).

**`Gdb`**: a packet to the stub is four characters (start, command, end,
checksum), so that the stub's `gdb_getc` can time out and the line lose or garble
between them. GDB acknowledges, retransmits and gives up as its protocol says.

**`FatDisk`**: everything a command writes goes through `queue`; a kill drops the
rest of the queue. A cluster has three cells, a cell is a byte of a file or an
entry of a directory.

**`Rtc`**: one step for each register access that the chip can interleave with;
`truth` is what the callers asked for, advanced by the chip alone.

## 3. Runs

Deadlock checking is off where the system does stop in the model: after a panic,
fault, failed assertion or reset (pool, files, vt, interrupts), and where the
bounds on calls, keys and commands are spent (serial, keyboard, fat, services).
It is on in terminal and gdb.

| Run | Module, cfg | Question | Properties |
|---|---|---|---|
| services | KernelServices, KernelServices.cfg | Is the ring a double-ended queue through every wrap? Does the clock keep what it was told while the chip counts? Does every console get the whole log? Are reserved ranges disjoint? | EndsMeet, ImplementsDeque, TimeKept, NothingUnprinted, RangesDisjoint |
| serial_input | MCSerialTty, SerialInput.cfg | Under XON/XOFF and RTS at once, is input intact, and do reader and peer never wait for each other? | TypeOK, InputIntact, PeerNotForgotten, NoMutualWait |
| serial_output | MCSerialTty, SerialOutput.cfg | Does what the transmit ring took go out in order, obey XOFF, and drain? | OutputIntact, TxArmed, XoffObeyed, OutputDrains, InputServed |
| serial_life | MCSerialTty, SerialLife.cfg | Does this survive open, close, reopen, failed open, echo and TCSETS? | OutputIntact, TxArmed |
| pool | Pool, Pool.cfg | Do pools that compete for chunks implement the allocator? | NoCrosstalk, AssertsHold, ImplementsAllocator |
| files | Files, Files.cfg | Who owns a struct file after any mix of calls? | FilesOwned, DescriptorsIndependent, ClosedFileReturned |
| terminal | VirtualTerminals, Terminal.cfg | Does every control sequence keep wrap flag and VGA registers right? | WrapAtEdge, VgaAgrees |
| vt | VirtualTerminals, Vt.cfg | Does printed text land once and in place whatever handler and switch do? | ShownIsCurrent, ImplementsTeletype |
| keyboard | Keyboard, Keyboard.cfg | Whatever the order of keys and however commands fail, is the text what the user means and nothing stuck? | TypeOK, KeystrokesMeanText, AssertsHold, LedsBelieved, ScancodesAreSet1, InputDrains |
| interrupts | Interrupts, Interrupts.cfg | After a crash anywhere, are keys taken and does the speaker stop, unless the code loops on the printing bit? | KeysTaken, SpeakerStops |
| gdb | Gdb, Gdb.cfg | Over a faulty line, does GDB see the truth, and is it always answered? | HostKnows, ResumedAsTold, HostServed |
| fat | MCFat, Fat.cfg | Do files and free space survive commands and their death, and does the loader run what was added? | FilesIntact, SpaceAccounted, BootRunsWhatWasAdded |

What the code does wrong is kept out of these runs by a constant or is not the
property's subject; section 6 gives the change of a cfg that shows each case.

### Bounds and why they suffice

- **services**: a ring of 3 slots and 2 characters wraps in both directions, and
  full, empty and in-between states all differ (the proofs lift this bound). The
  clock: all four formats, times whose next second carries into 12, 13 and 0
  hours and into 2000, two calls and two seconds, which puts an update between
  any two register accesses. The console: a log of 5 characters and 4 messages of
  1 to 5, one longer than `KPRINT_MAX`; the log wraps before and after a console
  registers. Ranges: the four serial ports in every order, 5 items.
- **serial**: FIFOs of 2, output ring of 3, input buffer of 3 with a threshold of
  2, 2 characters per transmit burst and 2 per receive loop, at most 4 characters
  from the peer and 2 calls (4 in serial_life) besides reads. Each limit of the
  code (FIFO full, trigger level, throttle threshold, ring full, burst limit)
  can be reached and exceeded by one, with characters left to observe the effect.
  Each run enables the calls its question needs. serial_output has trigger level
  1, since its peer sends only XON and XOFF and at most two of them.
- **pool**: 3 pools, 5 chunks, capacities 1 to 3: pools run out, chunks run out,
  and free lists of length 0 to 3 are permuted by frees in every order.
- **files**: 2 descriptors, 3 file structs, 2 terminals, one absent port: the
  table fills before the pool, error paths then drain the pool.
- **terminal**: 3 x 2 cells, 2 parameters, tab stops every 2 columns. Every motion
  reaches each edge. `MaxParam` stops the growth of numeric parameters beyond two
  digits (no integer overflow is modelled). The text is blanks so that the cells
  do not multiply the states; vt is about the cells. `TopReverse = FALSE` keeps
  ESC M off the top line (section 6).
- **vt**: 2 terminals of 2 x 2 cells, one letter, LF, echoed BS, kernel message CR.
- **keyboard**: 8 keys (CTRL, SHIFT, ALT, NUM LOCK, a letter, a keypad
  digit, a cursor key, PAUSE), 4 key events, two
  faults: enough to hold two modifiers while a third key moves, and for a retry
  to fail. Faults at run time are late answers, at boot refused commands.
- **interrupts**: 2 keys, one each of faults, spurious interrupts and bells, all six
  crash keys, with a PS/2 controller that works or does not: a crash on top of a
  crash, and a key after it.
- **gdb**: 2 words (one zero, one not), 2 faults of the line: a packet and its
  retransmission can both fail.
- **fat**: 5 clusters of 3 cells, files of 1 and 3 clusters, 3 root entries, 4
  commands, 1 kill: the disk, the root directory and a subdirectory fill, and a
  file is overwritten by a longer or shorter one. Two adjacent 12-bit entries
  share a byte in both positions.

### Fairness

`FairSpec` of `SerialTty` (serial_output) has weak fairness of: the handler (the
CPU takes a latched interrupt when interrupts are on and runs it to its end), the
UART's receive timeout and its transmitter (hardware), and the steps of a system
call that was begun (nothing else runs on the CPU except the handler, which
returns). Nothing makes the peer send, CTS change, or the task make a call.
`OutputDrains` and `InputServed` have one escape besides XOFF: `Wedged`, the state
in which the edge was lost, which is reachable (section 6, `NoLostInterrupt`).
They say that a lost edge is the *only* way to get stuck.

- `Keyboard`: weak fairness of the driver (its calls and handler run to their end)
  and of the keyboard and controller delivering a byte when the port is free.
  Not of the user.
- `Interrupts`: the timer ticks, the CPU takes an interrupt it can take, a character
  under way is finished when nothing interrupts it, and boot and the crash screen
  go on to their next step. For boot this is strong fairness: it prints between
  two steps, a finite number of characters. The one loop of the crash screen
  that may not end is modelled ("hung"). Not of keys, faults, bells or the task.
  `KeysTaken` and `SpeakerStops` have that state as their escape, and `KeysTaken` asks
  for an enabled port: they say that there is no other way to lose the keyboard or
  the speaker.
- `Gdb`: the stub's steps and its time-outs, the resumed kernel's instructions, the
  port interrupt, and GDB reading and timing out. The line's faults are bounded
  (`MaxNoise`), as any protocol that retransmits must assume.

## 4. Theorems

Each theorem holds for every value of the constants that satisfies the `ASSUME` of
the component's module. Where the statement has a premise, the code needs it:
section 6 or the text below says what happens without.

| Theorem | Statement |
|---|---|
| `StructureProofs!RingSafe` | `Spec => [](TypeOK /\ EndsMeet)` |
| `StructureProofs!RingImplementsDeque` | `Spec => ImplementsDeque` |
| `StructureProofs!TableIsArray` | `EntriesOf(SetCluster12(fat, k, v)) = [EntriesOf(fat) EXCEPT ![k] = v]`, for every table, entry and value |
| `StructureProofs!AllocatedOnce` | for every table with a free cluster: the one `FindNextFreeCluster` finds is free, and once marked it is not free any more, one less is counted, no other entry has changed |
| `StructureProofs!NewTableIsFree` | in the table `InitFat12` makes every cluster is free, and entry 1 is an end mark |
| `FilesProofs!FilesSafe` | `Spec => []FilesOwned` |
| `FilesProofs!FilesIndependent` | `Spec => DescriptorsIndependent` |
| `FilesProofs!FilesReturned` | `Spec => ClosedFileReturned` |
| `PoolProofs!PoolsApart` | `AnyOrder = FALSE => (Spec => [](NoCrosstalk /\ AssertsHold))` |
| `PoolProofs!PoolAssertsHold` | `AnyOrder = FALSE => (Spec => []AssertsHold)` |
| `PoolProofs!PoolsAllocate` | `AnyOrder = FALSE => (Spec => ImplementsAllocator)` |
| `VtProofs!WrapPendsAtEdge` | `Spec => []WrapAtEdge` |
| `VtProofs!CurrentIsShown` | `Spec => []ShownIsCurrent` |
| `VtProofs!VgaFollows` | `Spec /\ [][SwitchWaits]_vars => []VgaAgrees` |
| `VtProofs!VgaFollowsAlone` | `NR_TERMINAL = 1 => (Spec => []VgaAgrees)` |
| `VtProofs!TextOnPaper` | `PlainText /\ SmallScreen => (Spec => ImplementsTeletype)` |
| `SerialProofs!SerialTypes` | `Spec => []TypeOK` |
| `SerialProofs!OutputInOrder` | `Spec => []OutputIntact` |
| `SerialProofs!XoffIsObeyed` | `Spec => XoffObeyed` |
| `SerialProofs!TxStaysArmed` | `Spec /\ [][CtsHeld]_vars => []TxArmed` |
| `SerialProofs!TxArmedWithoutCts` | `NoRtsCts => (Spec => []TxArmed)` |
| `SerialProofs!PeerReleased`, `PeerRemembered`, `NobodyWaits` | `Spec /\ [][FlowKept]_vars => [](PeerNotForgotten /\ NoMutualWait)`, and each by itself |
| `SerialProofs!InputArrives` | `Opened /\ PlainInput => (Spec /\ []OpenPortHasTty => []InputIntact)` |
| `SerialProofs!InputArrivesOpen` | `Opened /\ PlainInput /\ "close" \notin Calls => (Spec => []InputIntact)` |
| `ServicesProofs!TimeIsKept` | `ServicesSpec /\ []Before2090 => []TimeKept` |
| `ServicesProofs!LogIsComplete` | `MaxNested = 0 => (ServicesSpec => []NothingUnprinted)` |
| `ServicesProofs!RangesStayDisjoint` | `NoneReachesUp => (ServicesSpec => []RangesDisjoint)` |
| `KeyboardProofs!KeyboardTypes` | `Spec => []TypeOK` |
| `KeyboardProofs!SetOneChosen` | `OnlyRefuses => (Spec /\ []FewRefusals => []ScancodesAreSet1)` |
| `KeyboardProofs!LightsBelieved` | `OnlyRefuses /\ OnlyDelays => (Spec => []LedsBelieved)` |
| `KeyboardProofs!PrefixesApart` | `OnlyRefuses /\ OnlyLate => (Spec => []AssertsHold)` |
| `KeyboardProofs!TextIsMeant` | `OnlyRefuses /\ OnlyLate /\ PlainKeys => (Spec => []KeystrokesMeanText)` |
| `GdbProofs!HostIsRight` | `Orderly => (Spec => []HostKnows)` |
| `GdbProofs!KernelResumesAsTold` | `Orderly => (Spec => ResumedAsTold)` |

**Ring.** Assumed: `Length` is a positive natural and NUL a character.
`TypeOK /\ EndsMeet` is inductive: `EndsMeet` (tail is head plus count, wrapped
once) is what keeps `ring_put` and `ring_insert` off the characters in the queue,
and TypeOK alone does not give it. The refinement maps the buffer to the sequence
of the `count` characters that start at head, wrapping (`Contents`, `Slot`). Each
of the five functions has a lemma: under the invariant it is the corresponding
`Deque` operation, result included. `ring_insert` shifts the index of every
character; the lemma compares the two slots position by position.

**File allocation table.** Assumed: the number of clusters is one FAT12 can have
(1 to 4084). Three bytes hold two entries of 12 bits, and a store to one of them
rewrites a byte the other lives in. The lemmas split an entry's number into even
and odd: what `SetCluster12` leaves in the two bytes it touches (`EvenStored`,
`OddStored`), and what `GetCluster12` makes of them; the neighbour keeps its half byte,
every other entry has other bytes. That the table is an array follows, and is what
allocation rests on: the first free cluster exists by the least-number argument.

**Files.** Assumed: positive sizes, and NULL is neither a device nor a struct.
`FilesOwned` becomes inductive with the shape of the table and of the pool (`OInv`).
`Effects` reduces the calls to five effects on table and pool (nothing; take a
struct and lose it, as the error paths do; take and install; close; close then
install, for dup2), and one lemma on `Owned` per effect does the rest. So the
struct files are never shared or used after free, for any number of descriptors
and structs, although `open.c` has no reference counts. The two action properties
follow: a call on one descriptor writes only a struct that no other descriptor
owns, and every path through `sys_close` puts the struct back.

**Pools.** `PInv`: live pools lie one behind the other without a gap from chunk 0
(`Stacked`), a free list holds chunks of its own pool, each once, its front being
the alloc pointer (`Listed`), the chunks on it are exactly those whose item nobody
holds (`Marked`), and only items of live pools are held. `Stacked` is where the order of destruction enters:
`pool_create` takes the first free bits of the chunk mask, whatever their
distance, and `pool_alloc` finds an item by `chunk_base + index`. With
`AnyOrder = TRUE` a pool gets scattered chunks and the assertions fail (section
6). Which bits the search finds is settled by least-number induction, taken from
the well-foundedness of `<` on the naturals. `PoolsAllocate` maps an item's state
to its chunk's `data` flag.

**Virtual terminals.** `VInv`: every terminal is within its bounds, with a pending
wrap only in the last column (`Edge`), its lock bit is set exactly while the task
is printing on it, and the visible frame is the current terminal's. Each function of `terminal.c` has a lemma
that it keeps `Edge`; tab stops need the least-number lemma. `AInv` adds that the
VGA registers are those of the current terminal except for the ones the task still
owes (`Owed`, `Shows`). `SwitchWaits` says that no switch comes between the task's
`is_current` test and its register writes, the window of section 6; with one
terminal there is nothing to switch to, and the premise falls away.
For `TextOnPaper` there is a third invariant, `PInv`: every terminal is in its normal
state with the cursor on the sheet, its frame holds marks only, and what the task
prints is one of the characters of the text. Each character is one of five movements (it rests, feeds a line,
returns, backs up, types a mark), and for each a lemma says that the frame, cut
into rows and columns, and the cursor change as the paper does; the heart of it is that
two places on the screen have two cells (`PlacesApart`) and that scrolling moves every
row up (`ScrollSheet`). Since a text typed on paper makes no use of escape sequences
and tab stops, `PlainText` leaves ESC and HT out; `SmallScreen` is there because
`xy2pos` returns 16 bits.

**Serial port.** `SInv` holds the types, what the places of task and handler imply
(a handler about to read has a character to read), and `Sound`: what was accepted
is what is on the wire followed by `tx_ring`. A separate predicate, `Armed`, says
that the transmitter is armed while `tx_ring` may go. `OInv` says that nothing happens on a port before its first open,
`FInv` that from the peer's XOFF to its XON the port is stopped, `Peer` that the
last word to the peer, sent or pending, agrees with `throttled` and the reader's
place, and that a throttled port has something to read or a reader about to look.
`OutputInOrder` is about order and number only: `acc` is what `tx_ring` took, not what
a full ring refused, and `wire` is what the driver wrote to the UART, also when the
transmit FIFO was full (section 6, `WriteIsTruthful` and `NoXmitOverrun`).
Every operator of `Serial`, `NTty` and `Uart` has a lemma that says which fields
it changes (`Same`) and what it does to the output; the steps of `SerialTty` then
need only those. `CtsHeld` and `NoRtsCts` exclude the swapped CTS branches,
`FlowKept` the TCSETS that forgets a throttled peer (section 6).
`InputInv` is about the input: what the peer sent, as far as it is data, is what was read, then the
task's, the line discipline's and the handler's characters, then the FIFO's, each
once and in order, minus the characters a full FIFO or buffer dropped. The premises:
`Opened`, for `serial_open` discards what came before it; `PlainInput`, no flag
translates or discards what the peer sends; and `OpenPortHasTty`, which
`serial_close` breaks (section 6), or no close at all.

**Real-time clock.** `RtcInv` relates, at each register access of a call, the
registers not yet read or written to the time asked for, in the format register B
has (`Running`, `Halted`, `Waiting`, `Result`); its core are the lemmas that the
conversions BCD/binary and 12/24 hours are inverse to each other for every hour
and every two-digit value. Without `Before2090` the claim is false: the driver
takes the digits 90 for 1990.

**Console.** `ConsoleInv`: the log, read from its start and wrapped, is the last
`LogSize` characters printed (`Holds`), and each console has got what was logged
when it registered and all since, but for the line under way. With a nested print
(`MaxNested = 1`) the property fails, section 6.

**I/O ranges.** `IoInv`: there is a numbering of the items along `next` that `prev`
follows backwards (`Linked`), in the order of the bases and without overlap
(`InOrder`). `NoneReachesUp` says that of two ranges drivers ask for that overlap,
neither starts below the other: `reserve_io_range` looks at the end of the range
below and at the base of the one above (io.c:94).

**Keyboard.** Five inductive invariants, each on top of the one before: `Types`;
`SetInv`, which says for every place in `init_kb` which bytes are on their way to the driver
(`None`, `One`, `Two`, `Three`), how many refusals must have happened to get there, and which
set the keyboard sends (`SetAt`); `LedsInv`, the same for the exchange of the
lights while keys are typed: the byte for the lights is written only while the
keyboard waits for it; `CodesInv`: the bytes that wait, from the controller's to
the last one typed, contain no prefix without what it announces
(`WellFormed(Pending)`), and begin with what the flags `e0` and `e1` expect
(`Follows`); and `TextInv`. The text is behind the user by the bytes on their way, and
each of them changes what the next one means, so `TextInv` says where they end:
from the state the driver is in (`Seen`, or where the handler that runs will leave it,
`Finish`) the bytes of `Pending`, eaten one after the other (`Eat`), lead to the
state of the user (`Meant`: modifiers held, locks, the ALT code modulo 256, terminal,
text), and the text only grows on the way (`Leads`). An interrupt takes the first step
of the path (`LeadsOn`); a key makes it longer, by bytes that lead from what the user
meant before to what he means now (`PressLeads`, `ReleaseLeads`). The latter is where
the tables are: for each key of the model its make code leads back to the key
(`Codes`), and what the handler does with it is what `Typed` says (`PressMeans`).
PAUSE goes through its six bytes and ends where it began, CTRL included
(`PauseLeads`). When nothing is on its way the path has no steps. Premises:

- `OnlyRefuses`: at boot the keyboard only refuses. A late answer at boot kills the
  keyboard (section 6).
- `FewRefusals`: fewer than `2 * RETRY_COUNT` refusals while `init_kb` runs. A
  keyboard that refuses the choice of set 1 and then the return to the old set
  as often as they are tried is left in a set the driver takes for the other.
- `OnlyDelays`: when the driver is ready, answers come late or behind a scancode.
  A refused data byte falsifies what the driver believes (section 6).
- `OnlyLate`: answers come late only. A scancode taken for an answer is lost to
  `kb_interrupt`, and if it was the one that ends E1, the next E0 makes both.
- `PlainKeys`: no false shifts, no lock key held until it repeats, and no key that
  has a sequence together with SYSRQ (section 6, one row for each).

**Debugger stub.** `HostKnows` relates the host's picture to the kernel only while
the host holds it stopped; what makes it so again after a command is in flight. `GInv`
says what that is, by phase: no command is open (`Idle`); it is on its way or lost,
and the stub has read none, some or all of its four characters (`Sent`, `Reading`);
the stub has it (`Obeying`); it has obeyed (`Answered`); or it has left for good
(`Detached`). Towards the stub there are acknowledgements around at most one packet,
its rest, or ^C (`Around`, `OnLine`); towards the host packets it will discard
(`Quiet`), then the command's `+` (`Marked`), then only answers from which it learns
what is so (`Right`). A `+` that was lost makes the host send a command the stub has
obeyed already, so between the two it knows everything but the effect of the command
under way (`KnowsBut`), and the commands that are sent again are the ones that do the
same twice. `ResumedAsTold` follows: the stub leaves only from `Obeying`.
`Orderly` excludes the three cases of section 6, one premise for each; the number
of losses (`MaxNoise`) and the words are arbitrary.

**What only TLC shows.** Liveness (`OutputDrains`, `InputServed`, `InputDrains`,
`KeysTaken`, `SpeakerStops`, `HostServed`), which the proof system does not reach.
The invariants of
`FatDisk` and `BootLoader` (`FilesIntact`, `SpaceAccounted`, `BootRunsWhatWasAdded`),
which follow cluster chains and directory paths, recursive definitions over a whole
image: induction over data. The theorems about the table say what one link of a chain
may rely on.

## 5. Hazards

`PROJECT.json` "hazards" lists what a test would hardly reach, at its line, with
the property that covers it. Where the code itself fails at a hazard, section 6
says how to see it.

## 6. Known deviations

Here the code does not do what its comments, its names or its callers expect. To
see a case, change the cfg of a run as the table says and check the property
named, with `CHECK_DEADLOCK FALSE` (as a PROPERTY: FindByName, DupIsUsable,
ResumedAsTold, InputDrains and SerialTty's HandlerReturns; the others as an
INVARIANT). For `Interrupts` the change is to the property, in the module.

| cfg | Change | Property | What the code does |
|---|---|---|---|
| SerialInput | Calls = {"close"}, DefaultTermios <- Default | OpenPortHasTty | `serial_close` clears `com->tty` before `com->open`, with interrupts on; the handler in between uses a null pointer (serial.c:465) |
| SerialInput | Calls = {"open", "close"} | DescriptorIsOpen | `tty->open` survives close; the next open skips the driver and returns a dead descriptor (tty.c:148, 262) |
| SerialOutput | DefaultTermios <- RtsCts, Bufs <- WordBuf, MaxCts = 2 | TxArmed | rising CTS disables the transmitter interrupt and falling CTS enables it (serial.c:889, 898) |
| SerialInput | Calls = {"read", "write"}, Input = {97, 98, 99, 19}, DefaultTermios <- XonXoff, Bufs <- LetterBuf | XcharArmed | `serial_stop` disarms the transmitter with an XON/XOFF pending (serial.c:662) |
| SerialInput | | ThrottledMeansStop | between clearing `tty->throttled` and the driver call in `unthrottle_tty` the receive interrupt may throttle again; the XON that follows overwrites the pending XOFF (tty_ldisc.c:349) |
| SerialOutput | | NoLostInterrupt | `com_interrupt`'s loop of up to 16 passes has its exit test inverted and leaves after the first; a source that becomes pending in that pass makes no new edge (serial.c:1046) |
| SerialOutput | Input = {97, 98}, DefaultTermios <- EchoCooked, Bufs <- WordBuf | WriteIsTruthful | echo uses up the room `opost` has tested; the character counts as written (tty_ldisc.c:170, 294) |
| SerialInput | Calls = {"write", "read"}, Bufs <- WordBuf | NoXmitOverrun | XON/XOFF is not counted against the 16 characters of a burst (serial.c:951) |
| SerialInput | DefaultTermios <- Ignore, Input = {97, 13}, FairSpec | HandlerReturns | with IGNCR, `continue` skips the loop increment (tty_ldisc.c:235) |
| SerialInput | Calls = {"read", "tcsets"} | PeerNotForgotten | flags changed while throttled; the peer is never released (tty.c:382) |
| Pool | | FindByName | `find_pool` returns the last pool it looked at (pool.c:206) |
| Pool | AnyOrder = TRUE | AssertsHold | after a pool in the middle was destroyed a new one gets scattered chunks, and `chunk_base + index` is another pool's (pool.c:267) |
| Files | | ExhaustionReported | the test for ENOMEM lacks the sign (open.c:73) |
| Files | | KeyboardHasTty | one close detaches the terminal for the other descriptors; the next key panics (terminal.c:119) |
| Files | | TtyFileConnected | `tty->file` is the file opened last, also after it was closed (tty.c:254) |
| Files | | DupIsUsable | `dup2(fd, fd)` copies from the struct it has just freed (open.c:178) |
| Files | | NoInodeIsNoent | an entry without inode is dereferenced (fs.c:117) |
| Vt | | HandlerReturns | a key echoed to the terminal on which the task is printing loops in the handler for a lock only the interrupted task can release (terminal.c:570, 585) |
| Vt | | VgaAgrees | a switch between the `is_current` test and the write leaves the old cursor on screen (terminal.c:677) |
| Terminal | TopReverse = TRUE | TypeOK | ESC M on the top line wraps the 12-bit cursor row (terminal.c:1035) |
| Keyboard | FaultKinds = {"nak"}, Typeahead = 2 | KeystrokesMeanText | a command refused at run time: the scancode that comes before the resend's answer is taken for it and lost (ps2kb.c:820) |
| Keyboard | FaultKinds = {"nakdata"} | LedsBelieved | the answer to the data byte of the light command is ignored (ps2kb.c:676) |
| Keyboard | BootFaults = {"late"} | InputDrains | a late answer is taken for the controller's configuration and written back: the keyboard is dead (ps2kb.c:143) |
| Keyboard | FakeShift = TRUE | KeystrokesMeanText | the false shift codes some keyboards put around cursor keys change the modifiers |
| Keyboard | Repeating = {30} | KeystrokesMeanText | a lock key held down toggles with every repetition (ps2kb.c:383) |
| Keyboard | Keys = {28, 121} | KeystrokesMeanText | a cursor or function key held with SYSRQ sends its sequence: the test for SYSRQ comes after (ps2kb.c:536) |
| Interrupts | `Hung` dropped from `KeysTaken` | KeysTaken | an exception while the kernel or the task prints, or while the crash screen itself does: the crash screen adds what `terminal_putchar` returns, which is 0 for ever, with interrupts off (crash.c:456, terminal.c:585); the same loop holds a key's echo |
| Interrupts | `Hung` dropped from `SpeakerStops` | SpeakerStops | the same, while the speaker is on, as it is under the bit of a BEL: no tick comes to turn it off |
| Interrupts | `kb.on` dropped from `KeysTaken` | KeysTaken | a key before a tty is attached panics in `kb_putq` between `kb_disable` and `kb_enable`: no later key is taken (ps2kb.c:221, 275) |
| Fat | Sizes = {0, 3} | SpaceAccounted | an empty file is given a first cluster that the next file is given too |
| Fat | AfterKill = TRUE | FilesIntact | after a kill the directory names clusters the FAT calls free; the next command reuses them (FatDisk.cpp:301) |
| Fat | MissingParents = TRUE | FilesIntact | `add` to a directory that does not exist puts the file in the root |
| Gdb | RaceCtrlC = TRUE | HostKnows | a ^C that crosses a stop reply: the stub leaves with its interrupts off and the kernel runs while GDB holds it stopped (gdbstub.c:210) |
| Gdb | BadRequests = TRUE | ResumedAsTold | packets that are malformed or too long are obeyed with what an earlier one left in the buffer |
| Gdb | NoisyCommands = TRUE | ResumedAsTold | a packet with a wrong checksum is refused with a NACK and then obeyed (gdbstub.c:537) |
| KernelServices | MaxNested = 1 | NothingUnprinted | a handler's message in the middle of a task's overwrites a logged character that is not counted yet, and consoles get lines in another order than the log (console.c:154) |
| KernelServices | Ranges <- UnevenMC | RangesDisjoint | a range that starts below another and reaches into it is granted (io.c:94) |

Read in the source while modelling, without a configuration:

- *RTC.* `init_pic` masks the cascade line with everything else and nobody unmasks
  it, so no interrupt of the second PIC arrives; `rtc_read` never returns, and
  `rtc_open` is an assertion that fails. The day is not checked against the month.
- *Interrupts.* A spurious IRQ 15 leaves the cascade in service. `_IRQ_ENABLED` tests
  the wrong bits. A beep shorter than a tick never ends. A fault inside the
  keyboard's handler leaves the port disabled, as its panic does. `console_getc` tests `&&` for `||`.
- *I/O ranges.* `init_io` passes item size and capacity to `pool_create` in exchanged
  order; refused and released ranges keep their pool item; `check_io_range` always
  answers -EBUSY.
- *Keyboard.* `kb_getc` never returns NUL and returns negative numbers above 127; a
  "noread" keyboard that refuses the scancode command every time ends untranslated.
- *Disk tool.* `mkdir` in the root works only as the first entry of an unlabelled
  disk; a failed `mkdir` leaves an empty file entry; a full directory is written
  past its table; an `add` that exactly fills the disk from a subdirectory leaks
  its clusters; `touch` never writes; `FileExists` closes a null file; names ending
  in a dot are not found again; the running XOR over long-name checksums misses
  two equal wrong ones.
- *Boot loader.* Only the oldest memory query fills the value that is tested, so a BIOS
  with only the newer ones halts; a `jz` after `mov` tests stale flags
  (stage2.S:309); an empty file reads 65536 sectors.
- *Debugger stub.* A time-out between the two checksum digits leaves one
  uninitialised (the model's packets arrive within one time-out); only the two ends
  of a memory range are checked.

## 7. Not modelled

- **By nature**: CPU, paging and memory-map setup (run once, one thread, hardware
  tables), VGA helpers (register writes), C library (pure functions with tests of
  their own; `printf` is text), kernel start (one task, no scheduler).
- **Inside modelled parts**: driver registration and probing; TIOCMSET, TIOCSTI
  (nothing calls them) and the query ioctls; the serial console's polled output;
  cursor shape and cell colours; zeroing and size of pool items (only "cleared"
  matters, in `Files`); UART errors other than overrun; overflow of
  control-sequence parameters; user pointers and their checks; `rtc_interrupt` and
  `rtc_read` (their interrupt never arrives); `kb_selftest` (compiled out); FAT16
  and time stamps in the disk tool, its option parser and listings; the text of the
  crash screen; an acknowledgement of `c`, `s` or `D` lost on the debug line.

## 8. Plan

The modules above cover the parts with state of their own. What is left is proof:

1. The chains of `FatDisk`: that `WriteFile` leaves every other file's chain alone,
   on top of `TableIsArray` and `AllocatedOnce`; then `SpaceAccounted`.
2. `BootRunsWhatWasAdded` from the layout `FatDisk` leaves on an image no command
   has been killed on.
