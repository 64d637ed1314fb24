----------------------------- MODULE BootLoader -----------------------------
(* The boot loader (stage1.S, stage2.S) on a disk image that tools/fatfs made:
   stage 1 reads the root directory, finds BOOT.SYS and loads it; stage 2 sets
   the machine up, finds OHWES.SYS and loads it.  Neither reads the FAT: a file
   is loaded as the run of sectors behind its first cluster.  The BIOS is
   external: any sector read may fail, and the video, A20 and memory services
   answer as they like.  Memory is counted in the cells of FatDisk. *)
EXTENDS FatDisk

CONSTANTS
  Stage2Room,    \* cells from STAGE2_BASE to KERNEL_LOAD
  KernelRoom,    \* cells from KERNEL_LOAD to the top of low memory
  SegmentSize,   \* cells one segment register spans
  RETRY_COUNT    \* attempts at reading a sector

ASSUME BootAssumption ==
  /\ {Stage2Room, KernelRoom, SegmentSize, RETRY_COUNT} \subseteq Nat \ {0}
  /\ SegmentSize % ClusterSize = 0

VARIABLES
  boot,     \* program counter and registers
  mem,      \* memory from STAGE2_BASE up
  kbase     \* memory from KERNEL_BASE up, where the kernel is moved

bvars == <<boot, mem, kbase>>

STAGE2_BASE == 0
KERNEL_LOAD == Stage2Room
MemTop      == Stage2Room + KernelRoom

reserved_sectors == 1
RootSectors == CeilDiv(RootCapacity, ClusterSize)
root_sector == reserved_sectors + FatCount * FatSectors
first_cluster == root_sector + RootSectors

\* "BOOT    SYS" and "OHWES   SYS"
stage2_filename == <<66, 79, 79, 84, 32, 32, 32, 32, 83, 89, 83>>
kernel_filename == <<79, 72, 87, 69, 83, 32, 32, 32, 83, 89, 83>>

Off == [pc |-> "off"]

BootInit == /\ Init
            /\ boot = Off /\ mem = [a \in 0..(MemTop - 1) |-> Zero] /\ kbase = <<>>

\* What the disk holds at an address; nothing behind its last cluster.
OnDisk(lba) ==
  IF lba < first_cluster
    THEN [k \in 1..ClusterSize |->
            LET i == (lba - root_sector) * ClusterSize + k
            IN IF i <= RootCapacity THEN image.root[i] ELSE Zero]
    ELSE image.data[lba - first_cluster + CLUSTER_FIRST]

Readable(lba) == lba < first_cluster + ClusterCount

\* The call load_sectors(es:bx, ax, cx), which continues at `then'.
LoadSectors(base, off, lba, n, then, dir) ==
  [pc |-> "load", base |-> base, off |-> off, lba |-> lba, n |-> n, try |-> RETRY_COUNT,
   then |-> then, dir |-> dir]

PowerOn ==
  /\ cmd = NoCommand /\ boot = Off
  /\ boot' = LoadSectors(0, 0, root_sector, RootSectors, "stage1", <<>>)
  /\ UNCHANGED <<fvars, mem, kbase>>

Halt(why) == boot' = [pc |-> "halt", why |-> why]

\* load_sectors: a failed read is repeated until the attempts are used up.
ReadFails ==
  /\ boot.pc = "load"
  /\ IF boot.try = 1 \/ ~Readable(boot.lba) THEN Halt("disk")
     ELSE boot' = [boot EXCEPT !.try = @ - 1]
  /\ UNCHANGED <<fvars, mem, kbase>>

\* A sector arrives; the buffer pointer may wrap into the next segment.  The root
\* directory has its own buffer, a file goes to memory.
ReadSector ==
  /\ boot.pc = "load" /\ Readable(boot.lba)
  /\ LET sector == OnDisk(boot.lba)
         off    == boot.off + ClusterSize
         wraps  == off >= SegmentSize
         at     == boot.base + boot.off
         toDir  == boot.then = "stage1"
         more   == [boot EXCEPT !.off = IF wraps THEN off - SegmentSize ELSE off,
                                !.base = IF wraps THEN @ + SegmentSize ELSE @,
                                !.try = RETRY_COUNT, !.lba = @ + 1,
                                !.n = (@ - 1) % 65536,
                                !.dir = IF toDir THEN @ \o sector ELSE @]
     IN /\ boot' = IF boot.n = 1 THEN [pc |-> boot.then, dir |-> more.dir] ELSE more
        /\ mem' = IF toDir THEN mem
                  ELSE [a \in 0..(MemTop - 1) |-> IF a \in at..(at + ClusterSize - 1)
                                                  THEN sector[a - at + 1] ELSE mem[a]]
  /\ UNCHANGED <<fvars, kbase>>

\* find_file: the first root entry with the eleven bytes of the name.
Matches(dir, filename) ==
  {i \in 1..RootCapacity : dir[i].tag = "entry" /\ dir[i].label = filename}

FileAt(dir, filename) == dir[FirstOf(Matches(dir, filename))]

\* A plausible slip: the two reserved cluster numbers are not subtracted.
load_file_shifted(e, base, off, then, dir) ==
  LoadSectors(base, off, first_cluster + e.cluster,
              IF e.size = 0 THEN 0 ELSE CeilDiv(e.size, ClusterSize), then, dir)

\* load_file: ((size - 1) / sector) + 1 sectors, in 32 and then 16 bits.
load_file(e, base, off, then, dir) ==
  LoadSectors(base, off, first_cluster + e.cluster - CLUSTER_FIRST,
              IF e.size = 0 THEN 0 ELSE CeilDiv(e.size, ClusterSize), then, dir)

Stage1 ==
  /\ boot.pc = "stage1"
  /\ IF Matches(boot.dir, stage2_filename) = {} THEN Halt("disk")
     ELSE boot' = load_file(FileAt(boot.dir, stage2_filename), 0, STAGE2_BASE, "vga", boot.dir)
  /\ UNCHANGED <<fvars, mem, kbase>>

init_vga ==
  /\ boot.pc = "vga"
  /\ Halt("vga") \/ boot' = [boot EXCEPT !.pc = "a20"]
  /\ UNCHANGED <<fvars, mem, kbase>>

\* The gate is tested, then switched by the BIOS, by port 92h and by the keyboard
\* controller until a test passes.  The first test may take an open gate for a
\* closed one, because the word it compares with happens to be equal; the word
\* is rotated before the next test.
enable_a20 ==
  /\ boot.pc = "a20"
  /\ \E open \in BOOLEAN, works \in SUBSET {"bios", "port92", "keyboard"},
        fluke \in BOOLEAN, accepted \in BOOLEAN :
       LET after == [pc |-> "memory", dir |-> boot.dir, gate |-> TRUE]
       IN CASE open /\ ~fluke -> boot' = after @@ [method |-> "none"]
            [] open /\ fluke -> boot' = after @@ [method |-> IF accepted THEN "bios" ELSE "none"]
            [] ~open /\ "bios" \in works -> boot' = after @@ [method |-> "bios"]
            [] ~open /\ "bios" \notin works /\ "port92" \in works ->
                 boot' = after @@ [method |-> "port92"]
            [] ~open /\ works = {"keyboard"} -> boot' = after @@ [method |-> "keyboard"]
            [] ~open /\ works = {} -> Halt("a20")
  /\ UNCHANGED <<fvars, mem, kbase>>

\* Three BIOS services are asked; only the oldest one fills kb_high, which the
\* final test looks at, and a map that ends with the carry flag is not used.
detect_memory ==
  /\ boot.pc = "memory"
  /\ \E e820 \in {"none", "carry", "whole"}, legacy \in {"carry", "unsupported", "ok"},
        enough \in BOOLEAN :
       IF legacy = "ok" /\ enough
         THEN boot' = [boot EXCEPT !.pc = "stage2"] @@ [map |-> e820 = "whole"]
         ELSE Halt("memory")
  /\ UNCHANGED <<fvars, mem, kbase>>

\* Whether the kernel fits between its load address and the top of low memory.
check_kernel_size(e) == e.size <= KernelRoom

\* Stage 2 looks the kernel up, checks its size against low memory and loads it.
Stage2 ==
  /\ boot.pc = "stage2"
  /\ LET e == FileAt(boot.dir, kernel_filename) IN
       IF Matches(boot.dir, kernel_filename) = {} THEN Halt("disk")
       ELSE IF ~check_kernel_size(e) THEN Halt("too big")
       ELSE boot' = load_file(e, KERNEL_LOAD, 0, "move", boot.dir)
  /\ UNCHANGED <<fvars, mem, kbase>>

\* Protected mode: the kernel is moved to its home, and entered.
MoveKernel ==
  /\ boot.pc = "move"
  /\ LET size == FileAt(boot.dir, kernel_filename).size
     IN kbase' = [k \in 1..size |-> mem[KERNEL_LOAD + k - 1]]
  /\ boot' = [pc |-> "kernel"]
  /\ UNCHANGED <<fvars, mem>>

\* readkey_then_reset: after a message and a key the machine starts over.
Reset ==
  /\ boot.pc = "halt"
  /\ boot' = Off
  /\ mem' = [a \in 0..(MemTop - 1) |-> Zero]
  /\ UNCHANGED <<fvars, kbase>>

BootNext ==
  \/ boot = Off /\ Next /\ UNCHANGED bvars
  \/ PowerOn \/ ReadFails \/ ReadSector \/ Stage1 \/ init_vga \/ enable_a20
  \/ detect_memory \/ Stage2 \/ MoveKernel \/ Reset

BootSpec == BootInit /\ [][BootNext]_<<fvars, bvars>>

-----------------------------------------------------------------------------
(* Properties. *)

Has(label, room) ==
  \E p \in DOMAIN want : /\ Len(p) = 1 /\ SetShortName(p[1]) = label
                         /\ Len(want[p]) \in 1..room

FileNamed(label) == want[CHOOSE p \in DOMAIN want : Len(p) = 1 /\ SetShortName(p[1]) = label]

\* From an image on which no file was ever overwritten, the machine that enters
\* the kernel runs the very files that were added: stage 2 is whole in memory
\* and the kernel is whole at its final address, whatever reads were repeated
\* and however the adds, directories and failed commands were mixed.
BootRunsWhatWasAdded ==
  boot.pc = "kernel" /\ plain /\ kills = 0
    /\ Has(stage2_filename, Stage2Room) /\ Has(kernel_filename, KernelRoom)
  => LET two == FileNamed(stage2_filename) IN
     /\ kbase = FileNamed(kernel_filename)
     /\ \A k \in 1..Len(two) : mem[STAGE2_BASE + k - 1] = two[k]

=============================================================================
