------------------------------ MODULE FatDisk -------------------------------
(* tools/fatfs at work on a disk image: the class FatDisk (FatDisk.cpp) and the
   commands that change an image (create, add, mkdir, attr) or read it (extract,
   type, list, touch).  A command is one process: it opens the image, reads FAT
   copy 1 into memory, writes data clusters and directories as it goes, and
   writes all FAT copies only when the FatDisk object is destroyed.  Everything
   it writes goes through `queue', one sector at a time, so that the process can
   be killed between any two writes.

   Files, sectors and directory tables are counted in cells: a cell is one byte
   of a file or one entry of a directory. *)
EXTENDS FatTable, FatNames, TLC

CONSTANTS
  ClusterSize,      \* cells in a cluster (one sector, as on the boot disk)
  RootCapacity,     \* entries of the root directory
  FatCount,         \* FAT copies
  FatSectors,       \* sectors of one FAT copy
  Labels,           \* volume labels `create' may be given (<<>>: none)
  FilePaths,        \* paths `add' is given: sequences of names
  DirPaths,         \* paths `mkdir' is given
  Sizes,            \* sizes of the host files added
  MissingParents,   \* whether commands may name a parent that does not exist
  AfterKill,        \* whether an image is used again after a killed command
  MaxCommands,      \* bound: commands run on the image
  MaxKills          \* bound: commands killed

ASSUME FatDiskAssumption ==
  /\ ClusterSize \in Nat \ {0} /\ RootCapacity \in Nat \ {0}
  /\ FatCount \in Nat \ {0} /\ FatSectors \in Nat \ {0}
  /\ MissingParents \in BOOLEAN /\ AfterKill \in BOOLEAN

VARIABLES
  image,     \* the image file: [fats, root, data]
  fat,       \* m_fat of the running command
  dirty,     \* m_bDirty of the running command
  cmd,       \* the running command and the stage it has reached
  queue,     \* writes of the command that have not reached the image
  count,     \* commands started
  kills,     \* commands killed
  want,      \* what the user has been told is on the disk: path -> contents
  starved,   \* a directory could not be rewritten for want of a free cluster
  plain      \* no file has been overwritten since `create'

fvars == <<image, fat, dirty, cmd, queue, count, kills, want, starved, plain>>

-----------------------------------------------------------------------------
(* Directory entries (fat.h). *)

Zero == [tag |-> "zero"]
FileCell(stamp, k) == [tag |-> "byte", of |-> stamp, at |-> k]
Entry(label, attr, cluster, size) ==
  [tag |-> "entry", label |-> label, attr |-> attr, cluster |-> cluster, size |-> size]

ATTR_LFN == {"label", "system", "hidden", "readonly"}

IsFree(e) == e.tag = "zero"
HasAttribute(e, a) == e.tag = "entry" /\ a \in e.attr
IsDirectory(e) == HasAttribute(e, "directory")
IsRoot(e) == IsDirectory(e) /\ e.cluster = 0
IsLongFileName(e) == e.tag = "entry" /\ ATTR_LFN \subseteq e.attr /\ e.cluster = 0
IsLabel(e) == HasAttribute(e, "label") /\ ~(ATTR_LFN \subseteq e.attr)
IsValidFile(e) == ~IsFree(e) /\ ~IsLongFileName(e) /\ ~HasAttribute(e, "device") /\ ~IsLabel(e)

GetRootDirEntry == Entry(<<>>, {"directory"}, 0, 0)

CeilDiv(x, y) == (x + y - 1) \div y

CountClusters(f, e) ==
  IF IsRoot(e) \/ e.cluster = CLUSTER_FREE THEN 0 ELSE Len(Chain(f, e.cluster))

GetFileAllocSize(f, e) ==
  IF IsRoot(e) THEN RootCapacity
  ELSE IF ~IsValidFile(e) \/ e.cluster = 0 THEN 0
  ELSE CountClusters(f, e) * ClusterSize

-----------------------------------------------------------------------------
(* Reading. *)

Failed == [ok |-> FALSE, cells |-> <<>>]

\* Unlike CountClusters, ReadFile looks at the first cluster number before it
\* reads: a file whose first cluster is an end mark has no clusters.
ReadFile(img, f, e) ==
  IF IsRoot(e) THEN [ok |-> TRUE, cells |-> img.root]
  ELSE IF ~IsValidFile(e) \/ (e.cluster = 0 /\ e.size # 0) THEN Failed
  ELSE IF IsClusterNumberEOC(e.cluster) THEN [ok |-> TRUE, cells |-> <<>>]
  ELSE LET chain == Chain(f, e.cluster)
       IN [ok |-> TRUE,
           cells |-> FlattenSeq([i \in 1..Len(chain) |-> img.data[chain[i]]])]

\* Positions in a table whose entry answers to the name; the first is found.
FindFileInDir(table, name) ==
  {i \in 1..Len(table) : /\ table[i].tag = "entry" /\ ~IsLongFileName(table[i])
                         /\ SameName(table[i].label, name)
                         /\ \A j \in 1..(i - 1) :
                              \/ table[j].tag # "entry"
                              \/ ~SameName(table[j].label, name)}

\* One component of a path: step into the directory and look for the name.  The
\* parent is the last directory that was searched, found or not.
WalkStep(img, f, at, name) ==
  IF ~at.found \/ ~IsDirectory(at.entry) THEN [at EXCEPT !.found = FALSE]
  ELSE LET dir == ReadFile(img, f, at.entry)
           hit == FindFileInDir(dir.cells, name)
       IN IF ~dir.ok \/ hit = {}
          THEN [found |-> FALSE, entry |-> at.entry, parent |-> at.entry]
          ELSE [found |-> TRUE, entry |-> dir.cells[CHOOSE i \in hit : TRUE],
                parent |-> at.entry]

FindFile(img, f, path) ==
  FoldLeft(LAMBDA at, name : WalkStep(img, f, at, name),
           [found |-> TRUE, entry |-> GetRootDirEntry, parent |-> GetRootDirEntry], path)

-----------------------------------------------------------------------------
(* WriteFile: rewrites a file's clusters, extending or cutting its chain.  It
   returns how it ended, the table in memory and the writes in their order. *)

\* A plausible slip: the byte count of the last cluster is one short.
ClusterCells_short(img, c, i, buf, fileSize) ==
  [k \in 1..ClusterSize |-> LET n == (i - 1) * ClusterSize + k
                            IN IF n < fileSize THEN buf[n] ELSE img.data[c][k]]

\* What is written to the i-th cluster: the file's bytes over the old contents.
ClusterCells(img, c, i, buf, fileSize) ==
  [k \in 1..ClusterSize |-> LET n == (i - 1) * ClusterSize + k
                            IN IF n <= fileSize THEN buf[n] ELSE img.data[c][k]]

WriteLoop(img, f, e, buf, fileSize, newCount, total) ==
  LET step[i \in 0..total] ==
        IF i = 0 THEN [res |-> "ok", cluster |-> e.cluster, fat |-> f, writes |-> <<>>]
        ELSE LET s    == step[i - 1]
                 c    == s.cluster
                 old  == GetCluster(s.fat, c)
                 held == SetCluster(s.fat, c, CLUSTER_RESERVED)
                 put  == Append(s.writes, [to |-> "data", at |-> c,
                                           cells |-> ClusterCells(img, c, i, buf, fileSize)])
                 next == IF IsClusterNumberEOC(old) THEN FindNextFreeCluster(held) ELSE old
             IN IF s.res # "ok" THEN s
                ELSE IF i > newCount
                THEN [s EXCEPT !.fat = SetCluster(@, c, CLUSTER_FREE), !.cluster = old]
                ELSE IF IsClusterNumberEOC(c) THEN [s EXCEPT !.res = "abort"]
                ELSE IF buf = <<>> THEN [s EXCEPT !.res = "abort", !.fat = held]
                ELSE IF i = newCount
                THEN [s EXCEPT !.fat = SetCluster(held, c, GetClusterNumberEOC(held)),
                               !.cluster = old, !.writes = put]
                ELSE [s EXCEPT !.fat = SetCluster(held, c, next),
                               !.cluster = next, !.writes = put]
  IN step[total]

WriteFile(img, f, e, buf) ==
  LET fileSize == IF IsDirectory(e) THEN GetFileAllocSize(f, e) ELSE e.size
      newCount == CeilDiv(fileSize, ClusterSize)
      existing == CountClusters(f, e)
      total    == IF newCount > existing THEN newCount ELSE existing
      refused  == [res |-> "fail", fat |-> f, writes |-> <<>>]
  IN IF IsRoot(e) THEN [res |-> "ok", fat |-> f,
                        writes |-> <<[to |-> "root", at |-> 0, cells |-> buf]>>]
     ELSE IF ~IsValidFile(e) \/ (e.cluster = 0 /\ e.size # 0) THEN refused
     ELSE IF newCount > CountFreeClusters(f) THEN [refused EXCEPT !.res = "full"]
     ELSE WriteLoop(img, f, e, buf, fileSize, newCount, total)

\* WriteFAT: every sector of every copy.
WriteFAT(f) ==
  [n \in 1..(FatCount * FatSectors) |->
     [to |-> "fat", at |-> ((n - 1) \div FatSectors) + 1, sector |-> (n - 1) % FatSectors,
      cells |-> f]]

\* Bytes of a FAT copy that lie in one of its sectors.
SectorBytes(s) ==
  LET size == CeilDiv(FatBytes, FatSectors)
  IN {i \in 0..(FatBytes - 1) : i \div size = s}

-----------------------------------------------------------------------------
(* The life of a command.  m_bDirty is never initialised on a FAT12 volume
   (FatDisk.cpp:295), so that it starts with either value. *)

NoCommand == [op |-> "none"]
Contents(stamp, size) == [k \in 1..size |-> FileCell(stamp, k)]
Name(path) == path[Len(path)]
Canon(path) == [i \in 1..Len(path) |-> Upper(path[i])]
FirstOf(S) == CHOOSE i \in S : \A j \in S : i <= j
FreeSlots(table) == {i \in 1..Len(table) : IsFree(table[i])}

Init ==
  /\ \E label \in Labels :
       image = [fats |-> [n \in 1..FatCount |-> InitFat12(240)],
                root |-> [i \in 1..RootCapacity |->
                            IF i = 1 /\ label # <<>> THEN Entry(SetLabel(label), {"label"}, 0, 0)
                            ELSE Zero],
                data |-> [c \in Clusters |-> [k \in 1..ClusterSize |-> Zero]]]
  /\ fat = InitFat12(240) /\ dirty = FALSE
  /\ cmd = NoCommand /\ queue = <<>>
  /\ count = 0 /\ kills = 0
  /\ want = <<>> /\ starved = FALSE /\ plain = TRUE

\* FatDisk::Open reads the first FAT copy and skips the others.
Open(command) ==
  /\ cmd = NoCommand /\ count < MaxCommands
  /\ kills > 0 => AfterKill
  /\ count' = count + 1
  /\ cmd' = command
  /\ fat' = image.fats[1]
  /\ dirty' \in BOOLEAN
  /\ UNCHANGED <<image, queue, kills, want, starved, plain>>

HasParent(path) ==
  LET up == FindFile(image, image.fats[1], SubSeq(path, 1, Len(path) - 1))
  IN up.found /\ IsDirectory(up.entry)

OpenAdd ==
  \E path \in FilePaths, size \in Sizes, force \in BOOLEAN :
    /\ HasParent(path) \/ MissingParents
    /\ Open([op |-> "add", stage |-> "file", path |-> path, size |-> size, force |-> force])

OpenMkdir ==
  \E path \in DirPaths :
    /\ HasParent(path) \/ MissingParents
    /\ Open([op |-> "mkdir", stage |-> "create", path |-> path])

OpenAttr == \E path \in FilePaths : Open([op |-> "attr", stage |-> "attr", path |-> path])

OpenReader == Open([op |-> "read", stage |-> "read"])

Running(stage) == cmd # NoCommand /\ cmd.stage = stage /\ queue = <<>>

\* The destructor: the FAT is written only now, and only if m_bDirty is set.
Destroy(f, d) == IF d THEN WriteFAT(f) ELSE <<>>

\* m_bDirty after WriteFile: writing the root directory does not set it.
Dirtied(e) == dirty \/ ~IsRoot(e)

\* An error path: jump to Cleanup with what is in memory.
Fail(w) ==
  /\ cmd' = [op |-> cmd.op, stage |-> "exit", ok |-> FALSE]
  /\ fat' = w.fat
  /\ queue' = Destroy(w.fat, dirty)
  /\ starved' = (starved \/ w.res = "full")
  /\ UNCHANGED <<image, dirty, count, kills, want, plain>>

\* The process dies of an assertion or of a null pointer: nothing is flushed.
Abort(writes) ==
  /\ cmd' = [op |-> cmd.op, stage |-> "die"]
  /\ queue' = writes
  /\ UNCHANGED <<image, fat, dirty, count, kills, want, starved, plain>>

Refused == [res |-> "fail", fat |-> fat]

\* Add, first half (Command_Add.cpp:95-151): find the file or a free slot in its
\* directory and write the file's clusters.
AddFile ==
  /\ Running("file")
  /\ \E r \in {FindFile(image, fat, cmd.path)} : \E dir \in {ReadFile(image, fat, r.parent)} :
     LET slots == IF r.found THEN FindFileInDir(dir.cells, Name(cmd.path))
                  ELSE FreeSlots(dir.cells)
         i     == FirstOf(slots)
         label == SetShortName(Name(cmd.path))
         first == IF r.found THEN dir.cells[i].cluster ELSE FindNextFreeCluster(fat)
         attr  == IF r.found THEN dir.cells[i].attr ELSE {}
     IN IF (r.found /\ ~cmd.force) \/ ~dir.ok \/ slots = {} \/ label = <<>> THEN Fail(Refused)
        ELSE \E e \in {Entry(label, attr, first, cmd.size)} :
             \E w \in {WriteFile(image, fat, e, Contents(count, cmd.size))} :
             IF w.res = "abort" THEN Abort(w.writes)
             ELSE IF w.res # "ok" THEN Fail([Refused EXCEPT !.fat = w.fat])
             ELSE /\ cmd' = [op |-> "add", stage |-> "entry", parent |-> r.parent, path |-> cmd.path,
                             size |-> cmd.size, table |-> [dir.cells EXCEPT ![i] = e]]
                  /\ fat' = w.fat /\ dirty' = TRUE /\ queue' = w.writes
                  /\ want' = [p \in DOMAIN want \ {Canon(cmd.path)} |-> want[p]]
                  /\ plain' = (plain /\ ~r.found)
                  /\ UNCHANGED <<image, count, kills, starved>>

\* Add and Mkdir, last half: the directory's table with the new entry.
WriteEntry ==
  /\ Running("entry")
  /\ \E w \in {WriteFile(image, fat, cmd.parent, cmd.table)} :
        IF w.res = "abort" THEN Abort(w.writes)
        ELSE IF w.res # "ok" THEN Fail(w)
        ELSE /\ cmd' = [op |-> cmd.op, stage |-> "exit", ok |-> TRUE,
                        path |-> cmd.path, size |-> cmd.size]
             /\ fat' = w.fat /\ dirty' = TRUE
             /\ queue' = w.writes \o WriteFAT(w.fat)
             /\ UNCHANGED <<image, count, kills, want, starved, plain>>

\* CreateFile: an empty file in the directory.  In the root the code then takes
\* the first entry of the table for the parent and writes it from a null table
\* (FatDisk.cpp:1091): harmless only when that entry has no clusters.  Without a
\* free slot the new entry lands behind the table, which the heap may survive.
CreateFile ==
  /\ Running("create")
  /\ \E up \in {SubSeq(cmd.path, 1, Len(cmd.path) - 1)} :
     \E r \in {FindFile(image, fat, up)} :
     \E dir \in {ReadFile(image, fat, r.entry)} :
     \E new \in {Entry(SetShortName(Name(cmd.path)), {"archive"}, 0, 0)} :
     IF \/ ~r.found \/ ~IsDirectory(r.entry) \/ ~dir.ok \/ new.label = <<>>
        \/ FindFileInDir(dir.cells, Name(cmd.path)) # {}
     THEN Fail(Refused)
     ELSE LET slots == FreeSlots(dir.cells) IN
       \E table \in {IF slots = {} THEN dir.cells ELSE [dir.cells EXCEPT ![FirstOf(slots)] = new]} :
       \E w1 \in {WriteFile(image, fat, r.entry, table)} :
       IF w1.res # "ok" THEN Fail(Refused)
       ELSE \E w2 \in {IF up = <<>> THEN WriteFile(image, w1.fat, table[1], <<>>)
                       ELSE WriteFile(image, w1.fat, r.parent, ReadFile(image, fat, r.parent).cells)} :
             \/ w2.res = "abort" /\ Abort(w1.writes \o w2.writes)
             \/ slots = {} /\ Abort(<<>>)
             \/ /\ w2.res \in {"fail", "full"}
                /\ cmd' = [op |-> "mkdir", stage |-> "exit", ok |-> FALSE]
                /\ fat' = w2.fat /\ dirty' = Dirtied(r.entry)
                /\ queue' = w1.writes \o Destroy(w2.fat, dirty')
                /\ UNCHANGED <<image, count, kills, want, starved, plain>>
             \/ /\ w2.res = "ok"
                /\ cmd' = [op |-> "mkdir", stage |-> "table", path |-> cmd.path,
                           parent |-> r.entry, new |-> new]
                /\ fat' = w2.fat /\ dirty' = TRUE /\ queue' = w1.writes \o w2.writes
                /\ UNCHANGED <<image, count, kills, want, starved, plain>>

\* Mkdir (Command_Mkdir.cpp:80-114): turn the file into a directory with a
\* cluster of its own, which holds the entries "." and "..".
MakeTable ==
  /\ Running("table")
  /\ \E dir \in {ReadFile(image, fat, cmd.parent)} :
     LET same  == {i \in 1..Len(dir.cells) : dir.cells[i] = cmd.new}
         e     == [cmd.new EXCEPT !.attr = @ \cup {"directory"},
                                  !.cluster = FindNextFreeCluster(fat)]
         table == [k \in 1..ClusterSize |->
                     CASE k = 1 -> [e EXCEPT !.label = SetLabel(<<DOT>>)]
                       [] k = 2 -> [cmd.parent EXCEPT !.label = SetLabel(<<DOT, DOT>>)]
                       [] OTHER -> Zero]
     IN IF ~dir.ok \/ same = {} THEN Fail(Refused)
        ELSE \E w \in {WriteFile(image, fat, e, table)} :
             IF w.res = "abort" THEN Abort(w.writes)
             ELSE IF w.res # "ok" THEN Fail([Refused EXCEPT !.fat = w.fat])
             ELSE /\ cmd' = [op |-> "mkdir", stage |-> "entry", parent |-> cmd.parent,
                             path |-> cmd.path, size |-> 0,
                             table |-> [dir.cells EXCEPT ![FirstOf(same)] = e]]
                  /\ fat' = w.fat /\ dirty' = TRUE /\ queue' = w.writes
                  /\ UNCHANGED <<image, count, kills, want, starved, plain>>

\* Attr -s: rewrite the directory with one attribute changed.
SetAttr ==
  /\ Running("attr")
  /\ \E r \in {FindFile(image, fat, cmd.path)} : \E dir \in {ReadFile(image, fat, r.parent)} :
     IF ~r.found \/ ~dir.ok THEN Fail(Refused)
     ELSE \E i \in {FirstOf(FindFileInDir(dir.cells, Name(cmd.path)))} :
          \E w \in {WriteFile(image, fat, r.parent,
                              [dir.cells EXCEPT ![i].attr = @ \cup {"system"}])} :
          IF w.res # "ok" THEN Fail(Refused)
          ELSE /\ cmd' = [op |-> "attr", stage |-> "exit", ok |-> TRUE]
               /\ fat' = w.fat /\ dirty' = Dirtied(r.parent)
               /\ queue' = w.writes \o Destroy(w.fat, dirty')
               /\ UNCHANGED <<image, count, kills, want, starved, plain>>

\* Commands that only read, and touch, whose write is commented out: they write
\* the FAT back if m_bDirty happened to start as true.
Reader == Running("read") /\ Fail(Refused)

\* One write reaches the image: a cluster, a sector of a FAT copy, or the root
\* directory, whose table of RootCapacity entries is one sector.
Flush ==
  /\ queue # <<>>
  /\ LET w == Head(queue) IN
       image' = CASE w.to = "data" -> [image EXCEPT !.data[w.at] = w.cells]
                  [] w.to = "root" -> [image EXCEPT !.root = w.cells]
                  [] w.to = "fat"  ->
                       [image EXCEPT !.fats[w.at] =
                          [i \in DOMAIN @ |-> IF i \in SectorBytes(w.sector) THEN w.cells[i]
                                              ELSE @[i]]]
  /\ queue' = Tail(queue)
  /\ UNCHANGED <<fat, dirty, cmd, count, kills, want, starved, plain>>

\* The process ends; the user takes note of a file that was added.
Exit ==
  /\ cmd # NoCommand /\ queue = <<>> /\ cmd.stage \in {"exit", "die"}
  /\ want' = IF cmd.stage = "exit" /\ cmd.op = "add" /\ cmd.ok
             THEN (Canon(cmd.path) :> Contents(count, cmd.size)) @@ want ELSE want
  /\ cmd' = NoCommand /\ fat' = image.fats[1] /\ dirty' = FALSE
  /\ UNCHANGED <<image, queue, count, kills, starved, plain>>

\* The process is killed between two writes.
Kill ==
  /\ cmd # NoCommand /\ kills < MaxKills
  /\ kills' = kills + 1
  /\ cmd' = NoCommand /\ queue' = <<>> /\ fat' = image.fats[1] /\ dirty' = FALSE
  /\ UNCHANGED <<image, count, want, starved, plain>>

Next ==
  \/ OpenAdd \/ OpenMkdir \/ OpenAttr \/ OpenReader
  \/ AddFile \/ WriteEntry \/ CreateFile \/ MakeTable \/ SetAttr \/ Reader
  \/ Flush \/ Exit \/ Kill

Spec == Init /\ [][Next]_fvars

-----------------------------------------------------------------------------
(* Properties. *)

\* What `extract' writes to the host: the first FileSize bytes of the chain.
Contained(img, f, r) ==
  LET got == ReadFile(img, f, r.entry)
  IN IF /\ r.found /\ ~HasAttribute(r.entry, "device") /\ got.ok /\ ~IsDirectory(r.entry)
        /\ r.entry.size <= Len(got.cells)
     THEN SubSeq(got.cells, 1, r.entry.size)
     ELSE <<"error">>

Extract(img, path) == Contained(img, img.fats[1], FindFile(img, img.fats[1], path))

\* Every file a command reported as added is read back as it was on the host,
\* after any later commands and at every moment of a command on another file,
\* also when that command fails, aborts or is killed between two writes.
FilesIntact == \A p \in DOMAIN want : Extract(image, p) = want[p]

\* Entries of a directory table that own clusters of their own.
Owners(table) == {i \in 1..Len(table) :
  /\ table[i].tag = "entry" /\ table[i].cluster # 0
  /\ table[i].label \notin {SetLabel(<<DOT>>), SetLabel(<<DOT, DOT>>)}}

Tables == LET up   == {image.root}
              Sub(ts) == UNION {{ReadFile(image, image.fats[1], t[i]).cells :
                                 i \in {j \in Owners(t) : IsDirectory(t[j])}} : t \in ts}
          IN up \cup Sub(up) \cup Sub(Sub(up))

OwnedChains == UNION {{<<t, i, Chain(image.fats[1], t[i].cluster)>> : i \in Owners(t)} : t \in Tables}

\* Between commands every cluster the FAT marks as used belongs to exactly one
\* file or directory that can be reached, each file's chain has as many clusters
\* as its size needs, and the FAT copies are equal: nothing leaks and nothing is
\* shared, also after failed and aborted commands.  (Killed commands, and
\* directories that could not be written on a full disk, are excepted.)
SpaceAccounted ==
  cmd = NoCommand /\ kills = 0 /\ ~starved =>
    LET f == image.fats[1]
        used == {c \in Clusters : GetCluster(f, c) # CLUSTER_FREE}
    IN /\ \A n \in 1..FatCount : image.fats[n] = f
       /\ \A o \in OwnedChains : LET e == o[1][o[2]] IN
            IsDirectory(e) \/ Len(o[3]) = CeilDiv(e.size, ClusterSize)
       /\ \A c \in used :
            Cardinality({<<o, k>> \in OwnedChains \X (1..ClusterCount) :
                           k <= Len(o[3]) /\ o[3][k] = c}) = 1
       /\ \A o \in OwnedChains : ToSet(o[3]) \subseteq used

=============================================================================
