------------------------------- MODULE Ramdisk -------------------------------
(***************************************************************************)
(* system_main after memory is initialized: the boot modules, the tar file *)
(* one of them may be, the file system it fills, and the file main reads.  *)
(*                                                                         *)
(* An archive is a sequence of entries.  Its headers lie in blocks of      *)
(* BlockSize bytes, each followed by the blocks of its file.               *)
(***************************************************************************)
EXTENDS FileSystem

CONSTANTS
  BlockSize,       \* TAR_BLOCK_SIZE
  ModuleLists,     \* bound: what the boot loader may load, as sequences of
                   \* modules [command_line, archive]
  BufferSize       \* what main asks for, one less than its buffer

Modules == [command_line : STRING, archive : Seq([path : Paths, size : Nat])]

TestFile == <<"test.txt">>      \* what main reads

\* The data of an entry stands for its place in the archives.
ASSUME RamdiskAssumption ==
  /\ BlockSize \in Nat \ {0} /\ BufferSize \in Nat
  /\ TestFile \in Paths /\ Data # {}
  /\ ModuleLists \subseteq Seq(Modules)
  /\ \A list \in ModuleLists : \A n \in DOMAIN list :
       \A k \in DOMAIN list[n].archive : <<n, k>> \in Data

\* A name as tar writes it (Makefile:101): names between slashes, a directory's
\* with one at its end, after "./" or, if it was told so, after "../".
IsTarName(path) ==
  /\ path # <<>> /\ Last(path) # "."
  /\ \A n \in 1 .. Len(path) - 1 : path[n] # Empty
  /\ \A n \in 2 .. Len(path) : path[n] \notin {".", ".."}

ASSUME ArchiveAssumption ==
  \A list \in ModuleLists : \A n \in DOMAIN list :
    \A k \in DOMAIN list[n].archive : IsTarName(list[n].archive[k].path)

VARIABLES
  pc,            \* "modules", "comparing", "ramdisk", "main", "stopped" or "panic"
  modules,       \* the modules of bootdata
  m,             \* modules_initialize: the modules it has come to
  i,             \* ramdisk_init: its loop variable
  copied,        \* bytes main's read left in its buffer, -1 before
  offered        \* auxiliary: the entries of all archives so far, with their data

loaderVars == <<pc, modules, m, i, copied, offered>>
ramdiskVars == <<loaderVars, fsVars>>

-----------------------------------------------------------------------------
(***************************************************************************)
(* The archive as tar writes it, and TarBlock::read.                       *)
(***************************************************************************)
archive == modules[m].archive

\* Bug: a file whose last block is full is taken to have one more.
NextHeader_RoundsUp(size) == size \div BlockSize + 2

\* The blocks from a header to the next, in the two increments of the code.
NextHeader(size) ==
  (size \div BlockSize + 1) + (IF size % BlockSize # 0 THEN 1 ELSE 0)

\* The blocks of a header and the file behind it.
Occupies(size) == 1 + (size + BlockSize - 1) \div BlockSize

\* TarBlock::read: index steps from the first header.  The entry it comes to,
\* 0 at the zero block that ends the archive, -1 if a step does not lead from
\* header to header: bytes of a file would be read as one.
TarBlock_read(index) ==
  IF \E k \in DOMAIN archive :
       k <= index /\ NextHeader(archive[k].size) # Occupies(archive[k].size) THEN -1
  ELSE IF index < Len(archive) THEN index + 1
  ELSE 0

-----------------------------------------------------------------------------
(***************************************************************************)
(* Modules.cpp                                                             *)
(***************************************************************************)
Handled(n) == modules[n].command_line = "ramdisk"

StartRamdisk ==
  /\ pc = "modules" /\ m < Len(modules) /\ Handled(m + 1)
  /\ pc' = "ramdisk" /\ m' = m + 1 /\ i' = 0
  /\ offered' = offered \o [k \in DOMAIN modules[m + 1].archive |->
                               [entry |-> modules[m + 1].archive[k], data |-> <<m + 1, k>>]]
  /\ UNCHANGED <<modules, copied, fsVars>>

\* module_handle compares any other command line with the first handler for ever.
StartUnknown ==
  /\ pc = "modules" /\ m < Len(modules) /\ ~Handled(m + 1)
  /\ pc' = "comparing" /\ m' = m + 1
  /\ UNCHANGED <<modules, i, copied, offered, fsVars>>

modules_initialize_return ==
  /\ pc = "modules" /\ m = Len(modules)
  /\ pc' = "main"
  /\ UNCHANGED <<modules, m, i, copied, offered, fsVars>>

-----------------------------------------------------------------------------
(***************************************************************************)
(* ramdisk_init: one entry at a time.  Nobody looks at the results.        *)
(***************************************************************************)
Entry == archive[TarBlock_read(i)]
DataOfEntry == <<m, TarBlock_read(i)>>

\* The name ends in a slash: its last component is empty.
IsDirectory(path) == Last(path) = Empty

LoadEntry ==
  /\ pc = "ramdisk" /\ TarBlock_read(i) > 0
  /\ IF IsDirectory(Entry.path)
     THEN directory_create(Entry.path)
     ELSE file_create(Entry.path, DataOfEntry)
  /\ i' = i + 1
  /\ UNCHANGED <<pc, modules, m, copied, offered>>

LoadFails ==
  /\ pc = "ramdisk" /\ TarBlock_read(i) > 0
  /\ CreateFails(Entry.path)
  /\ request'[1] = IF IsDirectory(Entry.path) THEN "directory_create" ELSE "file_create"
  /\ i' = i + 1
  /\ UNCHANGED <<pc, modules, m, copied, offered>>

LoadHalts ==
  /\ pc = "ramdisk" /\ TarBlock_read(i) > 0
  /\ FsHalts(Entry.path)
  /\ request'[1] = IF IsDirectory(Entry.path) THEN "directory_create" ELSE "file_create"
  /\ pc' = "panic"
  /\ UNCHANGED <<modules, m, i, copied, offered>>

EndOfStream ==
  /\ pc = "ramdisk" /\ TarBlock_read(i) = 0
  /\ pc' = "modules"
  /\ UNCHANGED <<modules, m, i, copied, offered, fsVars>>

-----------------------------------------------------------------------------
(***************************************************************************)
(* main: get_file, its assertion, and one read from the start of the file. *)
(***************************************************************************)
Minimum(x, y) == IF x < y THEN x ELSE y

\* Bug: the size of the file does not bound the copy.
initrd_read_TakesAll(size, off, n) == off + n

\* The number of bytes initrd_read copies.
initrd_read(size, off, n) == Minimum(size - off, off + n)

SizeOf(f) == offered[CHOOSE k \in DOMAIN offered : offered[k].data = files[f].data].entry.size

MainReads ==
  LET f == FileIn(Root, "test.txt")
  IN  /\ pc = "main"
      /\ get_file(TestFile)
      /\ \/ f = 0 /\ pc' = "panic" /\ UNCHANGED copied
         \/ f # 0 /\ pc' = "stopped" /\ copied' = initrd_read(SizeOf(f), 0, BufferSize)
      /\ UNCHANGED <<modules, m, i, offered>>

-----------------------------------------------------------------------------
RamdiskInit ==
  /\ initialize_filesystem
  /\ pc = "modules" /\ modules \in ModuleLists
  /\ m = 0 /\ i = 0 /\ copied = -1 /\ offered = <<>>

RamdiskNext ==
  \/ StartRamdisk \/ StartUnknown \/ modules_initialize_return
  \/ LoadEntry \/ LoadFails \/ LoadHalts \/ EndOfStream
  \/ MainReads

RamdiskSpec ==
  RamdiskInit /\ [][RamdiskNext]_ramdiskVars /\ WF_ramdiskVars(RamdiskNext)

-----------------------------------------------------------------------------
(***************************************************************************)
(* Properties                                                              *)
(***************************************************************************)
\* The dot an archive's names may start with leads nowhere.
WithoutDot(path) == IF path[1] = "." THEN Tail(path) ELSE path

PathOf(k) == WithoutDot(offered[k].entry.path)
IsDir(k) == IsDirectory(PathOf(k))
DirPath(k) == Front(PathOf(k))

\* Entry k makes the directory at p.
Makes(k, p) == IsDir(k) /\ DirPath(k) = p

\* Every directory on the way to p has an entry before k, and none of them,
\* nor the file itself, has another one after it.
IsKept(k) ==
  /\ \A n \in 1 .. Len(PathOf(k)) - 1 :
       LET p == SubSeq(PathOf(k), 1, n)
           made == {j \in DOMAIN offered : Makes(j, p)}
       IN  made # {} /\ \A j \in made : j < k
  /\ \A n \in 1 .. Len(PathOf(k)) - 2 :
       \A j \in DOMAIN offered :
         Makes(j, SubSeq(PathOf(k), 1, n)) =>
           \A d \in DOMAIN offered : Makes(d, SubSeq(PathOf(k), 1, n + 1)) => j < d
  /\ ~ \E j \in k + 1 .. Len(offered) : PathOf(j) = PathOf(k)

\* main's read stays within its buffer and within the file.
MainReadsWithin ==
  /\ copied \in -1 .. BufferSize
  /\ (copied > -1 => \E k \in DOMAIN offered :
          PathOf(k) = TestFile /\ copied <= offered[k].entry.size)

\* Once an archive is read, each of its files is found under its name, with
\* its own contents, unless it came before its directory or a later entry
\* replaces it or a directory on its way; and no file is found that is not in
\* an archive under that name.  What main reads of one fits its buffer.
EveryFileIsLoaded ==
  /\ pc \in {"modules", "comparing", "main", "stopped"} /\ ~halted =>
       /\ \A k \in DOMAIN offered :
            ~IsDir(k) /\ IsKept(k) =>
              \E f \in VisibleFiles : /\ PlaceOfFile(f) = PathOf(k)
                                      /\ files[f].data = offered[k].data
       /\ \A f \in VisibleFiles : \E k \in DOMAIN offered :
            PlaceOfFile(f) = PathOf(k) /\ files[f].data = offered[k].data
  /\ MainReadsWithin

\* The boot ends: the reader comes to the end of every archive, unless a
\* module has a name that no handler has.
BootEnds == pc = "modules" ~> (pc \in {"stopped", "panic", "comparing"})

\* "Unknown module" is what the kernel says of a module without a handler,
\* and goes on (Modules.cpp:33).
UnknownModulesAreReported == pc = "comparing" ~> pc # "comparing"
==============================================================================
