----------------------------- MODULE FileSystem -----------------------------
(***************************************************************************)
(* kernel/kernel/fs: a tree of directories, each with two lists, and paths *)
(* read one component at a time.                                           *)
(*                                                                         *)
(* A path is the sequence of what stands between its slashes, after the    *)
(* one it may start with: "/a//b/" is <<"a", "", "b", "">>.  Components     *)
(* are shorter than PATH_FILE_NAME_SIZE.  A directory or file is its       *)
(* position in dirs or files.  Every caller passes nullptr for relative.   *)
(***************************************************************************)
EXTENDS Integers, Sequences, SequencesExt, FiniteSets

CONSTANTS
  Paths,                \* the paths callers pass
  Data,                 \* what they store
  MaxDirs, MaxFiles,    \* bounds: how many are created
  SUCCEED, NO_SUCH_FILE, OUT_OF_MEMORY,      \* of Result
  Missing,              \* NO_SUCH_FILE from get_directory
  Unset                 \* the root's parent, which nothing assigns

\* A component of no characters.
Empty == ""

\* The names of directories and files: what stands between two slashes of a
\* path, which may be nothing, and the root's.
NodeNames == STRING \cup {Empty, "/"}

\* An error is no directory, and no place a directory may have.
ASSUME FileSystemAssumption ==
  /\ Paths \subseteq Seq(STRING)
  /\ Missing # Unset
  /\ {Missing, Unset} \cap (Nat \cup Seq(NodeNames)) = {}

VARIABLES
  dirs,        \* of each directory: name, parent, directories, files
  files,       \* of each file: name, parent, data
  request, answer,      \* the last call and what it returned
  halted                \* an assertion failed, or a wild pointer was followed

fsVars == <<dirs, files, request, answer, halted>>

Root == 1

-----------------------------------------------------------------------------
(***************************************************************************)
(* path.cpp                                                                *)
(***************************************************************************)
\* The buffer path_read fills for index; it returns whether that is empty.
path_read(path, index) == IF index < Len(path) THEN path[index + 1] ELSE Empty

\* Bug: an empty component does not end the path.
path_len_Whole(path) == Len(path)

path_len(path) ==
  CHOOSE n \in 0 .. Len(path) :
    /\ path_read(path, n) = Empty
    /\ \A i \in 0 .. n - 1 : path_read(path, i) # Empty

\* The directory is handed on as text and read again, component by component.
path_split(path) ==
  LET n == path_len(path)
  IN  [dir  |-> [i \in 1 .. (IF n = 0 THEN 0 ELSE n - 1) |-> path_read(path, i - 1)],
       file |-> IF n = 0 THEN Empty ELSE path_read(path, n - 1)]

-----------------------------------------------------------------------------
(***************************************************************************)
(* fs.cpp, directory.cpp, file.cpp                                         *)
(***************************************************************************)
\* Bug: the oldest of several is found.
FirstNamed_Oldest(list, items, name) ==
  SelectLastInSeq(list, LAMBDA x : items[x].name = name)

\* Where foreach stops: the first of the list with this name, 0 if none.
FirstNamed(list, items, name) ==
  SelectInSeq(list, LAMBDA x : items[x].name = name)

\* One component, from the directory current.
Enter(current, name) ==
  LET list == dirs[current].directories
      k == FirstNamed(list, dirs, name)
  IN  IF current \in {Missing, Unset} THEN current
      ELSE CASE name = ".." -> dirs[current].parent
             [] name = "."  -> current
             [] OTHER       -> IF k = 0 THEN Missing ELSE list[k]

\* What the loop has come to after each component.
get_directory(components) ==
  LET current[i \in 0 .. Len(components)] ==
        IF i = 0 THEN Root ELSE Enter(current[i - 1], components[i])
  IN  current[Len(components)]

Parent(path) == get_directory(path_split(path).dir)

Returns(name, path, value) ==
  /\ ~halted
  /\ request' = <<name, path>> /\ answer' = value
  /\ UNCHANGED halted

\* Bug: a new directory does not know its parent.
alloc_dir_NoParent(name, parent) ==
  [name |-> name, parent |-> Unset, directories |-> <<>>, files |-> <<>>]

alloc_dir(name, parent) ==
  [name |-> name, parent |-> parent, directories |-> <<>>, files |-> <<>>]

directory_create(path) ==
  LET p == Parent(path)
      d == Len(dirs) + 1
  IN  /\ p \notin {Missing, Unset} /\ Len(dirs) < MaxDirs
      /\ dirs' = Append([dirs EXCEPT ![p].directories = <<d>> \o @],
                        alloc_dir(path_split(path).file, p))
      /\ UNCHANGED files
      /\ Returns("directory_create", path, SUCCEED)

alloc_file(name, parent, data) == [name |-> name, parent |-> parent, data |-> data]

file_create(path, data) ==
  LET p == Parent(path)
      f == Len(files) + 1
  IN  /\ p \notin {Missing, Unset} /\ Len(files) < MaxFiles
      /\ files' = Append(files, alloc_file(path_split(path).file, p, data))
      /\ dirs' = [dirs EXCEPT ![p].files = <<f>> \o @]
      /\ Returns("file_create", path, SUCCEED)

\* The early returns of the two, with the codes they return.
CreateFails(path) ==
  /\ Parent(path) = Missing
  /\ \/ Returns("directory_create", path, NO_SUCH_FILE)
     \/ Returns("file_create", path, OUT_OF_MEMORY)
  /\ UNCHANGED <<dirs, files>>

\* The file get_file returns, 0 if none.
FileIn(d, name) ==
  LET k == FirstNamed(dirs[d].files, files, name)
  IN  IF k = 0 THEN 0 ELSE dirs[d].files[k]

get_file(path) ==
  LET p == Parent(path)
      f == FileIn(p, path_split(path).file)
  IN  /\ p \notin {Missing, Unset}
      /\ Returns("get_file", path, IF f = 0 THEN NO_SUCH_FILE ELSE files[f].data)
      /\ UNCHANGED <<dirs, files>>

\* assert(dirE.succeed()) in get_file; assert(current), or the use of whatever
\* the root's parent holds, in get_directory.
FsHalts(path) ==
  /\ ~halted
  /\ \E name \in {"directory_create", "file_create", "get_file"} :
       /\ Parent(path) \in {Unset} \cup (IF name = "get_file" THEN {Missing} ELSE {})
       /\ request' = <<name, path>>
  /\ halted' = TRUE
  /\ UNCHANGED <<dirs, files, answer>>

initialize_filesystem ==
  /\ dirs = <<[name |-> "/", parent |-> Unset, directories |-> <<>>, files |-> <<>>]>>
  /\ files = <<>>
  /\ request = <<>> /\ answer = SUCCEED /\ halted = FALSE

\* A call of the file system, with the data a new file would get.
FsCall(path, data) ==
  \/ directory_create(path) \/ file_create(path, data)
  \/ CreateFails(path) \/ get_file(path) \/ FsHalts(path)

\* The file system with any callers.
FsNext == \E path \in Paths, data \in Data : FsCall(path, data)

FsSpec == initialize_filesystem /\ [][FsNext]_fsVars

-----------------------------------------------------------------------------
(***************************************************************************)
(* Properties                                                              *)
(***************************************************************************)
DirIds == DOMAIN dirs
FileIds == DOMAIN files

\* Type invariant and the shape of the tree: a directory or a file is on one
\* list, once, and that is a list of its parent; parents are older, so every
\* chain of them ends at the root.
TreeIsWellFormed ==
  /\ \A d \in DirIds :
       /\ dirs[d].parent \in IF d = Root THEN {Unset} ELSE 1 .. d - 1
       /\ ToSet(dirs[d].directories) = {e \in DirIds \ {Root} : dirs[e].parent = d}
       /\ ToSet(dirs[d].files) = {f \in FileIds : files[f].parent = d}
       /\ IsInjective(dirs[d].directories) /\ IsInjective(dirs[d].files)
  /\ \A f \in FileIds : files[f].data \in Data /\ files[f].parent \in DirIds

\* The names from the root to d.
PlaceOf ==
  LET place[d \in DirIds] ==
        IF d = Root THEN <<>> ELSE Append(place[dirs[d].parent], dirs[d].name)
  IN  place

\* Not hidden by a younger directory of the same name, here or further up.
Visible ==
  LET visible[d \in DirIds] ==
        d = Root \/ LET list == dirs[dirs[d].parent].directories
                    IN  /\ visible[dirs[d].parent]
                        /\ list[FirstNamed(list, dirs, dirs[d].name)] = d
  IN  {d \in DirIds : visible[d]}

VisibleFiles ==
  LET visible == Visible
  IN  {f \in FileIds : /\ files[f].parent \in visible
                       /\ FileIn(files[f].parent, files[f].name) = f}

PlaceOfFile(f) == Append(PlaceOf[files[f].parent], files[f].name)

Directories == LET place == PlaceOf IN {place[d] : d \in Visible}

Contents ==
  LET shown == VisibleFiles
  IN  [p \in {PlaceOfFile(f) : f \in shown} |->
         files[CHOOSE f \in shown : PlaceOfFile(f) = p].data]

Store == INSTANCE FileStore WITH directories <- Directories, contents <- Contents

\* Two directories of one name, of which only the first is ever looked at, a
\* path cut in two and read again, and lists that grow at the front together
\* behave as one map from paths to contents.
ImplementsFileStore == Store!StoreSpec
=============================================================================
