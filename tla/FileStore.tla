------------------------------ MODULE FileStore ------------------------------
(***************************************************************************)
(* What the kernel expects of its file system: a set of directories and a  *)
(* map from places to contents.  A place is the sequence of names that     *)
(* leads to it from the root.  A file created where there is one takes its *)
(* place; a directory created where there is one starts out empty.         *)
(***************************************************************************)
EXTENDS Integers, Sequences, SequencesExt

CONSTANTS
  Paths,       \* what callers pass: a path, cut at its slashes
  Data,        \* what callers store
  SUCCEED, NO_SUCH_FILE, OUT_OF_MEMORY,
  Missing, Unset

VARIABLES
  directories, contents,
  request,     \* the call: its name and its path
  answer, halted

storeVars == <<directories, contents, request, answer, halted>>

\* One name of a path, from place p.
Go(p, name) ==
  IF p \in {Missing, Unset} THEN p
  ELSE CASE name = ".." /\ p = <<>> -> Unset
         [] name = ".." /\ p # <<>> -> Front(p)
         [] name = "."              -> p
         [] OTHER -> IF Append(p, name) \in directories THEN Append(p, name) ELSE Missing

\* A path ends where nothing stands between two slashes.
Used(path) ==
  LET end == SelectInSeq(path, LAMBDA c : c = "")
  IN  IF end = 0 THEN path ELSE SubSeq(path, 1, end - 1)

\* Where all names of a path but the last lead.
Parent(path) ==
  LET names == Front(Used(path))
      after[n \in 0 .. Len(names)] ==
        IF n = 0 THEN <<>> ELSE Go(after[n - 1], names[n])
  IN  after[Len(names)]

Found(path) == Parent(path) \notin {Missing, Unset}
Place(path) ==
  Append(Parent(path), IF Used(path) = <<>> THEN "" ELSE Last(Used(path)))

CreateDirectory(path) ==
  /\ request' = <<"directory_create", path>>
  /\ Found(path) /\ answer' = SUCCEED
  /\ LET place == Place(path)
         Kept(q) == ~IsStrictPrefix(place, q)
     IN  /\ directories' = {q \in directories : Kept(q)} \cup {place}
         /\ contents' = [q \in {r \in DOMAIN contents : Kept(r)} |-> contents[q]]
  /\ UNCHANGED halted

CreateFile(path, data) ==
  /\ request' = <<"file_create", path>>
  /\ Found(path) /\ answer' = SUCCEED
  /\ LET place == Place(path)
     IN  contents' = [q \in DOMAIN contents \cup {place} |->
                        IF q = place THEN data ELSE contents[q]]
  /\ UNCHANGED <<directories, halted>>

Fails(path) ==
  /\ \/ request' = <<"directory_create", path>> /\ answer' = NO_SUCH_FILE
     \/ request' = <<"file_create", path>> /\ answer' = OUT_OF_MEMORY
  /\ Parent(path) = Missing
  /\ UNCHANGED <<directories, contents, halted>>

GetFile(path) ==
  /\ request' = <<"get_file", path>>
  /\ Found(path)
  /\ answer' = IF Place(path) \in DOMAIN contents
               THEN contents[Place(path)] ELSE NO_SUCH_FILE
  /\ UNCHANGED <<directories, contents, halted>>

\* Above the root; a file looked for in a directory that is not there.
Halts(path) ==
  /\ request' \in {"directory_create", "file_create", "get_file"} \X {path}
  /\ Parent(path) \in {Unset} \cup (IF request'[1] = "get_file" THEN {Missing} ELSE {})
  /\ halted' = TRUE
  /\ UNCHANGED <<directories, contents, answer>>

StoreInit ==
  /\ directories = {<<>>} /\ contents = <<>>
  /\ request = <<>> /\ answer = SUCCEED /\ halted = FALSE

StoreNext ==
  /\ ~halted
  /\ \E path \in Paths :
       \/ CreateDirectory(path)
       \/ \E data \in Data : CreateFile(path, data)
       \/ Fails(path) \/ GetFile(path) \/ Halts(path)

StoreSpec == StoreInit /\ [][StoreNext]_storeVars
==============================================================================
