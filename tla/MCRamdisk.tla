------------------------------ MODULE MCRamdisk ------------------------------
(* The boot with archives of up to three entries, in any order: directories *)
(* and files in them and beside them, sizes on both sides of a block.  And  *)
(* the file system alone, called in any order, with paths of two levels,    *)
(* the two special names, and slashes in unusual places.                    *)
EXTENDS Ramdisk

Sizes == {0, 1, 2, 3}

Entries ==
  {[path |-> p, size |-> 0] : p \in {<<"d", "">>, <<"d", "e", "">>, <<".", "">>}}
    \cup {[path |-> p, size |-> 1] : p \in {<<"d", "e", "f">>, <<".", "test.txt">>}}
    \cup {[path |-> p, size |-> s] : p \in {<<"test.txt">>, <<"d", "f">>}, s \in Sizes}

Ramdisk(a) == [command_line |-> "ramdisk", archive |-> a]
Other == [command_line |-> "other", archive |-> <<>>]

Archives(S, n) == UNION {[1 .. k -> S] : k \in 0 .. n}

\* One archive, or two of which the second may repeat what is in the first.
Ramdisks ==
  {<<Ramdisk(a)>> : a \in Archives(Entries, 3)}
    \cup {<<Ramdisk(a), Ramdisk(b)>> :
            a \in Archives({e \in Entries : e.size = 1 \/ IsDirectory(e.path)}, 2),
            b \in Archives({e \in Entries : e.size \in {0, 2}}, 1)}
    \cup {<<>>, <<Other>>, <<Ramdisk(<<[path |-> <<"..", "f">>, size |-> 0]>>)>>}

\* A module that is not a ramdisk before one that is.
WithUnknown == {<<Other, Ramdisk(<<[path |-> <<"test.txt">>, size |-> 1]>>)>>}

CallerPaths ==
  {<<"a">>, <<"a", "b", "">>, <<"a", "", "b">>, <<"a", "..", "b">>,
   <<"..", "a">>, <<"", "b">>, <<"a", "b", "a">>}

MCPaths == CallerPaths \cup {e.path : e \in Entries} \cup {<<"..", "f">>}
MCData == {<<1, 1>>, <<1, 2>>, <<1, 3>>, <<2, 1>>}

-----------------------------------------------------------------------------
(* Three directories besides the root: one inside another, or one that     *)
(* hides another.  Two files: one that replaces another, or elsewhere.     *)
CallersInit ==
  /\ initialize_filesystem
  /\ pc = "callers"
  /\ modules = <<>> /\ m = 0 /\ i = 0 /\ copied = -1 /\ offered = <<>>

CallersNext ==
  /\ pc = "callers"
  /\ \E path \in CallerPaths, data \in {<<1, 1>>, <<1, 2>>} : FsCall(path, data)
  /\ Len(dirs') <= 4 /\ Len(files') <= 2
  /\ UNCHANGED loaderVars

FilesSpec ==
  /\ RamdiskInit \/ CallersInit
  /\ [][RamdiskNext \/ CallersNext]_ramdiskVars
  /\ WF_ramdiskVars(RamdiskNext)
==============================================================================
