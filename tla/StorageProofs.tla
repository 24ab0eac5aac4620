--------------------------- MODULE StorageProofs ---------------------------
(***************************************************************************)
(* Theorems about the file system, the boot that fills it and the heap,    *)
(* for any paths, archives, sizes and amounts of memory, with the proofs   *)
(* TLAPS checks.                                                           *)
(***************************************************************************)
EXTENDS Ramdisk, Heap, Induction, SequenceTheorems

-----------------------------------------------------------------------------
(* Sequences: one behind another, and the first elements of one.           *)

\* One list behind another.
LEMMA ConcatGives ==
  ASSUME NEW S, NEW s \in Seq(S), NEW t \in Seq(S)
  PROVE  /\ s \o t \in Seq(S) /\ Len(s \o t) = Len(s) + Len(t)
         /\ \A n \in 1 .. Len(s) : (s \o t)[n] = s[n]
         /\ \A n \in 1 .. Len(t) : (s \o t)[Len(s) + n] = t[n]
<1>1. PICK st : st = s \o t
  OBVIOUS
<1>2. /\ st \in Seq(S) /\ Len(st) = Len(s) + Len(t)
      /\ \A n \in 1 .. Len(s) + Len(t) : st[n] = IF n <= Len(s) THEN s[n] ELSE t[n - Len(s)]
  BY <1>1, ConcatProperties
<1>3. ASSUME NEW n \in 1 .. Len(t) PROVE st[Len(s) + n] = t[n]
  <2>1. PICK j \in 1 .. Len(s) + Len(t) : j = Len(s) + n
    OBVIOUS
  <2>2. st[j] = t[j - Len(s)] /\ j - Len(s) = n
    BY <1>2, <2>1
  <2> QED BY <2>1, <2>2
<1> QED BY <1>1, <1>2, <1>3

\* The first n of a sequence.
LEMMA PrefixFits ==
  ASSUME NEW S, NEW s \in Seq(S), NEW n \in Nat, n <= Len(s)
  PROVE  /\ SubSeq(s, 1, n) \in Seq(S) /\ Len(SubSeq(s, 1, n)) = n
         /\ \A k \in 1 .. n : SubSeq(s, 1, n)[k] = s[k]
<1>1. \A k \in 1 .. n : s[k] \in S
  OBVIOUS
<1>2. /\ SubSeq(s, 1, n) \in Seq(S)
      /\ Len(SubSeq(s, 1, n)) = IF 1 <= n THEN n - 1 + 1 ELSE 0
      /\ \A k \in 1 .. n - 1 + 1 : SubSeq(s, 1, n)[k] = s[1 + k - 1]
  BY <1>1, SubSeqProperties
<1> QED BY <1>2

\* One more of it.
LEMMA PrefixGrows ==
  ASSUME NEW S, NEW s \in Seq(S), NEW n \in Nat, n < Len(s)
  PROVE  SubSeq(s, 1, n + 1) = Append(SubSeq(s, 1, n), s[n + 1])
<1>1. PICK a : a = SubSeq(s, 1, n)
  OBVIOUS
<1>2. a \in Seq(S) /\ Len(a) = n /\ \A k \in 1 .. n : a[k] = s[k]
  BY <1>1, PrefixFits
<1>3. PICK b : b = SubSeq(s, 1, n + 1)
  OBVIOUS
<1>4. b \in Seq(S) /\ Len(b) = n + 1 /\ \A k \in 1 .. n + 1 : b[k] = s[k]
  <2>1. PICK l \in Nat : l = n + 1 /\ l <= Len(s)
    OBVIOUS
  <2>2. b = SubSeq(s, 1, l)
    BY <1>3, <2>1
  <2>3. b \in Seq(S) /\ Len(b) = l /\ \A k \in 1 .. l : b[k] = s[k]
    BY <2>1, <2>2, PrefixFits
  <2> QED BY <2>1, <2>3
<1>5. PICK c : c = Append(a, s[n + 1])
  OBVIOUS
<1>6. /\ c \in Seq(S) /\ Len(c) = n + 1 /\ c[n + 1] = s[n + 1]
      /\ \A k \in 1 .. n : c[k] = a[k]
  <2>1. s[n + 1] \in S
    OBVIOUS
  <2> QED BY <1>2, <1>5, <2>1, AppendProperties
<1>7. \A k \in 1 .. Len(b) : b[k] = c[k]
  BY <1>2, <1>4, <1>6
<1>8. b = c
  BY <1>4, <1>6, <1>7, SeqEqual
<1> QED BY <1>1, <1>3, <1>5, <1>8

\* A prefix of a prefix.
LEMMA PrefixOfPrefix ==
  ASSUME NEW S, NEW s \in Seq(S), NEW l \in Nat, l <= Len(s), NEW n \in 0 .. l
  PROVE  SubSeq(SubSeq(s, 1, l), 1, n) = SubSeq(s, 1, n)
<1>1. PICK t : t = SubSeq(s, 1, l)
  OBVIOUS
<1>2. t \in Seq(S) /\ Len(t) = l /\ \A k \in 1 .. l : t[k] = s[k]
  BY <1>1, PrefixFits
<1>3. PICK u : u = SubSeq(s, 1, n)
  OBVIOUS
<1>4. n \in Nat /\ n <= Len(s) /\ n <= Len(t)
  BY <1>2
<1>5. u \in Seq(S) /\ Len(u) = n /\ \A k \in 1 .. n : u[k] = s[k]
  BY <1>3, <1>4, PrefixFits
<1>6. PICK v : v = SubSeq(t, 1, n)
  OBVIOUS
<1>7. v \in Seq(S) /\ Len(v) = n /\ \A k \in 1 .. n : v[k] = t[k]
  BY <1>2, <1>4, <1>6, PrefixFits
<1>8. \A k \in 1 .. Len(u) : u[k] = v[k]
  <2>1. ASSUME NEW k \in 1 .. n PROVE u[k] = v[k]
    <3>1. k \in 1 .. l
      BY <1>4
    <3> QED BY <1>2, <1>5, <1>7, <3>1
  <2> QED BY <1>5, <2>1
<1>9. u = v
  BY <1>5, <1>7, <1>8, SeqEqual
<1> QED BY <1>1, <1>3, <1>6, <1>9

-----------------------------------------------------------------------------
(* The tree of directories and files.                                      *)

Names == {"/"} \cup {path_split(path).file : path \in Paths}

DirectoryType ==
  [name : Names, parent : Nat \cup {Unset}, directories : Seq(Nat), files : Seq(Nat)]

FileType == [name : Names, parent : Nat, data : Data]

TreeInv ==
  /\ dirs \in Seq(DirectoryType) /\ Len(dirs) >= 1
  /\ files \in Seq(FileType)
  /\ TreeIsWellFormed

\* Where a path may lead.
Reached == DirIds \cup {Missing, Unset}

\* A path ends at its first empty component, or at its end.
LEMMA PathEnds ==
  ASSUME NEW path, Len(path) \in Nat
  PROVE  /\ path_len(path) \in 0 .. Len(path)
         /\ path_read(path, path_len(path)) = Empty
         /\ \A k \in 0 .. path_len(path) - 1 : path_read(path, k) # Empty
<1> DEFINE S == {n \in 0 .. Len(path) : path_read(path, n) = Empty}
<1>1. Len(path) \in S
  BY DEF path_read
<1>2. PICK n \in S : \A k \in S : n <= k
  <2>1. S \in SUBSET Nat
    OBVIOUS
  <2> HIDE DEF S
  <2>2. Min(S) \in S /\ \A k \in S : Min(S) <= k
    BY <1>1, <2>1, MinIsLeast
  <2> QED BY <2>2
<1>3. /\ n \in 0 .. Len(path) /\ path_read(path, n) = Empty
      /\ \A k \in 0 .. n - 1 : path_read(path, k) # Empty
  BY <1>2
<1> HIDE DEF S
<1> QED BY <1>3 DEF path_len

\* The first of a list with a name is on the list.
LEMMA FirstNamedIsListed ==
  ASSUME NEW list \in Seq(Nat), NEW items, NEW name
  PROVE  FirstNamed(list, items, name) = 0 \/ FirstNamed(list, items, name) \in DOMAIN list
<1> DEFINE S == {k \in 1 .. Len(list) : items[list[k]].name = name}
<1>1. FirstNamed(list, items, name) = IF S # {} THEN Min(S) ELSE 0
  BY DEF FirstNamed, SelectInSeq
<1>2. S \subseteq DOMAIN list /\ S \in SUBSET Nat
  OBVIOUS
<1> HIDE DEF S
<1>3. S # {} => Min(S) \in S
  BY <1>2, MinIsLeast
<1> QED BY <1>1, <1>2, <1>3

\* A component leads from a directory to a directory, out of the tree, or nowhere.
LEMMA EnterStaysInTree ==
  ASSUME TreeInv, NEW current \in Reached, NEW name
  PROVE  Enter(current, name) \in Reached
<1>1. CASE current \in {Missing, Unset}
  BY <1>1 DEF Enter
<1>2. CASE current \notin {Missing, Unset}
  <2> DEFINE list == dirs[current].directories
             k == FirstNamed(list, dirs, name)
  <2>1. current \in DirIds /\ current \in Nat /\ DirIds = 1 .. Len(dirs)
    BY <1>2 DEF Reached, DirIds, TreeInv
  <2>2. list \in Seq(Nat) /\ ToSet(list) \subseteq DirIds
    <3>1. dirs[current] \in DirectoryType
      BY <2>1 DEF TreeInv
    <3>2. list \in Seq(Nat)
      BY <3>1 DEF DirectoryType
    <3>3. ToSet(list) = {e \in DirIds \ {Root} : dirs[e].parent = current}
      BY <2>1 DEF TreeInv, TreeIsWellFormed
    <3> QED BY <3>2, <3>3
  <2>3. dirs[current].parent \in Reached
    BY <2>1 DEF TreeInv, TreeIsWellFormed, Reached
  <2>4. k = 0 \/ list[k] \in DirIds
    <3>1. k = 0 \/ k \in DOMAIN list
      BY <2>2, FirstNamedIsListed
    <3> HIDE DEF k, list
    <3> QED BY <2>2, <3>1 DEF ToSet
  <2>5. Enter(current, name) \in {dirs[current].parent, current, Missing} \cup (IF k = 0 THEN {} ELSE {list[k]})
    BY <1>2 DEF Enter
  <2> QED BY <2>1, <2>3, <2>4, <2>5 DEF Reached
<1> QED BY <1>1, <1>2

\* The directories a sequence of components leads through.
Entered(f, components) ==
  /\ f[0] = Root /\ get_directory(components) = f[Len(components)]
  /\ \A j \in 1 .. Len(components) : f[j] = Enter(f[j - 1], components[j])

\* Every sequence of components leads through some directories.
LEMMA ComponentsAreEntered ==
  ASSUME TreeInv, NEW components, Len(components) \in Nat
  PROVE  \E f : Entered(f, components)
<1> DEFINE N == Len(components)
           G == [p \in (1 .. N) \X Reached |-> Enter(p[2], components[p[1]])]
           Is(f) == f = [j \in 0 .. N |->
                           IF j = 0 THEN Root ELSE Enter(f[j - 1], components[j])]
<1>1. Root \in Reached
  BY DEF Root, Reached, DirIds, TreeInv
<1>2. G \in StepFunctions(N, Reached)
  BY EnterStaysInTree DEF StepFunctions
<1>3. PICK g : Recursive(g, N, Reached, Root, G)
  <2> HIDE DEF G
  <2> QED BY <1>1, <1>2, RecursionUpTo
<1>4. g \in [0 .. N -> Reached] /\ g[0] = Root
      /\ \A j \in 1 .. N : g[j] = Enter(g[j - 1], components[j])
  <2>1. ASSUME NEW j \in 1 .. N PROVE g[j] = Enter(g[j - 1], components[j])
    <3>1. g[j] = G[<<j, g[j - 1]>>] /\ g[j - 1] \in Reached
      <4> HIDE DEF G, Is
      <4> QED BY <1>3 DEF Recursive
    <3> QED BY <3>1
  <2> QED BY <1>3, <2>1 DEF Recursive
<1>5. Is(g)
  <2>1. ASSUME NEW j \in 0 .. N
        PROVE  g[j] = IF j = 0 THEN Root ELSE Enter(g[j - 1], components[j])
    BY <1>4
  <2> QED BY <1>4, <2>1
<1>6. PICK f : Is(f) /\ get_directory(components) = f[N]
  <2>1. get_directory(components) = (CHOOSE f : Is(f))[N]
    BY DEF get_directory
  <2> HIDE DEF Is
  <2> QED BY <1>5, <2>1
<1>7. DOMAIN f = 0 .. N /\ f[0] = Root
      /\ \A j \in 1 .. N : f[j] = Enter(f[j - 1], components[j])
  BY <1>6
<1> HIDE DEF Is, G
<1> QED BY <1>6, <1>7 DEF Entered

\* A sequence of components stays in the tree.
LEMMA PathsStayInTree ==
  ASSUME TreeInv, NEW components, Len(components) \in Nat
  PROVE  get_directory(components) \in Reached
<1>1. PICK N \in Nat : N = Len(components)
  OBVIOUS
<1>2. PICK f : f[0] = Root /\ get_directory(components) = f[N]
               /\ \A j \in 1 .. N : f[j] = Enter(f[j - 1], components[j])
  BY <1>1, ComponentsAreEntered DEF Entered
<1>3. Root \in Reached
  BY DEF Root, Reached, DirIds, TreeInv
<1> DEFINE S == {j \in 0 .. N : f[j] \in Reached}
<1>4. 0 \in S
  BY <1>2, <1>3
<1>5. ASSUME NEW j \in 1 .. N, j - 1 \in S PROVE j \in S
  BY <1>2, <1>5, EnterStaysInTree
<1>6. N \in S
  <2> HIDE DEF S
  <2>1. 0 .. N \subseteq S
    BY <1>4, <1>5, InductionUpTo
  <2> QED BY <2>1
<1> QED BY <1>2, <1>6

\* The directory a call looks its last component up in.
LEMMA ParentStaysInTree ==
  ASSUME TreeInv, NEW path, Len(path) \in Nat
  PROVE  Parent(path) \in Reached
<1>1. PICK n \in Nat : n = path_len(path)
  BY PathEnds
<1>2. Len(path_split(path).dir) \in Nat
  BY <1>1 DEF path_split
<1> QED BY <1>2, PathsStayInTree DEF Parent

\* A list that grows at the front by what was not on it.
LEMMA PrependKeeps ==
  ASSUME NEW list \in Seq(Nat), NEW x \in Nat, x \notin ToSet(list), IsInjective(list)
  PROVE  /\ <<x>> \o list \in Seq(Nat)
         /\ ToSet(<<x>> \o list) = ToSet(list) \cup {x}
         /\ IsInjective(<<x>> \o list)
<1>1. PICK new \in Seq(Nat) : new = <<x>> \o list
  <2>1. <<x>> \in Seq(Nat)
    OBVIOUS
  <2>2. <<x>> \o list \in Seq(Nat)
    BY <2>1, ConcatProperties
  <2> QED BY <2>2
<1>2. /\ Len(new) = Len(list) + 1 /\ new[1] = x
      /\ \A k \in 1 .. Len(list) : new[k + 1] = list[k]
  BY <1>1
<1>3. \A k \in 2 .. Len(new) : k - 1 \in 1 .. Len(list) /\ new[k] = list[k - 1]
  <2>1. ASSUME NEW k \in 2 .. Len(new) PROVE k - 1 \in 1 .. Len(list) /\ new[k] = list[k - 1]
    <3>1. PICK j \in 1 .. Len(list) : j = k - 1
      BY <1>2
    <3>2. new[j + 1] = list[j] /\ j + 1 = k
      BY <1>2, <3>1
    <3> QED BY <3>1, <3>2
  <2> QED BY <2>1
<1>4. DOMAIN new = {1} \cup 2 .. Len(new) /\ DOMAIN list = 1 .. Len(list)
  BY <1>2
<1>5. ToSet(new) = ToSet(list) \cup {x}
  <2>1. ASSUME NEW v \in ToSet(new) PROVE v \in ToSet(list) \cup {x}
    <3>1. PICK k \in DOMAIN new : v = new[k]
      BY DEF ToSet
    <3> QED BY <1>2, <1>3, <1>4, <3>1 DEF ToSet
  <2>2. ASSUME NEW v \in ToSet(list) PROVE v \in ToSet(new)
    <3>1. PICK k \in 1 .. Len(list) : v = list[k]
      BY <1>4 DEF ToSet
    <3>2. k + 1 \in DOMAIN new /\ new[k + 1] = v
      BY <1>2, <1>4, <3>1
    <3> QED BY <3>2 DEF ToSet
  <2>3. x \in ToSet(new)
    BY <1>2, <1>4 DEF ToSet
  <2> QED BY <2>1, <2>2, <2>3
<1>6. IsInjective(new)
  <2>1. ASSUME NEW a \in DOMAIN new, NEW b \in DOMAIN new, new[a] = new[b] PROVE a = b
    <3>1. \A k \in 2 .. Len(new) : new[k] # x
      BY <1>3, <1>4 DEF ToSet
    <3>2. CASE a \in 2 .. Len(new) /\ b \in 2 .. Len(new)
      <4>1. list[a - 1] = list[b - 1] /\ a - 1 \in DOMAIN list /\ b - 1 \in DOMAIN list
        BY <1>3, <1>4, <2>1, <3>2
      <4>2. a - 1 = b - 1
        BY <4>1 DEF IsInjective
      <4> QED BY <3>2, <4>2
    <3> QED BY <1>2, <1>4, <2>1, <3>1, <3>2
  <2> QED BY <2>1 DEF IsInjective
<1> QED BY <1>1, <1>5, <1>6

\* Directory d of this name has been put in front of the list of p.
DirectoryMade(p, d, name) ==
  /\ DirIds = 1 .. d - 1 /\ d \in Nat /\ d >= 2 /\ p \in DirIds
  /\ dirs' \in Seq(DirectoryType) /\ Len(dirs') = d /\ DirIds' = DirIds \cup {d}
  /\ files' = files /\ FileIds' = FileIds
  /\ \A e \in DirIds :
       /\ dirs'[e].parent = dirs[e].parent /\ dirs'[e].name = dirs[e].name
       /\ dirs'[e].files = dirs[e].files
       /\ dirs'[e].directories = IF e = p THEN <<d>> \o dirs[p].directories
                                 ELSE dirs[e].directories
  /\ dirs'[d].parent = p /\ dirs'[d].name = name
  /\ dirs'[d].directories = <<>> /\ dirs'[d].files = <<>>

\* directory_create makes one, of the last name of its path.
LEMMA DirectoryCreateMakes ==
  ASSUME TreeInv, NEW path \in Paths, directory_create(path)
  PROVE  DirectoryMade(Parent(path), Len(dirs) + 1, path_split(path).file)
<1>1. PICK p \in DirIds : p = Parent(path)
  <2>1. Len(path) \in Nat
    BY FileSystemAssumption
  <2> QED BY <2>1, ParentStaysInTree DEF directory_create, Reached
<1>2. PICK d \in Nat : d = Len(dirs) + 1
  BY DEF TreeInv
<1>3. /\ DirIds = 1 .. Len(dirs) /\ p \in 1 .. d - 1 /\ d >= 2 /\ d \notin DirIds
      /\ dirs \in Seq(DirectoryType)
  BY <1>1, <1>2 DEF DirIds, TreeInv
<1>4. PICK list \in Seq(Nat) : list = dirs[p].directories
  <2>1. dirs[p] \in DirectoryType
    BY <1>1, <1>3
  <2> QED BY <2>1 DEF DirectoryType
<1>5. d \notin ToSet(list) /\ IsInjective(list)
  BY <1>1, <1>3, <1>4 DEF TreeInv, TreeIsWellFormed
<1>6. PICK longer \in Seq(Nat) :
        longer = <<d>> \o list /\ ToSet(longer) = ToSet(list) \cup {d} /\ IsInjective(longer)
  BY <1>5, PrependKeeps
<1>7. PICK new \in DirectoryType :
        new = [name |-> path_split(path).file, parent |-> p, directories |-> <<>>, files |-> <<>>]
  <2>1. PICK name \in Names : name = path_split(path).file
    BY DEF Names
  <2>2. <<>> \in Seq(Nat) /\ p \in Nat \cup {Unset}
    BY <1>3
  <2>3. [name |-> name, parent |-> p, directories |-> <<>>, files |-> <<>>] \in DirectoryType
    BY <2>2 DEF DirectoryType
  <2> QED BY <2>1, <2>3
<1>8. PICK mid \in Seq(DirectoryType) : mid = [dirs EXCEPT ![p].directories = longer]
  <2>1. dirs[p] \in DirectoryType
    BY <1>1, <1>3
  <2>2. [dirs[p] EXCEPT !.directories = longer] \in DirectoryType
    BY <2>1 DEF DirectoryType
  <2>3. [dirs EXCEPT ![p] = [dirs[p] EXCEPT !.directories = longer]] \in Seq(DirectoryType)
    BY <1>3, <2>2
  <2> QED BY <1>1, <1>3, <2>3
<1>9. dirs' = Append(mid, new) /\ files' = files
  BY <1>1, <1>2, <1>4, <1>6, <1>7, <1>8 DEF directory_create, alloc_dir
<1>10. Len(mid) = d - 1
  BY <1>2, <1>3, <1>8
<1>11. /\ dirs' \in Seq(DirectoryType) /\ Len(dirs') = d /\ dirs'[d] = new
       /\ \A e \in 1 .. d - 1 : dirs'[e] = mid[e]
  BY <1>3, <1>9, <1>10
<1>12. ASSUME NEW e \in DirIds
       PROVE  /\ dirs'[e].parent = dirs[e].parent /\ dirs'[e].name = dirs[e].name
              /\ dirs'[e].files = dirs[e].files
              /\ dirs'[e].directories = IF e = p THEN longer ELSE dirs[e].directories
  <2>1. dirs'[e] = mid[e] /\ dirs[e] \in DirectoryType
    BY <1>2, <1>3, <1>11
  <2>2. mid[e] = IF e = p THEN [dirs[p] EXCEPT !.directories = longer] ELSE dirs[e]
    BY <1>3, <1>8
  <2> QED BY <2>1, <2>2 DEF DirectoryType
<1>13. DirIds' = DirIds \cup {d} /\ FileIds' = FileIds
  BY <1>2, <1>3, <1>9, <1>11 DEF DirIds, FileIds
<1>14. dirs'[d].parent = p /\ dirs'[d].name = path_split(path).file /\ dirs'[d].directories = <<>> /\ dirs'[d].files = <<>>
  BY <1>7, <1>11
<1>15. DirIds = 1 .. d - 1 /\ files' = files
  BY <1>2, <1>3, <1>9
<1>16. \A e \in DirIds :
         dirs'[e].directories = IF e = p THEN <<d>> \o dirs[p].directories ELSE dirs[e].directories
  BY <1>4, <1>6, <1>12
<1>17. DirectoryMade(p, d, path_split(path).file)
  BY <1>3, <1>11, <1>12, <1>13, <1>14, <1>15, <1>16 DEF DirectoryMade
<1> QED BY <1>1, <1>2, <1>17

\* A new directory stands in front of its parent's list.
LEMMA DirectoryCreateKeepsTree ==
  ASSUME TreeInv, NEW path \in Paths, directory_create(path)
  PROVE  TreeInv'
<1>1. PICK p, d, name : DirectoryMade(p, d, name)
  BY DirectoryCreateMakes
<1>3. /\ p \in DirIds /\ p \in 1 .. d - 1 /\ d \in Nat /\ d >= 2 /\ d \notin DirIds
      /\ DirIds = 1 .. Len(dirs) /\ dirs \in Seq(DirectoryType)
  BY <1>1 DEF DirectoryMade, DirIds, TreeInv
<1>4. PICK list \in Seq(Nat) : list = dirs[p].directories
  <2>1. dirs[p] \in DirectoryType
    BY <1>1, <1>3
  <2> QED BY <2>1 DEF DirectoryType
<1>5. d \notin ToSet(list) /\ IsInjective(list)
  BY <1>1, <1>3, <1>4 DEF TreeInv, TreeIsWellFormed
<1>6. PICK longer \in Seq(Nat) :
        longer = <<d>> \o list /\ ToSet(longer) = ToSet(list) \cup {d} /\ IsInjective(longer)
  BY <1>3, <1>5, PrependKeeps
<1>9. files' = files
  BY <1>1 DEF DirectoryMade
<1>11. dirs' \in Seq(DirectoryType) /\ Len(dirs') = d
  BY <1>1 DEF DirectoryMade
<1>12. \A e \in DirIds :
         /\ dirs'[e].parent = dirs[e].parent /\ dirs'[e].files = dirs[e].files
         /\ dirs'[e].directories = IF e = p THEN longer ELSE dirs[e].directories
  BY <1>1, <1>4, <1>6 DEF DirectoryMade
<1>13. DirIds' = DirIds \cup {d} /\ FileIds' = FileIds
  BY <1>1 DEF DirectoryMade
<1>14. dirs'[d].parent = p /\ dirs'[d].directories = <<>> /\ dirs'[d].files = <<>>
  BY <1>1 DEF DirectoryMade
<1>15. TreeIsWellFormed'
  <2>1. ASSUME NEW e \in DirIds'
        PROVE  dirs'[e].parent \in IF e = Root THEN {Unset} ELSE 1 .. e - 1
    <3>1. CASE e = d
      BY <1>3, <1>14, <3>1 DEF Root
    <3>2. CASE e \in DirIds
      <4>1. dirs'[e].parent = dirs[e].parent
        BY <1>12, <3>2
      <4> QED BY <3>2, <4>1 DEF TreeInv, TreeIsWellFormed
    <3> QED BY <1>13, <3>1, <3>2
  <2>2. ASSUME NEW e \in DirIds'
        PROVE  /\ ToSet(dirs'[e].directories) = {c \in DirIds' \ {Root} : dirs'[c].parent = e}
               /\ IsInjective(dirs'[e].directories)
    <3>1. CASE e = d
      <4>1. \A c \in DirIds' \ {Root} : dirs'[c].parent # d
        BY <1>3, <1>13, <2>1 DEF Root
      <4>2. ToSet(<<>>) = {} /\ IsInjective(<<>>)
        BY DEF ToSet, IsInjective
      <4> QED BY <1>14, <3>1, <4>1, <4>2
    <3>2. CASE e # d
      <4>1. e \in DirIds
        BY <1>13, <3>2
      <4>2. /\ ToSet(dirs[e].directories) = {c \in DirIds \ {Root} : dirs[c].parent = e}
            /\ IsInjective(dirs[e].directories)
        BY <4>1 DEF TreeInv, TreeIsWellFormed
      <4>3. {c \in DirIds' \ {Root} : dirs'[c].parent = e}
              = {c \in DirIds \ {Root} : dirs[c].parent = e} \cup IF e = p THEN {d} ELSE {}
        BY <1>3, <1>12, <1>13, <1>14 DEF Root
      <4> QED BY <1>4, <1>6, <1>12, <4>1, <4>2, <4>3
    <3> QED BY <3>1, <3>2
  <2>3. ASSUME NEW e \in DirIds'
        PROVE  /\ ToSet(dirs'[e].files) = {f \in FileIds' : files'[f].parent = e}
               /\ IsInjective(dirs'[e].files)
    <3>1. CASE e = d
      <4>1. \A f \in FileIds : files[f].parent # d
        BY <1>3 DEF TreeInv, TreeIsWellFormed
      <4>2. ToSet(<<>>) = {} /\ IsInjective(<<>>)
        BY DEF ToSet, IsInjective
      <4> QED BY <1>9, <1>13, <1>14, <3>1, <4>1, <4>2
    <3>2. CASE e # d
      <4>1. e \in DirIds /\ dirs'[e].files = dirs[e].files
        BY <1>12, <1>13, <3>2
      <4>2. /\ ToSet(dirs[e].files) = {f \in FileIds : files[f].parent = e}
            /\ IsInjective(dirs[e].files)
        BY <4>1 DEF TreeInv, TreeIsWellFormed
      <4> QED BY <1>9, <1>13, <4>1, <4>2
    <3> QED BY <3>1, <3>2
  <2>4. \A f \in FileIds' : files'[f].data \in Data /\ files'[f].parent \in DirIds'
    BY <1>9, <1>13 DEF TreeInv, TreeIsWellFormed
  <2>5. \A e \in DirIds' :
          /\ dirs'[e].parent \in IF e = Root THEN {Unset} ELSE 1 .. e - 1
          /\ ToSet(dirs'[e].directories) = {c \in DirIds' \ {Root} : dirs'[c].parent = e}
          /\ ToSet(dirs'[e].files) = {f \in FileIds' : files'[f].parent = e}
          /\ IsInjective(dirs'[e].directories) /\ IsInjective(dirs'[e].files)
    BY <2>1, <2>2, <2>3
  <2> QED BY <2>4, <2>5 DEF TreeIsWellFormed
<1> QED BY <1>3, <1>9, <1>11, <1>15 DEF TreeInv

\* File f of this name and data has been put in front of the list of p.
FileMade(p, f, name, data) ==
  /\ FileIds = 1 .. f - 1 /\ f \in Nat /\ f >= 1 /\ p \in DirIds
  /\ files' \in Seq(FileType) /\ Len(files') = f /\ FileIds' = FileIds \cup {f}
  /\ dirs' \in Seq(DirectoryType) /\ Len(dirs') = Len(dirs) /\ DirIds' = DirIds
  /\ \A g \in FileIds : files'[g] = files[g]
  /\ \A e \in DirIds :
       /\ dirs'[e].parent = dirs[e].parent /\ dirs'[e].name = dirs[e].name
       /\ dirs'[e].directories = dirs[e].directories
       /\ dirs'[e].files = IF e = p THEN <<f>> \o dirs[p].files ELSE dirs[e].files
  /\ files'[f].parent = p /\ files'[f].name = name /\ files'[f].data = data

\* file_create makes one, of the last name of its path.
LEMMA FileCreateMakes ==
  ASSUME TreeInv, NEW path \in Paths, NEW data \in Data, file_create(path, data)
  PROVE  FileMade(Parent(path), Len(files) + 1, path_split(path).file, data)
<1>1. PICK p \in DirIds : p = Parent(path)
  <2>1. Len(path) \in Nat
    BY FileSystemAssumption
  <2> QED BY <2>1, ParentStaysInTree DEF file_create, Reached
<1>2. PICK f \in Nat : f = Len(files) + 1
  BY DEF TreeInv
<1>3. /\ DirIds = 1 .. Len(dirs) /\ p \in Nat /\ FileIds = 1 .. f - 1 /\ f >= 1
      /\ f \notin FileIds /\ dirs \in Seq(DirectoryType) /\ files \in Seq(FileType)
  BY <1>1, <1>2 DEF DirIds, FileIds, TreeInv
<1>4. PICK list \in Seq(Nat) : list = dirs[p].files
  <2>1. dirs[p] \in DirectoryType
    BY <1>1, <1>3
  <2> QED BY <2>1 DEF DirectoryType
<1>5. f \notin ToSet(list) /\ IsInjective(list)
  BY <1>1, <1>3, <1>4 DEF TreeInv, TreeIsWellFormed
<1>6. PICK longer \in Seq(Nat) :
        longer = <<f>> \o list /\ ToSet(longer) = ToSet(list) \cup {f} /\ IsInjective(longer)
  BY <1>3, <1>5, PrependKeeps
<1>7. PICK new \in FileType : new = [name |-> path_split(path).file, parent |-> p, data |-> data]
  <2>1. PICK name \in Names : name = path_split(path).file
    BY DEF Names
  <2> QED BY <1>3, <2>1 DEF FileType
<1>8. dirs' = [dirs EXCEPT ![p].files = longer] /\ files' = Append(files, new)
  BY <1>1, <1>2, <1>4, <1>6, <1>7 DEF file_create, alloc_file
<1>9. dirs' \in Seq(DirectoryType) /\ Len(dirs') = Len(dirs)
  <2>1. dirs[p] \in DirectoryType
    BY <1>1, <1>3
  <2>2. [dirs[p] EXCEPT !.files = longer] \in DirectoryType
    BY <2>1 DEF DirectoryType
  <2>3. PICK new_dirs \in Seq(DirectoryType) :
          new_dirs = [dirs EXCEPT ![p] = [dirs[p] EXCEPT !.files = longer]]
    <3>1. [dirs EXCEPT ![p] = [dirs[p] EXCEPT !.files = longer]] \in Seq(DirectoryType)
      BY <1>3, <2>2
    <3> QED BY <3>1
  <2>4. Len(new_dirs) = Len(dirs) /\ dirs' = new_dirs
    BY <1>1, <1>3, <1>8, <2>3
  <2> QED BY <2>4
<1>10. /\ files' \in Seq(FileType) /\ files'[f] = new
       /\ \A g \in 1 .. f - 1 : files'[g] = files[g]
       /\ Len(files') = f
  BY <1>2, <1>3, <1>8
<1>11. ASSUME NEW e \in DirIds
       PROVE  /\ dirs'[e].parent = dirs[e].parent /\ dirs'[e].name = dirs[e].name
              /\ dirs'[e].directories = dirs[e].directories
              /\ dirs'[e].files = IF e = p THEN longer ELSE dirs[e].files
  <2>1. dirs[e] \in DirectoryType
    BY <1>3
  <2>2. dirs'[e] = IF e = p THEN [dirs[p] EXCEPT !.files = longer] ELSE dirs[e]
    BY <1>3, <1>8
  <2> QED BY <2>1, <2>2 DEF DirectoryType
<1>12. DirIds' = DirIds /\ FileIds' = FileIds \cup {f}
  BY <1>2, <1>3, <1>9, <1>10 DEF DirIds, FileIds
<1>13. files'[f].parent = p /\ files'[f].name = path_split(path).file /\ files'[f].data = data
  BY <1>7, <1>10
<1>14. \A e \in DirIds :
         dirs'[e].files = IF e = p THEN <<f>> \o dirs[p].files ELSE dirs[e].files
  BY <1>4, <1>6, <1>11
<1>15. FileMade(p, f, path_split(path).file, data)
  BY <1>1, <1>3, <1>9, <1>10, <1>11, <1>12, <1>13, <1>14 DEF FileMade
<1> QED BY <1>1, <1>2, <1>15

\* A new file stands in front of its parent's list.
LEMMA FileCreateKeepsTree ==
  ASSUME TreeInv, NEW path \in Paths, NEW data \in Data, file_create(path, data)
  PROVE  TreeInv'
<1>1. PICK p, f, name : FileMade(p, f, name, data)
  BY FileCreateMakes
<1>3. /\ p \in DirIds /\ p \in Nat /\ f \in Nat /\ f >= 1 /\ f \notin FileIds
      /\ FileIds = 1 .. f - 1 /\ dirs \in Seq(DirectoryType)
  BY <1>1 DEF FileMade, DirIds, TreeInv
<1>4. PICK list \in Seq(Nat) : list = dirs[p].files
  <2>1. dirs[p] \in DirectoryType
    BY <1>1, <1>3 DEF DirIds
  <2> QED BY <2>1 DEF DirectoryType
<1>5. f \notin ToSet(list) /\ IsInjective(list)
  BY <1>1, <1>3, <1>4 DEF TreeInv, TreeIsWellFormed
<1>6. PICK longer \in Seq(Nat) :
        longer = <<f>> \o list /\ ToSet(longer) = ToSet(list) \cup {f} /\ IsInjective(longer)
  BY <1>3, <1>5, PrependKeeps
<1>9. dirs' \in Seq(DirectoryType) /\ Len(dirs') = Len(dirs)
  BY <1>1 DEF FileMade
<1>10. /\ files' \in Seq(FileType) /\ Len(files') = f
       /\ \A g \in 1 .. f - 1 : files'[g] = files[g]
  BY <1>1, <1>3 DEF FileMade
<1>11. \A e \in DirIds :
         /\ dirs'[e].parent = dirs[e].parent /\ dirs'[e].directories = dirs[e].directories
         /\ dirs'[e].files = IF e = p THEN longer ELSE dirs[e].files
  BY <1>1, <1>4, <1>6 DEF FileMade
<1>12. DirIds' = DirIds /\ FileIds' = FileIds \cup {f}
  BY <1>1 DEF FileMade
<1>13. files'[f].parent = p /\ files'[f].data = data
  BY <1>1 DEF FileMade
<1>14. TreeIsWellFormed'
  <2>1. ASSUME NEW e \in DirIds'
        PROVE  /\ dirs'[e].parent \in IF e = Root THEN {Unset} ELSE 1 .. e - 1
               /\ ToSet(dirs'[e].directories) = {c \in DirIds' \ {Root} : dirs'[c].parent = e}
               /\ IsInjective(dirs'[e].directories)
    <3>1. e \in DirIds
      BY <1>12
    <3>2. {c \in DirIds' \ {Root} : dirs'[c].parent = e} = {c \in DirIds \ {Root} : dirs[c].parent = e}
      BY <1>11, <1>12
    <3> QED BY <1>11, <3>1, <3>2 DEF TreeInv, TreeIsWellFormed
  <2>2. ASSUME NEW e \in DirIds'
        PROVE  /\ ToSet(dirs'[e].files) = {g \in FileIds' : files'[g].parent = e}
               /\ IsInjective(dirs'[e].files)
    <3>1. e \in DirIds
      BY <1>12
    <3>2. /\ ToSet(dirs[e].files) = {g \in FileIds : files[g].parent = e}
          /\ IsInjective(dirs[e].files)
      BY <3>1 DEF TreeInv, TreeIsWellFormed
    <3>3. {g \in FileIds' : files'[g].parent = e}
            = {g \in FileIds : files[g].parent = e} \cup IF e = p THEN {f} ELSE {}
      BY <1>3, <1>10, <1>12, <1>13
    <3> QED BY <1>4, <1>6, <1>11, <3>1, <3>2, <3>3
  <2>3. ASSUME NEW g \in FileIds' PROVE files'[g].data \in Data /\ files'[g].parent \in DirIds'
    <3>1. CASE g = f
      BY <1>3, <1>12, <1>13, <3>1
    <3>2. CASE g # f
      <4>1. g \in FileIds /\ files'[g] = files[g]
        BY <1>3, <1>10, <1>12, <3>2
      <4> QED BY <1>12, <4>1 DEF TreeInv, TreeIsWellFormed
    <3> QED BY <3>1, <3>2
  <2>4. \A e \in DirIds' :
          /\ dirs'[e].parent \in IF e = Root THEN {Unset} ELSE 1 .. e - 1
          /\ ToSet(dirs'[e].directories) = {c \in DirIds' \ {Root} : dirs'[c].parent = e}
          /\ ToSet(dirs'[e].files) = {g \in FileIds' : files'[g].parent = e}
          /\ IsInjective(dirs'[e].directories) /\ IsInjective(dirs'[e].files)
    BY <2>1, <2>2
  <2> QED BY <2>3, <2>4 DEF TreeIsWellFormed
<1> QED BY <1>9, <1>10, <1>14 DEF TreeInv

\* The root alone is a tree.
LEMMA InitialTree ==
  ASSUME initialize_filesystem
  PROVE  TreeInv
<1>1. dirs = <<[name |-> "/", parent |-> Unset, directories |-> <<>>, files |-> <<>>]>> /\ files = <<>>
  BY DEF initialize_filesystem
<1>2. PICK root \in DirectoryType :
        root = [name |-> "/", parent |-> Unset, directories |-> <<>>, files |-> <<>>]
  <2>1. PICK name \in Names : name = "/"
    BY DEF Names
  <2>2. [name |-> name, parent |-> Unset, directories |-> <<>>, files |-> <<>>] \in DirectoryType
    BY DEF DirectoryType
  <2> QED BY <2>1, <2>2
<1>3. dirs = <<root>>
  BY <1>1, <1>2
<1>4. dirs \in Seq(DirectoryType) /\ Len(dirs) = 1 /\ files \in Seq(FileType)
  BY <1>1, <1>3
<1>5. DirIds = {1} /\ FileIds = {}
  BY <1>1, <1>3 DEF DirIds, FileIds
<1>6. /\ dirs[1].parent = Unset /\ dirs[1].directories = <<>> /\ dirs[1].files = <<>>
  BY <1>2, <1>3
<1>7. ToSet(<<>>) = {} /\ IsInjective(<<>>)
  BY DEF ToSet, IsInjective
<1>8. TreeIsWellFormed
  <2>1. {e \in DirIds \ {Root} : dirs[e].parent = 1} = {} /\ {f \in FileIds : files[f].parent = 1} = {}
    BY <1>5 DEF Root
  <2> QED BY <1>5, <1>6, <1>7, <2>1 DEF TreeIsWellFormed, Root
<1> QED BY <1>4, <1>8 DEF TreeInv

\* No call of the file system spoils the tree.
LEMMA FsStepKeepsTree ==
  ASSUME TreeInv, [FsNext]_fsVars
  PROVE  TreeInv'
<1>1. CASE UNCHANGED <<dirs, files>>
  BY <1>1 DEF TreeInv, TreeIsWellFormed, DirIds, FileIds
<1>2. ASSUME NEW path \in Paths, NEW data \in Data, FsCall(path, data) PROVE TreeInv'
  <2>1. CASE directory_create(path)
    BY <2>1, DirectoryCreateKeepsTree
  <2>2. CASE file_create(path, data)
    BY <2>2, FileCreateKeepsTree
  <2>3. CASE CreateFails(path)
    BY <1>1, <2>3 DEF CreateFails
  <2>4. CASE get_file(path)
    BY <1>1, <2>4 DEF get_file
  <2>5. CASE FsHalts(path)
    BY <1>1, <2>5 DEF FsHalts
  <2> QED BY <1>2, <2>1, <2>2, <2>3, <2>4, <2>5 DEF FsCall
<1> QED BY <1>1, <1>2 DEF FsNext, fsVars

\* The tree of directories and files is well formed whatever is called, in
\* whatever order: a path never leads out of it except to the root's parent,
\* and a creation links what it makes to one list of one parent.
THEOREM TreeStaysWellFormed == FsSpec => []TreeIsWellFormed
<1>1. initialize_filesystem => TreeInv
  BY InitialTree
<1>2. TreeInv /\ [FsNext]_fsVars => TreeInv'
  BY FsStepKeepsTree
<1>3. TreeInv => TreeIsWellFormed
  BY DEF TreeInv
<1> QED BY <1>1, <1>2, <1>3, PTL DEF FsSpec

-----------------------------------------------------------------------------
(* The boot fills the file system through its calls only.                  *)

\* Where the boot is in the modules.
BootPlace ==
  /\ modules \in ModuleLists
  /\ m \in 0 .. Len(modules) /\ i \in Nat
  /\ pc = "ramdisk" => m # 0

\* The entry an archive's reader comes to is one of the archive's.
LEMMA EntryIsListed ==
  ASSUME BootPlace, pc = "ramdisk", TarBlock_read(i) > 0
  PROVE  Entry.path \in Paths /\ DataOfEntry \in Data
<1>1. /\ modules \in Seq(Modules) /\ m \in DOMAIN modules
      /\ \A k \in DOMAIN modules[m].archive : <<m, k>> \in Data
  BY RamdiskAssumption DEF BootPlace
<1>2. archive \in Seq([path : Paths, size : Nat])
  <2>1. modules[m] \in Modules
    BY <1>1
  <2> QED BY <2>1 DEF Modules, archive
<1>3. TarBlock_read(i) = i + 1 /\ i < Len(archive) /\ i \in Nat
  BY DEF TarBlock_read, BootPlace
<1>4. TarBlock_read(i) \in DOMAIN archive
  BY <1>2, <1>3
<1>5. archive[TarBlock_read(i)] \in [path : Paths, size : Nat]
  <2>1. PICK entries \in Seq([path : Paths, size : Nat]) : entries = archive
    BY <1>2
  <2>2. PICK k \in 1 .. Len(entries) : k = TarBlock_read(i)
    BY <1>4, <2>1
  <2>3. entries[k] \in [path : Paths, size : Nat]
    BY <2>2, ElementOfSeq
  <2> QED BY <2>1, <2>2, <2>3
<1> QED BY <1>1, <1>4, <1>5 DEF Entry, DataOfEntry, archive

\* The boot goes on through the modules and the entries.
LEMMA BootPlaceInductive ==
  ASSUME BootPlace, [RamdiskNext]_ramdiskVars
  PROVE  BootPlace'
<1>0. Len(modules) \in Nat
  BY RamdiskAssumption DEF BootPlace
<1>1. CASE StartRamdisk
  BY <1>0, <1>1 DEF StartRamdisk, BootPlace
<1>2. CASE StartUnknown
  BY <1>0, <1>2 DEF StartUnknown, BootPlace
<1>3. CASE modules_initialize_return
  BY <1>3 DEF modules_initialize_return, BootPlace
<1>4. CASE LoadEntry
  BY <1>4 DEF LoadEntry, BootPlace
<1>5. CASE LoadFails
  BY <1>5 DEF LoadFails, BootPlace
<1>6. CASE LoadHalts
  BY <1>6 DEF LoadHalts, BootPlace
<1>7. CASE EndOfStream
  BY <1>7 DEF EndOfStream, BootPlace
<1>8. CASE MainReads
  BY <1>8 DEF MainReads, BootPlace
<1>9. CASE UNCHANGED ramdiskVars
  BY <1>9 DEF ramdiskVars, loaderVars, BootPlace
<1> QED BY <1>1, <1>2, <1>3, <1>4, <1>5, <1>6, <1>7, <1>8, <1>9 DEF RamdiskNext

\* Every step of the boot is a call of the file system, or leaves it alone.
LEMMA BootCallsFileSystem ==
  ASSUME BootPlace, [RamdiskNext]_ramdiskVars
  PROVE  [FsNext]_fsVars
<1>1. ASSUME UNCHANGED fsVars PROVE [FsNext]_fsVars
  BY <1>1
<1>2. PICK any \in Data : TRUE
  BY RamdiskAssumption
<1>3. ASSUME NEW path \in Paths, NEW data \in Data, FsCall(path, data) PROVE FsNext
  BY <1>3 DEF FsNext
<1>4. CASE LoadEntry
  <2>1. Entry.path \in Paths /\ DataOfEntry \in Data
    BY <1>4, EntryIsListed DEF LoadEntry
  <2>2. directory_create(Entry.path) \/ file_create(Entry.path, DataOfEntry)
    BY <1>4 DEF LoadEntry
  <2>3. FsCall(Entry.path, DataOfEntry)
    BY <2>2 DEF FsCall
  <2> QED BY <1>3, <2>1, <2>3
<1>5. CASE LoadFails
  <2>1. Entry.path \in Paths /\ DataOfEntry \in Data
    BY <1>5, EntryIsListed DEF LoadFails
  <2>2. FsCall(Entry.path, DataOfEntry)
    BY <1>5 DEF FsCall, LoadFails
  <2> QED BY <1>3, <2>1, <2>2
<1>6. CASE LoadHalts
  <2>1. Entry.path \in Paths /\ DataOfEntry \in Data
    BY <1>6, EntryIsListed DEF LoadHalts
  <2>2. FsCall(Entry.path, DataOfEntry)
    BY <1>6 DEF FsCall, LoadHalts
  <2> QED BY <1>3, <2>1, <2>2
<1>7. CASE MainReads
  <2>1. FsCall(TestFile, any)
    BY <1>7 DEF MainReads, FsCall
  <2> QED BY <1>2, <1>3, <2>1, RamdiskAssumption
<1>8. CASE StartRamdisk \/ StartUnknown \/ modules_initialize_return \/ EndOfStream
  BY <1>1, <1>8 DEF StartRamdisk, StartUnknown, modules_initialize_return, EndOfStream
<1>9. CASE UNCHANGED ramdiskVars
  BY <1>1, <1>9 DEF ramdiskVars
<1> QED BY <1>4, <1>5, <1>6, <1>7, <1>8, <1>9 DEF RamdiskNext

\* The boot is a caller of the file system like any other: the reader of an
\* archive hands it the path and the data of an entry, never what lies between
\* two headers.
THEOREM BootUsesFileSystem == RamdiskSpec => FsSpec
<1>1. RamdiskInit => initialize_filesystem /\ BootPlace
  <2>1. ASSUME RamdiskInit PROVE BootPlace
    <3>1. Len(modules) \in Nat /\ modules \in ModuleLists
      BY <2>1, RamdiskAssumption DEF RamdiskInit
    <3> QED BY <2>1, <3>1 DEF RamdiskInit, BootPlace
  <2> QED BY <2>1 DEF RamdiskInit
<1>2. BootPlace /\ [RamdiskNext]_ramdiskVars => BootPlace'
  BY BootPlaceInductive
<1>3. BootPlace /\ [RamdiskNext]_ramdiskVars => [FsNext]_fsVars
  BY BootCallsFileSystem
<1> QED BY <1>1, <1>2, <1>3, PTL DEF RamdiskSpec, FsSpec

\* So the tree stays well formed through the boot.
COROLLARY TreeStaysWellFormedAtBoot == RamdiskSpec => []TreeIsWellFormed
  BY BootUsesFileSystem, TreeStaysWellFormed, PTL

-----------------------------------------------------------------------------
(* The places of the tree: what leads to a directory from the root.        *)

\* What a path is split into are names.
LEMMA SplitsIntoNames ==
  ASSUME NEW path \in Paths
  PROVE  /\ path_split(path).file \in NodeNames
         /\ path_split(path).dir \in Seq(NodeNames)
<1>1. path \in Seq(STRING) /\ Len(path) \in Nat
  BY FileSystemAssumption
<1>2. PICK n \in 0 .. Len(path) : n = path_len(path)
  BY <1>1, PathEnds
<1>3. ASSUME NEW k \in Nat PROVE path_read(path, k) \in NodeNames
  <2>1. CASE k < Len(path)
    <3>1. path[k + 1] \in STRING
      BY <1>1, <2>1
    <3> QED BY <2>1, <3>1 DEF path_read, NodeNames
  <2>2. CASE ~ (k < Len(path))
    BY <2>2 DEF path_read, NodeNames
  <2> QED BY <2>1, <2>2
<1>4. path_split(path).file = IF n = 0 THEN Empty ELSE path_read(path, n - 1)
  BY <1>2 DEF path_split
<1>5. PICK l \in Nat : l = IF n = 0 THEN 0 ELSE n - 1
  BY <1>1, <1>2
<1>6. path_split(path).dir = [k \in 1 .. l |-> path_read(path, k - 1)]
  BY <1>2, <1>5 DEF path_split
<1>7. [k \in 1 .. l |-> path_read(path, k - 1)] \in [1 .. l -> NodeNames]
  BY <1>3
<1>8. [k \in 1 .. l |-> path_read(path, k - 1)] \in Seq(NodeNames)
  BY <1>7, SeqDef
<1>9. path_split(path).file \in NodeNames
  <2>1. CASE n = 0
    BY <1>4, <2>1 DEF NodeNames
  <2>2. CASE n # 0
    <3>1. n - 1 \in Nat
      BY <1>1, <2>2
    <3> QED BY <1>3, <1>4, <2>2, <3>1
  <2> QED BY <2>1, <2>2
<1> QED BY <1>6, <1>8, <1>9

\* What the types say of the tree.
TreeFits ==
  /\ Len(dirs) \in Nat \ {0} /\ DirIds = 1 .. Len(dirs)
  /\ Root \in DirIds /\ dirs[Root].parent = Unset
  /\ \A d \in DirIds \ {Root} : dirs[d].parent \in 1 .. d - 1 /\ dirs[d].parent \in DirIds
  /\ \A d \in DirIds : /\ dirs[d].name \in NodeNames
                       /\ dirs[d].directories \in Seq(Nat) /\ dirs[d].files \in Seq(Nat)
  /\ Len(files) \in Nat /\ FileIds = 1 .. Len(files)
  /\ \A f \in FileIds : files[f].name \in NodeNames /\ files[f].parent \in DirIds
  /\ \A d \in DirIds :
       /\ ToSet(dirs[d].directories) = {e \in DirIds \ {Root} : dirs[e].parent = d}
       /\ ToSet(dirs[d].files) = {f \in FileIds : files[f].parent = d}

\* A tree has these types.
LEMMA TreeTypes == TreeInv => TreeFits
<1> SUFFICES ASSUME TreeInv PROVE TreeFits
  OBVIOUS
<1>1. Len(dirs) \in Nat \ {0} /\ DirIds = 1 .. Len(dirs) /\ Root \in DirIds
  BY DEF TreeInv, DirIds, Root
<1>2. Len(files) \in Nat /\ FileIds = 1 .. Len(files)
  BY DEF TreeInv, FileIds
<1>3. Names \subseteq NodeNames
  BY SplitsIntoNames DEF Names, NodeNames
<1>4. ASSUME NEW d \in DirIds
      PROVE  /\ dirs[d].name \in NodeNames
             /\ dirs[d].directories \in Seq(Nat) /\ dirs[d].files \in Seq(Nat)
             /\ dirs[d].parent \in IF d = Root THEN {Unset} ELSE 1 .. d - 1
  <2>1. dirs[d] \in DirectoryType
    BY <1>1 DEF TreeInv
  <2>2. dirs[d].name \in Names /\ dirs[d].directories \in Seq(Nat) /\ dirs[d].files \in Seq(Nat)
    BY <2>1 DEF DirectoryType
  <2>3. dirs[d].parent \in IF d = Root THEN {Unset} ELSE 1 .. d - 1
    BY DEF TreeInv, TreeIsWellFormed
  <2> QED BY <1>3, <2>2, <2>3
<1>5. ASSUME NEW f \in FileIds PROVE files[f].name \in NodeNames /\ files[f].parent \in DirIds
  <2>1. files[f] \in FileType
    BY <1>2 DEF TreeInv
  <2>2. files[f].name \in Names
    BY <2>1 DEF FileType
  <2> QED BY <1>3, <2>2 DEF TreeInv, TreeIsWellFormed
<1>6. \A d \in DirIds :
       /\ ToSet(dirs[d].directories) = {e \in DirIds \ {Root} : dirs[e].parent = d}
       /\ ToSet(dirs[d].files) = {f \in FileIds : files[f].parent = d}
  BY DEF TreeInv, TreeIsWellFormed
<1>7. dirs[Root].parent = Unset
  BY <1>1, <1>4
<1>8. ASSUME NEW d \in DirIds \ {Root} PROVE dirs[d].parent \in 1 .. d - 1 /\ dirs[d].parent \in DirIds
  <2>1. dirs[d].parent \in 1 .. d - 1
    BY <1>4
  <2> QED BY <1>1, <2>1
<1> QED BY <1>1, <1>2, <1>4, <1>5, <1>6, <1>7, <1>8 DEF TreeFits

\* What holds of the root, and of a directory when of its parent, holds of all.
LEMMA TreeInduction ==
  ASSUME TreeFits, NEW S, Root \in S,
         \A d \in DirIds \ {Root} : dirs[d].parent \in S => d \in S
  PROVE  DirIds \subseteq S
<1> DEFINE Bad == {d \in DirIds : d \notin S}
<1> SUFFICES ASSUME Bad # {} PROVE FALSE
  OBVIOUS
<1>1. Bad \in SUBSET Nat
  BY DEF TreeFits
<1>2. PICK least \in Bad : \A x \in Bad : least <= x
  <2>1. Min(Bad) \in Bad /\ \A x \in Bad : Min(Bad) <= x
    <3> HIDE DEF Bad
    <3> QED BY <1>1, MinIsLeast
  <2> QED BY <2>1
<1>3. least \in DirIds \ {Root} /\ least \notin S
  OBVIOUS
<1>4. dirs[least].parent \in 1 .. least - 1 /\ dirs[least].parent \in DirIds
  BY <1>3 DEF TreeFits
<1>5. dirs[least].parent \notin Bad
  BY <1>1, <1>2, <1>4
<1> QED BY <1>3, <1>4, <1>5

\* PlaceOf is what its recursion says.
PlacesFit ==
  /\ PlaceOf \in [DirIds -> Seq(NodeNames)]
  /\ PlaceOf[Root] = <<>>
  /\ \A d \in DirIds \ {Root} : PlaceOf[d] = Append(PlaceOf[dirs[d].parent], dirs[d].name)

\* The recursion over parents comes to a place for every directory.
LEMMA PlacesOfTree == TreeInv => PlacesFit
<1> SUFFICES ASSUME TreeInv PROVE PlacesFit
  OBVIOUS
<1>0. TreeFits
  BY TreeTypes
<1>1. PICK N \in Nat \ {0} : N = Len(dirs) /\ DirIds = 1 .. N
  BY <1>0 DEF TreeFits
<1> DEFINE V == Seq(NodeNames)
           up == [j \in 1 .. N |-> dirs[j].parent]
           G == [p \in (1 .. N) \X V |-> Append(p[2], dirs[p[1]].name)]
           Is(f) == f = [d \in DirIds |-> IF d = Root THEN <<>>
                                          ELSE Append(f[dirs[d].parent], dirs[d].name)]
<1>2. IsUp(up, N)
  BY <1>0, <1>1 DEF TreeFits, Root, IsUp
<1>3. G \in StepFunctions(N, V)
  <2>1. ASSUME NEW p \in (1 .. N) \X V PROVE Append(p[2], dirs[p[1]].name) \in V
    <3>1. p[1] \in DirIds /\ p[2] \in V
      BY <1>1
    <3>2. dirs[p[1]].name \in NodeNames
      BY <1>0, <3>1 DEF TreeFits
    <3> QED BY <3>1, <3>2, AppendProperties
  <2> HIDE DEF V
  <2> QED BY <2>1 DEF StepFunctions
<1>4. PICK g \in [1 .. N -> V] : g[1] = <<>> /\ \A j \in 2 .. N : g[j] = G[<<j, g[up[j]]>>]
  <2>1. PICK first \in V : first = <<>>
    <3>1. <<>> \in V
      OBVIOUS
    <3> QED BY <3>1
  <2> HIDE DEF V, G, up
  <2>2. PICK f : RecursiveUp(f, N, V, first, up, G)
    BY <1>2, <1>3, RecursionOnParents
  <2> QED BY <2>1, <2>2 DEF RecursiveUp
<1>5. ASSUME NEW d \in DirIds \ {Root} PROVE g[d] = Append(g[dirs[d].parent], dirs[d].name)
  <2>1. d \in 2 .. N /\ up[d] = dirs[d].parent
    BY <1>1 DEF Root
  <2>2. up[d] \in 1 .. N
    <3>1. up[d] \in 1 .. d - 1
      BY <1>2, <2>1 DEF IsUp
    <3> HIDE DEF up
    <3> QED BY <2>1, <3>1
  <2>3. PICK v \in V : v = g[up[d]]
    <3> HIDE DEF up, V
    <3> QED BY <1>4, <2>2
  <2>4. G[<<d, v>>] = Append(v, dirs[d].name)
    <3>1. <<d, v>> \in (1 .. N) \X V
      <4> HIDE DEF V
      <4> QED BY <2>1
    <3> QED BY <3>1
  <2> HIDE DEF V, G, up
  <2> QED BY <1>4, <2>1, <2>3, <2>4
<1> HIDE DEF V, G, up
<1>6. Is(g)
  <2>1. g = [d \in DirIds |-> g[d]]
    BY <1>1
  <2>2. \A d \in DirIds : g[d] = IF d = Root THEN <<>> ELSE Append(g[dirs[d].parent], dirs[d].name)
    BY <1>4, <1>5 DEF Root
  <2> QED BY <2>1, <2>2
<1>7. PICK f : f = PlaceOf /\ Is(f)
  <2>1. PlaceOf = CHOOSE f : Is(f)
    BY DEF PlaceOf
  <2> HIDE DEF Is
  <2> QED BY <1>6, <2>1
<1>8. /\ f = [d \in DirIds |-> f[d]] /\ f[Root] = <<>>
      /\ \A d \in DirIds \ {Root} : f[d] = Append(f[dirs[d].parent], dirs[d].name)
  BY <1>0, <1>7 DEF TreeFits
<1> HIDE DEF Is
<1>9. \A d \in DirIds : f[d] \in Seq(NodeNames)
  <2> DEFINE S == {d \in DirIds : f[d] \in Seq(NodeNames)}
  <2>1. Root \in S
    BY <1>0, <1>8 DEF TreeFits
  <2>2. ASSUME NEW d \in DirIds \ {Root}, dirs[d].parent \in S PROVE d \in S
    <3>1. f[dirs[d].parent] \in Seq(NodeNames) /\ dirs[d].name \in NodeNames
      BY <1>0, <2>2 DEF TreeFits
    <3>2. Append(f[dirs[d].parent], dirs[d].name) \in Seq(NodeNames)
      BY <3>1, AppendProperties
    <3> QED BY <1>8, <3>2
  <2> HIDE DEF S
  <2>3. DirIds \subseteq S
    BY <1>0, <2>1, <2>2, TreeInduction
  <2> QED BY <2>3 DEF S
<1> QED BY <1>7, <1>8, <1>9 DEF PlacesFit

\* The first of a list with a name, 0 if none: what a search returns.
Leader(list, items, name) ==
  LET k == FirstNamed(list, items, name) IN IF k = 0 THEN 0 ELSE list[k]

\* Nothing on the list before place k has the name; the item at k has.
LeadsAt(list, items, name, k) ==
  /\ k \in 1 .. Len(list) /\ items[list[k]].name = name
  /\ \A j \in 1 .. k - 1 : items[list[j]].name # name

\* The search over a list finds the first of the name, or there is none.
LEMMA FirstNamedLeads ==
  ASSUME NEW list \in Seq(Nat), NEW items, NEW name
  PROVE  \/ /\ FirstNamed(list, items, name) = 0
            /\ \A j \in 1 .. Len(list) : items[list[j]].name # name
         \/ LeadsAt(list, items, name, FirstNamed(list, items, name))
<1> DEFINE S == {k \in 1 .. Len(list) : items[list[k]].name = name}
<1>1. FirstNamed(list, items, name) = IF S # {} THEN Min(S) ELSE 0
  BY DEF FirstNamed, SelectInSeq
<1>2. S \in SUBSET Nat
  OBVIOUS
<1>3. CASE S = {}
  <2>1. \A j \in 1 .. Len(list) : items[list[j]].name # name
    BY <1>3
  <2> QED BY <1>1, <1>3, <2>1
<1>4. CASE S # {}
  <2>1. PICK k \in S : k = Min(S) /\ \A j \in S : k <= j
    <3> HIDE DEF S
    <3>1. Min(S) \in S /\ \A x \in S : Min(S) <= x
      BY <1>2, <1>4, MinIsLeast
    <3> QED BY <3>1
  <2>2. k \in 1 .. Len(list) /\ items[list[k]].name = name /\ k \in Nat
    OBVIOUS
  <2>3. ASSUME NEW j \in 1 .. k - 1, items[list[j]].name = name PROVE FALSE
    <3>1. j \in 1 .. Len(list) /\ ~(k <= j)
      BY <2>2
    <3>2. j \in S
      BY <2>3, <3>1
    <3> QED BY <2>1, <3>1, <3>2
  <2>4. FirstNamed(list, items, name) = k
    BY <1>1, <1>4, <2>1
  <2> QED BY <2>2, <2>3, <2>4 DEF LeadsAt
<1> QED BY <1>3, <1>4

\* One place leads at most.
LEMMA LeaderAt ==
  ASSUME NEW list \in Seq(Nat), NEW items, NEW name, NEW k, LeadsAt(list, items, name, k)
  PROVE  FirstNamed(list, items, name) = k /\ Leader(list, items, name) = list[k]
<1>1. PICK n : n = FirstNamed(list, items, name)
  OBVIOUS
<1>2. k \in 1 .. Len(list) /\ k # 0 /\ items[list[k]].name = name
  BY DEF LeadsAt
<1>3. LeadsAt(list, items, name, n)
  BY <1>1, <1>2, FirstNamedLeads
<1>4. n = k
  BY <1>3 DEF LeadsAt
<1> QED BY <1>1, <1>2, <1>4 DEF Leader

\* A leader is on its list and has the name; 0 is found when nobody has.
LEMMA LeaderFits ==
  ASSUME NEW list \in Seq(Nat), NEW items, NEW name
  PROVE  \/ /\ FirstNamed(list, items, name) = 0 /\ Leader(list, items, name) = 0
            /\ \A x \in ToSet(list) : items[x].name # name
         \/ /\ FirstNamed(list, items, name) # 0
            /\ Leader(list, items, name) = list[FirstNamed(list, items, name)]
            /\ Leader(list, items, name) \in ToSet(list)
            /\ items[Leader(list, items, name)].name = name
<1>0. DOMAIN list = 1 .. Len(list)
  OBVIOUS
<1>1. PICK n : n = FirstNamed(list, items, name)
  OBVIOUS
<1>2. CASE n = 0 /\ \A j \in 1 .. Len(list) : items[list[j]].name # name
  BY <1>0, <1>1, <1>2 DEF Leader, ToSet
<1>3. CASE LeadsAt(list, items, name, n)
  <2>1. n \in 1 .. Len(list) /\ items[list[n]].name = name
    BY <1>3 DEF LeadsAt
  <2>2. list[n] \in ToSet(list) /\ n # 0
    BY <1>0, <2>1 DEF ToSet
  <2>3. Leader(list, items, name) = list[n]
    BY <1>1, <2>2 DEF Leader
  <2> QED BY <1>1, <2>1, <2>2, <2>3
<1> QED BY <1>1, <1>2, <1>3, FirstNamedLeads

\* The names of a list decide who leads it.
LEMMA LeaderOfSame ==
  ASSUME NEW list \in Seq(Nat), NEW items, NEW others, NEW name,
         \A x \in ToSet(list) : others[x].name = items[x].name
  PROVE  Leader(list, others, name) = Leader(list, items, name)
<1>1. {k \in 1 .. Len(list) : others[list[k]].name = name}
        = {k \in 1 .. Len(list) : items[list[k]].name = name}
  <2>1. \A k \in 1 .. Len(list) : others[list[k]].name = items[list[k]].name
    BY DEF ToSet
  <2> QED BY <2>1
<1>2. FirstNamed(list, others, name) = FirstNamed(list, items, name)
  BY <1>1 DEF FirstNamed, SelectInSeq
<1> QED BY <1>2 DEF Leader

\* What is put in front of a list leads it for its own name and no other.
LEMMA LeaderOfLonger ==
  ASSUME NEW list \in Seq(Nat), NEW x \in Nat, NEW items, NEW others, NEW name,
         \A y \in ToSet(list) : others[y].name = items[y].name
  PROVE  Leader(<<x>> \o list, others, name)
           = IF others[x].name = name THEN x ELSE Leader(list, items, name)
<1>1. PICK new : new = <<x>> \o list
  OBVIOUS
<1>2. /\ new \in Seq(Nat) /\ Len(new) = Len(list) + 1 /\ new[1] = x
      /\ \A k \in 1 .. Len(list) : new[k + 1] = list[k]
  <2>1. <<x>> \in Seq(Nat) /\ Len(<<x>>) = 1 /\ <<x>>[1] = x
    OBVIOUS
  <2>2. /\ new \in Seq(Nat) /\ Len(new) = 1 + Len(list)
        /\ \A k \in 1 .. 1 + Len(list) : new[k] = IF k <= 1 THEN <<x>>[k] ELSE list[k - 1]
    BY <1>1, <2>1, ConcatProperties
  <2>3. ASSUME NEW k \in 1 .. Len(list) PROVE new[k + 1] = list[k]
    <3>1. PICK n \in 1 .. 1 + Len(list) : n = k + 1
      OBVIOUS
    <3>2. new[n] = list[n - 1] /\ n - 1 = k
      BY <2>2, <3>1
    <3> QED BY <3>1, <3>2
  <2> QED BY <2>1, <2>2, <2>3
<1>3. \A k \in 1 .. Len(list) : others[list[k]].name = items[list[k]].name
  BY DEF ToSet
<1>4. CASE others[x].name = name
  <2>1. LeadsAt(new, others, name, 1)
    BY <1>2, <1>4 DEF LeadsAt
  <2>2. Leader(new, others, name) = new[1]
    BY <1>2, <2>1, LeaderAt
  <2> QED BY <1>1, <1>2, <1>4, <2>2
<1>5. CASE others[x].name # name
  <2>1. PICK n : n = FirstNamed(list, items, name)
    OBVIOUS
  <2>2. CASE n = 0 /\ \A j \in 1 .. Len(list) : items[list[j]].name # name
    <3>1. ASSUME NEW k \in 1 .. Len(new) PROVE others[new[k]].name # name
      <4>1. CASE k = 1
        BY <1>2, <1>5, <4>1
      <4>2. CASE k # 1
        <5>1. PICK j \in 1 .. Len(list) : j = k - 1
          BY <1>2, <4>2
        <5>2. new[j + 1] = list[j]
          BY <1>2
        <5>3. j + 1 = k
          BY <5>1
        <5> QED BY <1>3, <2>2, <5>2, <5>3
      <4> QED BY <4>1, <4>2
    <3>2. ~ LeadsAt(new, others, name, FirstNamed(new, others, name))
      BY <3>1 DEF LeadsAt
    <3>3. FirstNamed(new, others, name) = 0
      BY <1>2, <3>2, FirstNamedLeads
    <3> QED BY <1>1, <1>5, <2>1, <2>2, <3>3 DEF Leader
  <2>3. CASE LeadsAt(list, items, name, n)
    <3>1. n \in 1 .. Len(list) /\ items[list[n]].name = name
          /\ \A j \in 1 .. n - 1 : items[list[j]].name # name
      BY <2>3 DEF LeadsAt
    <3>0. new[n + 1] = list[n]
      BY <1>2, <3>1
    <3>2. others[new[n + 1]].name = name /\ n + 1 \in 1 .. Len(new) /\ new[n + 1] = list[n]
      <4>1. n + 1 \in 1 .. Len(new)
        BY <1>2, <3>1
      <4> QED BY <1>3, <3>0, <3>1, <4>1
    <3>3. ASSUME NEW k \in 1 .. (n + 1) - 1 PROVE others[new[k]].name # name
      <4>1. CASE k = 1
        BY <1>2, <1>5, <4>1
      <4>2. CASE k # 1
        <5>1. PICK j \in 1 .. n - 1 : j = k - 1
          BY <3>1, <4>2
        <5>2. j \in 1 .. Len(list) /\ j + 1 = k
          BY <3>1, <5>1
        <5>3. new[j + 1] = list[j]
          BY <1>2, <5>2
        <5> QED BY <1>3, <3>1, <5>1, <5>2, <5>3
      <4> QED BY <4>1, <4>2
    <3>4. LeadsAt(new, others, name, n + 1)
      BY <3>2, <3>3 DEF LeadsAt
    <3>5. Leader(new, others, name) = new[n + 1]
      BY <1>2, <3>4, LeaderAt
    <3>6. Leader(list, items, name) = list[n]
      BY <2>3, LeaderAt
    <3> QED BY <1>1, <1>5, <3>2, <3>5, <3>6
  <2> QED BY <2>1, <2>2, <2>3, FirstNamedLeads
<1> QED BY <1>4, <1>5

\* A directory leads the list of its parent.
Leads(d) == Leader(dirs[dirs[d].parent].directories, dirs, dirs[d].name) = d

\* Visible is what its recursion says.
VisibleFits ==
  /\ Visible \subseteq DirIds /\ Root \in Visible
  /\ \A d \in DirIds \ {Root} : d \in Visible <=> dirs[d].parent \in Visible /\ Leads(d)

\* A directory has a place on the list of its parent, so that the search for
\* its name finds one.
LEMMA FoundForName ==
  ASSUME TreeInv, NEW d \in DirIds \ {Root}
  PROVE  LET list == dirs[dirs[d].parent].directories
         IN  Leads(d) <=> list[FirstNamed(list, dirs, dirs[d].name)] = d
<1>1. PICK list \in Seq(Nat) : list = dirs[dirs[d].parent].directories /\ d \in ToSet(list)
  BY TreeTypes DEF TreeFits
<1>2. FirstNamed(list, dirs, dirs[d].name) # 0
  BY <1>1, LeaderFits
<1>3. Leader(list, dirs, dirs[d].name) = list[FirstNamed(list, dirs, dirs[d].name)]
  BY <1>2 DEF Leader
<1> QED BY <1>1, <1>3 DEF Leads

\* The recursion over parents tells for every directory whether it is hidden.
LEMMA VisibleOfTree == TreeInv => VisibleFits
<1> SUFFICES ASSUME TreeInv PROVE VisibleFits
  OBVIOUS
<1>0. TreeFits
  BY TreeTypes
<1>1. PICK N \in Nat \ {0} : N = Len(dirs) /\ DirIds = 1 .. N
  BY <1>0 DEF TreeFits
<1> DEFINE Found(d) == LET list == dirs[dirs[d].parent].directories
                       IN  list[FirstNamed(list, dirs, dirs[d].name)] = d
           up == [j \in 1 .. N |-> dirs[j].parent]
           G == [p \in (1 .. N) \X BOOLEAN |-> p[2] /\ Found(p[1])]
           Is(f) == f = [d \in DirIds |-> d = Root \/ LET list == dirs[dirs[d].parent].directories
                            IN  /\ f[dirs[d].parent]
                                /\ list[FirstNamed(list, dirs, dirs[d].name)] = d]
<1>2. IsUp(up, N)
  BY <1>0, <1>1 DEF TreeFits, Root, IsUp
<1>3. G \in StepFunctions(N, BOOLEAN)
  <2>1. \A p \in (1 .. N) \X BOOLEAN : (p[2] /\ Found(p[1])) \in BOOLEAN
    OBVIOUS
  <2> HIDE DEF Found
  <2> QED BY <2>1 DEF StepFunctions
<1>4. PICK g \in [1 .. N -> BOOLEAN] : g[1] = TRUE /\ \A j \in 2 .. N : g[j] = G[<<j, g[up[j]]>>]
  <2> HIDE DEF G, up
  <2>1. PICK f : RecursiveUp(f, N, BOOLEAN, TRUE, up, G)
    BY <1>2, <1>3, RecursionOnParents
  <2> QED BY <2>1 DEF RecursiveUp
<1>5. ASSUME NEW d \in DirIds \ {Root} PROVE g[d] = (g[dirs[d].parent] /\ Found(d))
  <2>1. d \in 2 .. N /\ up[d] = dirs[d].parent
    BY <1>1 DEF Root
  <2>2. up[d] \in 1 .. N
    <3>1. up[d] \in 1 .. d - 1
      BY <1>2, <2>1 DEF IsUp
    <3> HIDE DEF up
    <3> QED BY <2>1, <3>1
  <2>3. PICK v \in BOOLEAN : v = g[up[d]]
    <3>1. g \in [1 .. N -> BOOLEAN]
      BY <1>4
    <3> HIDE DEF up, G
    <3> QED BY <2>2, <3>1
  <2>4. G[<<d, v>>] = (v /\ Found(d))
    <3>1. <<d, v>> \in (1 .. N) \X BOOLEAN
      BY <2>1
    <3> HIDE DEF Found
    <3> QED BY <3>1
  <2> HIDE DEF G, up, Found
  <2> QED BY <1>4, <2>1, <2>3, <2>4
<1> HIDE DEF G, up
<1>6. Is(g)
  <2>1. g = [d \in DirIds |-> g[d]]
    BY <1>1
  <2>2. \A d \in DirIds : g[d] = (d = Root \/ (g[dirs[d].parent] /\ Found(d)))
    <3> HIDE DEF Found
    <3> QED BY <1>1, <1>4, <1>5 DEF Root
  <2> QED BY <2>1, <2>2
<1>7. PICK f : Visible = {d \in DirIds : f[d]} /\ Is(f)
  <2>1. Visible = {d \in DirIds : (CHOOSE f : Is(f))[d]}
    BY DEF Visible
  <2> HIDE DEF Is
  <2> QED BY <1>6, <2>1
<1>8. \A d \in DirIds : f[d] = (d = Root \/ (f[dirs[d].parent] /\ Found(d)))
  BY <1>7
<1> HIDE DEF Is
<1>9. ASSUME NEW d \in DirIds \ {Root}
      PROVE  d \in Visible <=> dirs[d].parent \in Visible /\ Leads(d)
  <2>1. dirs[d].parent \in DirIds
    BY <1>0 DEF TreeFits
  <2>2. Found(d) <=> Leads(d)
    BY FoundForName
  <2>3. f[d] = (f[dirs[d].parent] /\ Found(d))
    <3> HIDE DEF Found
    <3> QED BY <1>8
  <2> HIDE DEF Found
  <2> QED BY <1>7, <2>1, <2>2, <2>3
<1>10. Root \in Visible
  <2>1. Root \in DirIds /\ f[Root]
    <3> HIDE DEF Found
    <3> QED BY <1>0, <1>8 DEF TreeFits
  <2> QED BY <1>7, <2>1
<1> QED BY <1>7, <1>9, <1>10 DEF VisibleFits

\* No two directories that can be reached have the same place.
LEMMA PlacesDiffer ==
  ASSUME TreeInv, NEW d \in Visible, NEW e \in Visible, PlaceOf[d] = PlaceOf[e]
  PROVE  d = e
<1>0. TreeFits /\ PlacesFit /\ VisibleFits
  BY TreeTypes, PlacesOfTree, VisibleOfTree
<1>1. ASSUME NEW x \in DirIds \ {Root}
      PROVE  /\ PlaceOf[x] = Append(PlaceOf[dirs[x].parent], dirs[x].name)
             /\ PlaceOf[x] # <<>> /\ dirs[x].parent \in DirIds
             /\ PlaceOf[dirs[x].parent] \in Seq(NodeNames) /\ dirs[x].name \in NodeNames
  <2>1. /\ dirs[x].parent \in DirIds /\ dirs[x].name \in NodeNames
        /\ PlaceOf[x] = Append(PlaceOf[dirs[x].parent], dirs[x].name)
    BY <1>0 DEF TreeFits, PlacesFit
  <2>2. PlaceOf[dirs[x].parent] \in Seq(NodeNames)
    BY <1>0, <2>1 DEF PlacesFit
  <2> QED BY <2>1, <2>2, AppendProperties
<1> DEFINE S == {x \in DirIds : \A y \in Visible : x \in Visible /\ PlaceOf[x] = PlaceOf[y] => x = y}
<1>2. Root \in S
  <2>1. PlaceOf[Root] = <<>> /\ Root \in DirIds /\ Visible \subseteq DirIds
    BY <1>0 DEF PlacesFit, TreeFits, VisibleFits
  <2> QED BY <1>1, <2>1
<1>3. ASSUME NEW x \in DirIds \ {Root}, dirs[x].parent \in S PROVE x \in S
  <2>1. ASSUME NEW y \in Visible, x \in Visible, PlaceOf[x] = PlaceOf[y] PROVE x = y
    <3>1. y \in DirIds \ {Root}
      <4>1. PlaceOf[Root] = <<>> /\ Visible \subseteq DirIds
        BY <1>0 DEF PlacesFit, VisibleFits
      <4> QED BY <1>1, <2>1, <4>1
    <3>2. PlaceOf[dirs[x].parent] = PlaceOf[dirs[y].parent] /\ dirs[x].name = dirs[y].name
      <4>1. PICK a \in Seq(NodeNames), b \in Seq(NodeNames), u \in NodeNames, v \in NodeNames :
              a = PlaceOf[dirs[x].parent] /\ b = PlaceOf[dirs[y].parent]
              /\ u = dirs[x].name /\ v = dirs[y].name
        BY <1>1, <3>1
      <4>2. Append(a, u) = Append(b, v)
        BY <1>1, <2>1, <3>1, <4>1
      <4>3. a = b /\ u = v
        BY <4>2, AppendInjective
      <4> QED BY <4>1, <4>3
    <3>3. /\ dirs[x].parent \in Visible /\ Leads(x)
          /\ dirs[y].parent \in Visible /\ Leads(y)
      BY <1>0, <2>1, <3>1 DEF VisibleFits
    <3>4. dirs[x].parent = dirs[y].parent
      BY <1>3, <3>2, <3>3
    <3> QED BY <3>2, <3>3, <3>4 DEF Leads
  <2> QED BY <2>1
<1> HIDE DEF S
<1>4. DirIds \subseteq S
  BY <1>0, <1>2, <1>3, TreeInduction
<1>5. d \in S
  BY <1>0, <1>4 DEF VisibleFits
<1> QED BY <1>5 DEF S

\* What stands for no directory is none, and no place.
LEMMA ErrorsAreNoPlaces ==
  /\ Missing # Unset
  /\ Missing \notin Nat /\ Unset \notin Nat
  /\ Missing \notin Seq(NodeNames) /\ Unset \notin Seq(NodeNames)
BY FileSystemAssumption

\* Where a directory that can be reached comes next to one of a name: the
\* leader of its list, if that has the name, and no directory if not.
LEMMA ChildAt ==
  ASSUME TreeInv, NEW p \in Visible, NEW name \in NodeNames, NEW c,
         c = Leader(dirs[p].directories, dirs, name)
  PROVE  \/ c = 0 /\ Append(PlaceOf[p], name) \notin Directories
         \/ c \in Visible /\ c \in Nat \ {0} /\ PlaceOf[c] = Append(PlaceOf[p], name)
<1>0. TreeFits /\ PlacesFit /\ VisibleFits
  BY TreeTypes, PlacesOfTree, VisibleOfTree
<1>1. p \in DirIds /\ PlaceOf[p] \in Seq(NodeNames)
  BY <1>0 DEF VisibleFits, PlacesFit
<1>2. PICK list \in Seq(Nat) :
        list = dirs[p].directories /\ ToSet(list) = {e \in DirIds \ {Root} : dirs[e].parent = p}
  BY <1>0, <1>1 DEF TreeFits
<1>3. CASE c = 0 /\ \A x \in ToSet(list) : dirs[x].name # name
  <2>1. ASSUME NEW e \in Visible, PlaceOf[e] = Append(PlaceOf[p], name) PROVE FALSE
    <3>1. Append(PlaceOf[p], name) # <<>>
      BY <1>1, AppendProperties
    <3>2. e \in DirIds \ {Root}
      BY <1>0, <2>1, <3>1 DEF PlacesFit, VisibleFits
    <3>3. /\ dirs[e].parent \in Visible /\ dirs[e].parent \in DirIds /\ dirs[e].name \in NodeNames
          /\ PlaceOf[e] = Append(PlaceOf[dirs[e].parent], dirs[e].name)
      BY <1>0, <2>1, <3>2 DEF VisibleFits, PlacesFit, TreeFits
    <3>4. PICK a \in Seq(NodeNames), u \in NodeNames, b \in Seq(NodeNames) :
            a = PlaceOf[dirs[e].parent] /\ u = dirs[e].name /\ b = PlaceOf[p]
      BY <1>0, <1>1, <3>3 DEF PlacesFit
    <3>5. Append(a, u) = Append(b, name)
      BY <2>1, <3>3, <3>4
    <3>6. a = b /\ u = name
      BY <3>5, AppendInjective
    <3>7. dirs[e].parent = p
      BY <3>3, <3>4, <3>6, PlacesDiffer
    <3> QED BY <1>2, <1>3, <3>2, <3>4, <3>6, <3>7
  <2> QED BY <1>3, <2>1 DEF Directories
<1>4. CASE c \in ToSet(list) /\ dirs[c].name = name
  <2>1. c \in DirIds \ {Root} /\ dirs[c].parent = p
    BY <1>2, <1>4
  <2>2. Leads(c)
    BY <1>4, <2>1 DEF Leads
  <2>3. c \in Visible
    BY <1>0, <2>1, <2>2 DEF VisibleFits
  <2>4. PlaceOf[c] = Append(PlaceOf[p], name)
    BY <1>0, <1>4, <2>1 DEF PlacesFit
  <2> QED BY <1>0, <2>1, <2>3, <2>4 DEF TreeFits
<1> QED BY <1>2, <1>3, <1>4, LeaderFits

\* All but the last of a sequence with one element more are the sequence.
LEMMA FrontOfAppend ==
  ASSUME NEW S, NEW s \in Seq(S), NEW x \in S
  PROVE  Front(Append(s, x)) = s /\ Last(Append(s, x)) = x
<1>1. PICK t \in Seq(S) : /\ t = Append(s, x) /\ Len(t) = Len(s) + 1
                         /\ \A k \in 1 .. Len(s) : t[k] = s[k]
                         /\ t[Len(s) + 1] = x
  BY AppendProperties
<1>2. PICK n \in Nat : n = Len(s)
  OBVIOUS
<1>3. \A k \in 1 .. n : t[k] \in S
  BY <1>1, <1>2
<1>4. /\ SubSeq(t, 1, n) \in Seq(S) /\ Len(SubSeq(t, 1, n)) = n
      /\ \A k \in 1 .. n : SubSeq(t, 1, n)[k] = t[k]
  <2>1. /\ SubSeq(t, 1, n) \in Seq(S)
        /\ Len(SubSeq(t, 1, n)) = IF 1 <= n THEN n - 1 + 1 ELSE 0
        /\ \A k \in 1 .. n - 1 + 1 : SubSeq(t, 1, n)[k] = t[1 + k - 1]
    BY <1>3, SubSeqProperties
  <2> QED BY <2>1
<1>5. SubSeq(t, 1, n) = s
  <2>1. PICK u \in Seq(S) : u = SubSeq(t, 1, n)
    BY <1>4
  <2> QED BY <1>1, <1>2, <1>4, <2>1, SeqEqual
<1>6. Front(t) = SubSeq(t, 1, n) /\ Last(t) = t[n + 1]
  BY <1>1, <1>2 DEF Front, Last
<1> QED BY <1>1, <1>2, <1>5, <1>6

\* Nodes are counted from one.
LEMMA ListedAreNotZero ==
  ASSUME TreeFits, NEW d \in DirIds, NEW name,
         Leader(dirs[d].directories, dirs, name) = 0
  PROVE  FirstNamed(dirs[d].directories, dirs, name) = 0
<1>1. PICK list \in Seq(Nat) : list = dirs[d].directories /\ ToSet(list) \subseteq DirIds
  BY DEF TreeFits
<1>2. 0 \notin DirIds
  BY DEF TreeFits
<1> QED BY <1>1, <1>2, LeaderFits

\* Where a search may have come to, and the place it stands for.
Spots == Visible \cup {Missing, Unset}
Spot(x) == IF x \in {Missing, Unset} THEN x ELSE PlaceOf[x]
Places == Seq(NodeNames) \cup {Missing, Unset}

\* An error is told from a place, as it is from a directory.
LEMMA SpotsFit ==
  ASSUME TreeInv
  PROVE  /\ Missing \notin Visible /\ Unset \notin Visible
         /\ \A x \in Visible : Spot(x) = PlaceOf[x] /\ PlaceOf[x] \in Seq(NodeNames)
         /\ \A x \in Visible : Spot(x) \notin {Missing, Unset}
         /\ \A x \in Spots : Spot(x) \in Places
<1>1. TreeFits /\ PlacesFit /\ VisibleFits
  BY TreeTypes, PlacesOfTree, VisibleOfTree
<1>2. \A x \in Visible : x \in DirIds /\ x \in Nat
  BY <1>1 DEF VisibleFits, TreeFits
<1>3. \A x \in Visible : PlaceOf[x] \in Seq(NodeNames)
  BY <1>1, <1>2 DEF PlacesFit
<1>4. Missing \notin Visible /\ Unset \notin Visible
  BY <1>2, ErrorsAreNoPlaces
<1>5. \A x \in Visible : Spot(x) = PlaceOf[x]
  BY <1>4 DEF Spot
<1> QED BY <1>3, <1>4, <1>5, ErrorsAreNoPlaces DEF Spot, Spots, Places

\* A component leads on in the tree as it does in the store.
LEMMA EnterGoes ==
  ASSUME TreeInv, NEW x \in Spots, NEW name \in NodeNames
  PROVE  Enter(x, name) \in Spots /\ Spot(Enter(x, name)) = Store!Go(Spot(x), name)
<1>1. CASE x \in {Missing, Unset}
  <2>1. Enter(x, name) = x /\ Spot(x) = x
    BY <1>1 DEF Enter, Spot
  <2>2. Store!Go(x, name) = x
    BY <1>1 DEF Store!Go
  <2> QED BY <2>1, <2>2
<1>2. CASE x \in Visible
  <2>0. TreeFits /\ PlacesFit /\ VisibleFits
    BY TreeTypes, PlacesOfTree, VisibleOfTree
  <2>1. x \notin {Missing, Unset} /\ PlaceOf[x] \notin {Missing, Unset} /\ Spot(x) = PlaceOf[x]
        /\ PlaceOf[x] \in Seq(NodeNames)
    BY <1>2, SpotsFit
  <2>2. CASE name = ".."
    <3>1. Enter(x, name) = dirs[x].parent
      BY <2>1, <2>2 DEF Enter
    <3>2. CASE x = Root
      <4>1. dirs[x].parent = Unset /\ PlaceOf[x] = <<>>
        BY <2>0, <3>2 DEF TreeFits, PlacesFit
      <4>2. Store!Go(PlaceOf[x], name) = Unset
        BY <2>1, <2>2, <4>1 DEF Store!Go
      <4> QED BY <2>1, <3>1, <4>1, <4>2 DEF Spot, Spots
    <3>3. CASE x # Root
      <4>1. x \in DirIds \ {Root}
        BY <1>2, <2>0, <3>3 DEF VisibleFits
      <4>2. /\ dirs[x].parent \in Visible /\ dirs[x].name \in NodeNames
            /\ PlaceOf[x] = Append(PlaceOf[dirs[x].parent], dirs[x].name)
        BY <1>2, <2>0, <4>1 DEF VisibleFits, PlacesFit, TreeFits
      <4>3. PICK a \in Seq(NodeNames), u \in NodeNames :
              a = PlaceOf[dirs[x].parent] /\ u = dirs[x].name
        BY <4>2, SpotsFit
      <4>40. PICK b : b = Append(a, u)
        OBVIOUS
      <4>4. b # <<>> /\ PlaceOf[x] = b
        BY <4>2, <4>3, <4>40, AppendProperties
      <4>5. Front(b) = a
        BY <4>40, FrontOfAppend
      <4>6. Store!Go(b, name) = Front(b)
        <5>1. b \notin {Missing, Unset}
          BY <2>1, <4>4
        <5>2. Store!Go(b, name) = Store!Front(b)
          BY <2>2, <4>4, <5>1 DEF Store!Go
        <5> QED BY <5>2 DEF Store!Front, Front
      <4> QED BY <2>1, <3>1, <4>2, <4>3, <4>4, <4>5, <4>6, SpotsFit DEF Spots
    <3> QED BY <3>2, <3>3
  <2>3. CASE name = "."
    <3>1. Enter(x, name) = x
      BY <2>1, <2>3 DEF Enter
    <3>2. Store!Go(PlaceOf[x], name) = PlaceOf[x]
      BY <2>1, <2>3 DEF Store!Go
    <3> QED BY <2>1, <3>1, <3>2
  <2>4. CASE name \notin {".", ".."}
    <3>1. PICK list \in Seq(Nat) : list = dirs[x].directories
      BY <1>2, <2>0 DEF TreeFits, VisibleFits
    <3>2. PICK c : c = Leader(list, dirs, name)
      OBVIOUS
    <3>3. \/ c = 0 /\ Append(PlaceOf[x], name) \notin Directories
          \/ c \in Visible /\ c \in Nat \ {0} /\ PlaceOf[c] = Append(PlaceOf[x], name)
      BY <1>2, <3>1, <3>2, ChildAt
    <3>4. PICK k : k = FirstNamed(list, dirs, name)
      OBVIOUS
    <3>5. c = IF k = 0 THEN 0 ELSE list[k]
      BY <3>2, <3>4 DEF Leader
    <3>6. Enter(x, name) = IF k = 0 THEN Missing ELSE list[k]
      BY <2>1, <2>4, <3>1, <3>4 DEF Enter
    <3>7. c = 0 => k = 0
      <4>1. x \in DirIds
        BY <1>2, <2>0 DEF VisibleFits
      <4> QED BY <2>0, <3>1, <3>2, <3>4, <4>1, ListedAreNotZero
    <3>8. Store!Go(PlaceOf[x], name)
            = IF Append(PlaceOf[x], name) \in Directories THEN Append(PlaceOf[x], name) ELSE Missing
      BY <2>1, <2>4 DEF Store!Go
    <3>9. CASE c = 0
      BY <2>1, <3>3, <3>6, <3>7, <3>8, <3>9 DEF Spot, Spots
    <3>10. CASE c # 0
      <4>1. c \in Visible /\ PlaceOf[c] = Append(PlaceOf[x], name) /\ Enter(x, name) = c
        BY <3>3, <3>5, <3>6, <3>10
      <4>2. Append(PlaceOf[x], name) \in Directories
        BY <4>1 DEF Directories
      <4> QED BY <2>1, <3>8, <4>1, <4>2, SpotsFit DEF Spots
    <3> QED BY <3>9, <3>10
  <2> QED BY <2>2, <2>3, <2>4
<1> QED BY <1>1, <1>2 DEF Spots

\* A path is cut where its names are read, and the last of them is set apart.
LEMMA SplitsAsUsed ==
  ASSUME NEW path \in Paths
  PROVE  /\ Front(Store!Used(path)) = path_split(path).dir
         /\ (IF Store!Used(path) = <<>> THEN "" ELSE Last(Store!Used(path))) = path_split(path).file
<1>1. path \in Seq(STRING) /\ Len(path) \in Nat
  BY FileSystemAssumption
<1>2. PICK n \in 0 .. Len(path) :
        /\ n = path_len(path) /\ path_read(path, n) = Empty
        /\ \A k \in 0 .. n - 1 : path_read(path, k) # Empty
  BY <1>1, PathEnds
<1>3. \A k \in 0 .. Len(path) - 1 : path_read(path, k) = path[k + 1]
  BY <1>1 DEF path_read
<1>4. \A k \in 1 .. n : path[k] # Empty
  <2>1. ASSUME NEW k \in 1 .. n PROVE path[k] # Empty
    <3>1. PICK j \in 0 .. n - 1 : j = k - 1 /\ j + 1 = k
      BY <1>2
    <3>2. path_read(path, j) # Empty /\ path_read(path, j) = path[j + 1]
      BY <1>2, <1>3, <3>1
    <3> QED BY <3>1, <3>2
  <2> QED BY <2>1
<1>5. n < Len(path) => path[n + 1] = Empty
  <2>1. ASSUME n < Len(path) PROVE path[n + 1] = Empty
    <3>1. n \in 0 .. Len(path) - 1
      BY <1>1, <2>1
    <3>2. path_read(path, n) = path[n + 1]
      BY <1>3, <3>1
    <3> QED BY <1>2, <3>2
  <2> QED BY <2>1
<1> DEFINE I == {c \in 1 .. Len(path) : path[c] = Empty}
           end == IF I # {} THEN Min(I) ELSE 0
<1>6. Store!Used(path) = IF end = 0 THEN path ELSE SubSeq(path, 1, end - 1)
  BY DEF Store!Used, Store!SelectInSeq, Store!Min, Min, Empty
<1>7. PICK used \in Seq(STRING) :
        /\ used = Store!Used(path) /\ Len(used) = n
        /\ \A k \in 1 .. n : used[k] = path[k]
  <2>1. CASE n = Len(path)
    <3>1. I = {}
      BY <1>4, <2>1
    <3> QED BY <1>1, <1>6, <2>1, <3>1
  <2>2. CASE n < Len(path)
    <3>1. n + 1 \in I /\ I \in SUBSET Nat
      <4>1. PICK l \in Nat : l = Len(path)
        BY <1>1
      <4>2. path[n + 1] = Empty
        BY <1>5, <2>2
      <4>3. n + 1 \in 1 .. l
        BY <1>2, <2>2, <4>1
      <4>4. I \in SUBSET Nat
        BY <4>1
      <4> QED BY <4>1, <4>2, <4>3, <4>4
    <3>2. \A k \in I : n + 1 <= k
      <4>1. ASSUME NEW k \in I, k <= n PROVE FALSE
        <5>1. k \in 1 .. Len(path) /\ path[k] = Empty
          BY <4>1
        <5>2. k \in 1 .. n
          BY <1>1, <1>2, <4>1, <5>1
        <5> QED BY <1>4, <5>1, <5>2
      <4>2. \A k \in I : k \in Nat
        BY <3>1
      <4> HIDE DEF I
      <4> QED BY <1>1, <1>2, <4>1, <4>2
    <3>3. Min(I) = n + 1
      <4>1. Min(I) \in I /\ \A x \in I : Min(I) <= x
        <5> HIDE DEF I
        <5> QED BY <3>1, MinIsLeast
      <4>2. PICK k \in Nat : k = Min(I)
        BY <3>1, <4>1
      <4> HIDE DEF I
      <4> QED BY <1>2, <3>1, <3>2, <4>1, <4>2
    <3>4. end = n + 1
      <4> HIDE DEF I
      <4> QED BY <3>1, <3>3
    <3>5. PICK used : used = SubSeq(path, 1, n)
      OBVIOUS
    <3>6. used \in Seq(STRING) /\ Len(used) = n /\ \A k \in 1 .. n : used[k] = path[k]
      <4>1. \A k \in 1 .. n : path[k] \in STRING
        BY <1>1, <1>2
      <4>2. /\ used \in Seq(STRING)
            /\ Len(used) = IF 1 <= n THEN n - 1 + 1 ELSE 0
            /\ \A k \in 1 .. n - 1 + 1 : used[k] = path[1 + k - 1]
        BY <1>2, <3>5, <4>1, SubSeqProperties
      <4> QED BY <1>2, <4>2
    <3>7. Store!Used(path) = used
      <4> HIDE DEF I, end
      <4>1. end # 0 /\ end - 1 = n
        BY <1>2, <3>4
      <4> QED BY <1>6, <3>5, <4>1
    <3> QED BY <3>6, <3>7
  <2> QED BY <1>1, <1>2, <2>1, <2>2
<1> HIDE DEF I, end
<1>8. PICK l \in Nat : l = IF n = 0 THEN 0 ELSE n - 1
  BY <1>2
<1>9. path_split(path).dir = [k \in 1 .. l |-> path_read(path, k - 1)]
  BY <1>2, <1>8 DEF path_split
<1>10. ASSUME NEW k \in 1 .. n PROVE used[k] = path_read(path, k - 1)
  <2>1. PICK j \in 0 .. Len(path) - 1 : j = k - 1 /\ j + 1 = k
    BY <1>1, <1>2
  <2>2. path_read(path, j) = path[j + 1]
    BY <1>3
  <2> QED BY <1>7, <2>1, <2>2
<1>11. Front(used) = path_split(path).dir
  <2>1. \A k \in 1 .. n - 1 : used[k] \in STRING
    BY <1>2, <1>7
  <2>2. PICK front : front = SubSeq(used, 1, n - 1)
    OBVIOUS
  <2>3. /\ front \in Seq(STRING)
        /\ Len(front) = IF 1 <= n - 1 THEN n - 1 - 1 + 1 ELSE 0
        /\ \A k \in 1 .. n - 1 - 1 + 1 : front[k] = used[1 + k - 1]
    BY <1>2, <2>1, <2>2, SubSeqProperties
  <2>4. Len(front) = l /\ \A k \in 1 .. l : front[k] = used[k]
    BY <1>2, <1>8, <2>3
  <2>5. ASSUME NEW k \in 1 .. l PROVE front[k] = path_read(path, k - 1)
    <3>1. k \in 1 .. n
      BY <1>2, <1>8
    <3> QED BY <1>10, <2>4, <3>1
  <2>6. front = [k \in 1 .. l |-> front[k]]
    BY <2>3, <2>4
  <2>7. front = path_split(path).dir
    BY <1>9, <2>5, <2>6
  <2> QED BY <1>7, <2>2, <2>7 DEF Front
<1>12. (IF used = <<>> THEN "" ELSE Last(used)) = path_split(path).file
  <2>1. path_split(path).file = IF n = 0 THEN Empty ELSE path_read(path, n - 1)
    BY <1>2 DEF path_split
  <2>2. CASE n = 0
    <3>1. used = <<>>
      BY <1>7, <2>2
    <3> QED BY <2>1, <2>2, <3>1 DEF Empty
  <2>3. CASE n # 0
    <3>1. n \in 1 .. n /\ used # <<>>
      BY <1>2, <1>7, <2>3
    <3>2. Last(used) = path_read(path, n - 1)
      BY <1>7, <1>10, <3>1 DEF Last
    <3> QED BY <2>1, <2>3, <3>1, <3>2
  <2> QED BY <2>2, <2>3
<1> QED BY <1>7, <1>11, <1>12

\* A name leads from a place, or an error, to one.
LEMMA GoStays ==
  ASSUME NEW p \in Places, NEW name \in NodeNames
  PROVE  Store!Go(p, name) \in Places
<1>1. CASE p \in {Missing, Unset}
  BY <1>1 DEF Store!Go, Places
<1>2. CASE p \in Seq(NodeNames) /\ p \notin {Missing, Unset}
  <2>1. Append(p, name) \in Seq(NodeNames)
    BY <1>2, AppendProperties
  <2>2. p # <<>> => Front(p) \in Seq(NodeNames)
    <3>1. ASSUME p # <<>> PROVE Front(p) \in Seq(NodeNames)
      <4>1. PICK s \in Seq(NodeNames), e \in NodeNames : p = Append(s, e)
        BY <1>2, <3>1, SequenceEmptyOrAppend
      <4> QED BY <4>1, FrontOfAppend
    <3> QED BY <3>1
  <2>3. Store!Go(p, name) \in {p, Unset, Missing, Append(p, name)} \cup (IF p = <<>> THEN {} ELSE {Front(p)})
    BY <1>2 DEF Store!Go, Store!Front, Front
  <2> QED BY <1>2, <2>1, <2>2, <2>3 DEF Places
<1> QED BY <1>1, <1>2 DEF Places

\* The places a sequence of names leads through in the store.
Led(f, names) ==
  /\ f[0] = <<>>
  /\ \A j \in 1 .. Len(names) : f[j] = Store!Go(f[j - 1], names[j])

\* The names of a path lead from place to place.
LEMMA NamesLead ==
  ASSUME NEW path, NEW names \in Seq(NodeNames), names = Front(Store!Used(path))
  PROVE  \E f : Led(f, names) /\ Store!Parent(path) = f[Len(names)]
<1>1. PICK N \in Nat : N = Len(names)
  OBVIOUS
<1> DEFINE G == [p \in (1 .. N) \X Places |-> Store!Go(p[2], names[p[1]])]
           Is(f) == f = [j \in 0 .. N |->
                           IF j = 0 THEN <<>> ELSE Store!Go(f[j - 1], names[j])]
<1>2. <<>> \in Places
  BY DEF Places
<1>3. G \in StepFunctions(N, Places)
  <2>1. ASSUME NEW p \in (1 .. N) \X Places PROVE Store!Go(p[2], names[p[1]]) \in Places
    <3>1. p[2] \in Places /\ names[p[1]] \in NodeNames
      BY <1>1
    <3> QED BY <3>1, GoStays
  <2> QED BY <2>1 DEF StepFunctions
<1>4. PICK g : Recursive(g, N, Places, <<>>, G)
  <2>1. PICK first \in Places : first = <<>>
    BY <1>2
  <2> HIDE DEF G
  <2>2. \E g : Recursive(g, N, Places, first, G)
    BY <1>3, RecursionUpTo
  <2> QED BY <2>1, <2>2
<1>5. g \in [0 .. N -> Places] /\ g[0] = <<>>
      /\ \A j \in 1 .. N : g[j] = Store!Go(g[j - 1], names[j])
  <2>1. ASSUME NEW j \in 1 .. N PROVE g[j] = Store!Go(g[j - 1], names[j])
    <3>1. g[j] = G[<<j, g[j - 1]>>] /\ g[j - 1] \in Places
      <4> HIDE DEF G, Is
      <4> QED BY <1>4 DEF Recursive
    <3> QED BY <3>1
  <2> QED BY <1>4, <2>1 DEF Recursive
<1>6. Is(g)
  <2>1. ASSUME NEW j \in 0 .. N
        PROVE  g[j] = IF j = 0 THEN <<>> ELSE Store!Go(g[j - 1], names[j])
    BY <1>5
  <2> QED BY <1>5, <2>1
<1>7. PICK f : Is(f) /\ Store!Parent(path) = f[N]
  <2>0. Store!Front(Store!Used(path)) = names
    BY DEF Store!Front, Front
  <2>1. Store!Parent(path) = (CHOOSE f : Is(f))[N]
    BY <1>1, <2>0 DEF Store!Parent
  <2> HIDE DEF Is
  <2> QED BY <1>6, <2>1
<1>8. f[0] = <<>> /\ \A j \in 1 .. N : f[j] = Store!Go(f[j - 1], names[j])
  BY <1>7
<1> HIDE DEF Is, G
<1> QED BY <1>1, <1>7, <1>8 DEF Led

\* The directory a path leads to, all but its last name, is where the store
\* has it, and can be reached; or both know of none.
LEMMA PathLeads ==
  ASSUME TreeInv, NEW path \in Paths
  PROVE  Parent(path) \in Spots /\ Store!Parent(path) = Spot(Parent(path))
<1>1. PICK names \in Seq(NodeNames) : names = path_split(path).dir /\ names = Front(Store!Used(path))
  BY SplitsIntoNames, SplitsAsUsed
<1>2. PICK N \in Nat : N = Len(names)
  OBVIOUS
<1>3. PICK f : /\ f[0] = Root /\ Parent(path) = f[N]
               /\ \A j \in 1 .. N : f[j] = Enter(f[j - 1], names[j])
  BY <1>1, <1>2, ComponentsAreEntered DEF Entered, Parent
<1>4. PICK g : /\ g[0] = <<>> /\ Store!Parent(path) = g[N]
               /\ \A j \in 1 .. N : g[j] = Store!Go(g[j - 1], names[j])
  BY <1>1, <1>2, NamesLead DEF Led
<1> DEFINE S == {j \in 0 .. N : f[j] \in Spots /\ g[j] = Spot(f[j])}
<1>5. 0 \in S
  <2>1. VisibleFits /\ PlacesFit
    BY PlacesOfTree, VisibleOfTree
  <2>2. Root \in Visible /\ PlaceOf[Root] = <<>>
    BY <2>1 DEF VisibleFits, PlacesFit
  <2>3. Spot(Root) = <<>>
    BY <2>2, SpotsFit
  <2> QED BY <1>3, <1>4, <2>2, <2>3 DEF Spots
<1>6. ASSUME NEW j \in 1 .. N, j - 1 \in S PROVE j \in S
  <2>1. names[j] \in NodeNames /\ f[j - 1] \in Spots /\ g[j - 1] = Spot(f[j - 1])
    BY <1>2, <1>6
  <2>2. /\ Enter(f[j - 1], names[j]) \in Spots
        /\ Spot(Enter(f[j - 1], names[j])) = Store!Go(Spot(f[j - 1]), names[j])
    BY <2>1, EnterGoes
  <2> QED BY <1>3, <1>4, <2>1, <2>2
<1>7. N \in S
  <2> HIDE DEF S
  <2>1. 0 .. N \subseteq S
    BY <1>5, <1>6, InductionUpTo
  <2> QED BY <2>1
<1> QED BY <1>3, <1>4, <1>7

-----------------------------------------------------------------------------
(* What is found at a place, and what a creation changes of it.            *)

\* A file leads the list of its directory.
LEMMA VisibleFilesAre ==
  VisibleFiles = {f \in FileIds : files[f].parent \in Visible
                                  /\ Leader(dirs[files[f].parent].files, files, files[f].name) = f}
BY DEF VisibleFiles, FileIn, Leader

\* The place of a file that is found.
LEMMA FilePlaces ==
  ASSUME TreeInv, NEW f \in VisibleFiles
  PROVE  /\ f \in FileIds /\ files[f].parent \in Visible /\ files[f].name \in NodeNames
         /\ PlaceOf[files[f].parent] \in Seq(NodeNames)
         /\ PlaceOfFile(f) = Append(PlaceOf[files[f].parent], files[f].name)
         /\ Leader(dirs[files[f].parent].files, files, files[f].name) = f
<1>1. f \in FileIds /\ files[f].parent \in Visible
      /\ Leader(dirs[files[f].parent].files, files, files[f].name) = f
  BY VisibleFilesAre
<1>2. files[f].name \in NodeNames
  BY <1>1, TreeTypes DEF TreeFits
<1> QED BY <1>1, <1>2, SpotsFit DEF PlaceOfFile

\* No two files that are found have the same place.
LEMMA FilesDiffer ==
  ASSUME TreeInv, NEW f \in VisibleFiles, NEW g \in VisibleFiles, PlaceOfFile(f) = PlaceOfFile(g)
  PROVE  f = g
<1>1. PICK a \in Seq(NodeNames), u \in NodeNames, b \in Seq(NodeNames), v \in NodeNames :
        /\ a = PlaceOf[files[f].parent] /\ u = files[f].name
        /\ b = PlaceOf[files[g].parent] /\ v = files[g].name
  BY FilePlaces
<1>2. Append(a, u) = Append(b, v)
  BY <1>1, FilePlaces
<1>3. a = b /\ u = v
  BY <1>2, AppendInjective
<1>4. files[f].parent = files[g].parent
  BY <1>1, <1>3, FilePlaces, PlacesDiffer
<1> QED BY <1>1, <1>3, <1>4, FilePlaces

\* Contents maps each place where a file is found to what it holds.
ContentsFit ==
  /\ Contents = [r \in DOMAIN Contents |-> Contents[r]]
  /\ DOMAIN Contents = {PlaceOfFile(f) : f \in VisibleFiles}
  /\ \A f \in VisibleFiles : Contents[PlaceOfFile(f)] = files[f].data

\* No two files of a tree are found at one place.
LEMMA ContentsOfTree == TreeInv => ContentsFit
<1> SUFFICES ASSUME TreeInv PROVE ContentsFit
  OBVIOUS
<1>1. Contents = [r \in {PlaceOfFile(f) : f \in VisibleFiles} |->
                    files[CHOOSE f \in VisibleFiles : PlaceOfFile(f) = r].data]
  BY DEF Contents
<1>2. ASSUME NEW f \in VisibleFiles PROVE Contents[PlaceOfFile(f)] = files[f].data
  <2>1. PICK g : g = CHOOSE h \in VisibleFiles : PlaceOfFile(h) = PlaceOfFile(f)
    OBVIOUS
  <2>2. g \in VisibleFiles /\ PlaceOfFile(g) = PlaceOfFile(f)
    BY <2>1
  <2>3. g = f
    BY <2>2, FilesDiffer
  <2>4. PlaceOfFile(f) \in {PlaceOfFile(h) : h \in VisibleFiles}
    OBVIOUS
  <2> QED BY <1>1, <2>1, <2>3, <2>4
<1> QED BY <1>1, <1>2 DEF ContentsFit

\* The file of a name in a directory that can be reached is what the store
\* holds at its place.
LEMMA FileAt ==
  ASSUME TreeInv, NEW p \in Visible, NEW name \in NodeNames, NEW f,
         f = Leader(dirs[p].files, files, name)
  PROVE  \/ f = 0 /\ Append(PlaceOf[p], name) \notin DOMAIN Contents
         \/ /\ f # 0 /\ f \in VisibleFiles /\ PlaceOfFile(f) = Append(PlaceOf[p], name)
            /\ Append(PlaceOf[p], name) \in DOMAIN Contents
            /\ Contents[Append(PlaceOf[p], name)] = files[f].data
<1>0. TreeFits /\ PlacesFit /\ VisibleFits /\ ContentsFit
  BY TreeTypes, PlacesOfTree, VisibleOfTree, ContentsOfTree
<1>1. p \in DirIds /\ PlaceOf[p] \in Seq(NodeNames)
  BY <1>0 DEF VisibleFits, PlacesFit
<1>2. PICK list \in Seq(Nat) :
        list = dirs[p].files /\ ToSet(list) = {g \in FileIds : files[g].parent = p}
  BY <1>0, <1>1 DEF TreeFits
<1>3. CASE f = 0 /\ \A x \in ToSet(list) : files[x].name # name
  <2>1. ASSUME NEW g \in VisibleFiles, PlaceOfFile(g) = Append(PlaceOf[p], name) PROVE FALSE
    <3>1. PICK a \in Seq(NodeNames), u \in NodeNames, b \in Seq(NodeNames) :
            a = PlaceOf[files[g].parent] /\ u = files[g].name /\ b = PlaceOf[p]
      BY <1>1, FilePlaces
    <3>2. Append(a, u) = Append(b, name)
      BY <2>1, <3>1, FilePlaces
    <3>3. a = b /\ u = name
      BY <3>2, AppendInjective
    <3>4. files[g].parent = p /\ g \in FileIds
      BY <3>1, <3>3, FilePlaces, PlacesDiffer
    <3> QED BY <1>2, <1>3, <3>1, <3>3, <3>4
  <2> QED BY <1>0, <1>3, <2>1 DEF ContentsFit
<1>4. CASE f \in ToSet(list) /\ files[f].name = name
  <2>1. f \in FileIds /\ files[f].parent = p /\ f # 0
    BY <1>0, <1>2, <1>4 DEF TreeFits
  <2>2. f \in VisibleFiles
    BY <1>2, <1>4, <2>1, VisibleFilesAre
  <2>3. PlaceOfFile(f) = Append(PlaceOf[p], name)
    BY <1>4, <2>1, <2>2, FilePlaces
  <2> QED BY <1>0, <2>1, <2>2, <2>3 DEF ContentsFit
<1> QED BY <1>2, <1>3, <1>4, LeaderFits

\* Place r is q or lies under it.
Under(q, r) == Len(q) <= Len(r) /\ \A k \in 1 .. Len(q) : r[k] = q[k]

\* The store's own word for it.
LEMMA StrictlyUnder ==
  ASSUME NEW q \in Seq(NodeNames), NEW r \in Seq(NodeNames)
  PROVE  Store!IsStrictPrefix(q, r) <=> Under(q, r) /\ q # r
<1>1. PICK n \in Nat : n = Len(q)
  OBVIOUS
<1>2. Store!IsPrefix(q, r) <=> n <= Len(r) /\ SubSeq(q, 1, n) = SubSeq(r, 1, n)
  BY <1>1 DEF Store!IsPrefix
<1>3. ASSUME n <= Len(r)
      PROVE  SubSeq(q, 1, n) = SubSeq(r, 1, n) <=> \A k \in 1 .. n : r[k] = q[k]
  <2>1. PICK a, b : a = SubSeq(q, 1, n) /\ b = SubSeq(r, 1, n)
    OBVIOUS
  <2>2. a \in Seq(NodeNames) /\ Len(a) = n /\ \A k \in 1 .. n : a[k] = q[k]
    <3>1. \A k \in 1 .. n : q[k] \in NodeNames
      BY <1>1
    <3>2. /\ a \in Seq(NodeNames) /\ Len(a) = IF 1 <= n THEN n - 1 + 1 ELSE 0
          /\ \A k \in 1 .. n - 1 + 1 : a[k] = q[1 + k - 1]
      BY <2>1, <3>1, SubSeqProperties
    <3> QED BY <3>2
  <2>3. b \in Seq(NodeNames) /\ Len(b) = n /\ \A k \in 1 .. n : b[k] = r[k]
    <3>1. \A k \in 1 .. n : r[k] \in NodeNames
      BY <1>3
    <3>2. /\ b \in Seq(NodeNames) /\ Len(b) = IF 1 <= n THEN n - 1 + 1 ELSE 0
          /\ \A k \in 1 .. n - 1 + 1 : b[k] = r[1 + k - 1]
      BY <2>1, <3>1, SubSeqProperties
    <3> QED BY <3>2
  <2>4. a = b <=> \A k \in 1 .. n : r[k] = q[k]
    <3>1. ASSUME \A k \in 1 .. n : r[k] = q[k] PROVE a = b
      <4>1. \A k \in 1 .. Len(a) : a[k] = b[k]
        BY <2>2, <2>3, <3>1
      <4> QED BY <2>2, <2>3, <4>1, SeqEqual
    <3>2. ASSUME a = b PROVE \A k \in 1 .. n : r[k] = q[k]
      BY <2>2, <2>3, <3>2
    <3> QED BY <3>1, <3>2
  <2> QED BY <2>1, <2>4
<1> QED BY <1>1, <1>2, <1>3 DEF Store!IsStrictPrefix, Under

\* What lies under q is q, or what it stands in lies under q.
LEMMA UnderChild ==
  ASSUME NEW q \in Seq(NodeNames), NEW t \in Seq(NodeNames), NEW y \in NodeNames
  PROVE  /\ Under(q, Append(t, y)) <=> Under(q, t) \/ q = Append(t, y)
         /\ Under(q, t) => q # Append(t, y)
<1>1. PICK n \in Nat, l \in Nat : n = Len(q) /\ l = Len(t)
  OBVIOUS
<1>2. PICK r : r = Append(t, y)
  OBVIOUS
<1>3. /\ r \in Seq(NodeNames) /\ Len(r) = l + 1 /\ r[l + 1] = y
      /\ \A k \in 1 .. l : r[k] = t[k]
  BY <1>1, <1>2, AppendProperties
<1>4. ASSUME n <= l PROVE Under(q, r) <=> Under(q, t)
  <2>1. \A k \in 1 .. n : r[k] = t[k]
    BY <1>3, <1>4
  <2> QED BY <1>1, <1>3, <1>4, <2>1 DEF Under
<1>5. ASSUME n > l PROVE Under(q, r) <=> q = r
  <2>1. ASSUME Under(q, r) PROVE q = r
    <3>1. Len(q) = Len(r) /\ \A k \in 1 .. Len(q) : q[k] = r[k]
      BY <1>1, <1>3, <1>5, <2>1 DEF Under
    <3> QED BY <1>3, <3>1, SeqEqual
  <2>2. ASSUME q = r PROVE Under(q, r)
    BY <1>1, <2>2 DEF Under
  <2> QED BY <2>1, <2>2
<1>6. n > l => ~ Under(q, t)
  BY <1>1 DEF Under
<1>7. n <= l => q # r
  BY <1>1, <1>3
<1> QED BY <1>1, <1>2, <1>4, <1>5, <1>6, <1>7

\* Nothing that stands for a child lies over its parent, nor over the root.
LEMMA ParentIsNotUnder ==
  ASSUME NEW t \in Seq(NodeNames), NEW y \in NodeNames
  PROVE  ~ Under(Append(t, y), t) /\ ~ Under(Append(t, y), <<>>)
<1>1. PICK l \in Nat : l = Len(t)
  OBVIOUS
<1>2. Len(Append(t, y)) = l + 1
  BY <1>1, AppendProperties
<1>3. Len(<<>>) = 0
  OBVIOUS
<1> QED BY <1>1, <1>2, <1>3 DEF Under

\* The directories there were keep their parents and names.
TreeGrows ==
  /\ DirIds \subseteq DirIds'
  /\ \A e \in DirIds : dirs'[e].parent = dirs[e].parent /\ dirs'[e].name = dirs[e].name

\* A directory that stays, with its name and parent, stays at its place.
LEMMA PlacesStay ==
  ASSUME TreeInv, TreeInv', TreeGrows
  PROVE  \A e \in DirIds : PlaceOf'[e] = PlaceOf[e]
<1>1. TreeFits /\ PlacesFit
  BY TreeTypes, PlacesOfTree
<1>2. PlacesFit'
  BY PlacesOfTree, PTL
<1> DEFINE S == {e \in DirIds : PlaceOf'[e] = PlaceOf[e]}
<1>3. Root \in S
  BY <1>1, <1>2 DEF TreeFits, PlacesFit, Root
<1>4. ASSUME NEW e \in DirIds \ {Root}, dirs[e].parent \in S PROVE e \in S
  <2>1. PlaceOf[e] = Append(PlaceOf[dirs[e].parent], dirs[e].name)
    BY <1>1 DEF PlacesFit
  <2>2. e \in DirIds' \ {Root}
    BY DEF TreeGrows
  <2>3. PlaceOf'[e] = Append(PlaceOf'[dirs'[e].parent], dirs'[e].name)
    BY <1>2, <2>2 DEF PlacesFit, Root
  <2> QED BY <1>4, <2>1, <2>3 DEF TreeGrows
<1> HIDE DEF S
<1>5. DirIds \subseteq S
  BY <1>1, <1>3, <1>4, TreeInduction
<1> QED BY <1>5 DEF S

\* The child of a directory that can be reached has the place q when it is
\* the directory's and has the name.
LEMMA ChildrenDiffer ==
  ASSUME TreeInv, NEW p \in Visible, NEW name \in NodeNames,
         NEW c \in Visible, NEW other \in NodeNames
  PROVE  Append(PlaceOf[p], name) = Append(PlaceOf[c], other) <=> c = p /\ other = name
<1>1. PICK a \in Seq(NodeNames), b \in Seq(NodeNames) : a = PlaceOf[p] /\ b = PlaceOf[c]
  BY SpotsFit
<1>2. ASSUME Append(a, name) = Append(b, other) PROVE c = p /\ other = name
  <2>1. a = b /\ name = other
    BY <1>2, AppendInjective
  <2> QED BY <1>1, <2>1, PlacesDiffer
<1> QED BY <1>1, <1>2

\* A directory stays the first of its name unless the new one takes its place.
LEMMA DirectoryLeads ==
  ASSUME TreeInv, TreeInv', NEW p, NEW d, NEW name, DirectoryMade(p, d, name)
  PROVE  /\ Leads(d)'
         /\ \A e \in DirIds \ {Root} :
              Leads(e)' <=> Leads(e) /\ ~ (dirs[e].parent = p /\ dirs[e].name = name)
<1>0. TreeFits
  BY TreeTypes
<1>1. /\ d \in Nat /\ d \notin DirIds /\ p \in DirIds
      /\ dirs'[d].parent = p /\ dirs'[d].name = name
      /\ \A e \in DirIds :
           /\ dirs'[e].parent = dirs[e].parent /\ dirs'[e].name = dirs[e].name
           /\ dirs'[e].directories = IF e = p THEN <<d>> \o dirs[p].directories
                                     ELSE dirs[e].directories
  BY DEF DirectoryMade
<1>2. ASSUME NEW e \in DirIds, NEW n
      PROVE  Leader(dirs'[e].directories, dirs', n)
               = IF e = p /\ name = n THEN d ELSE Leader(dirs[e].directories, dirs, n)
  <2>1. PICK list \in Seq(Nat) : list = dirs[e].directories /\ ToSet(list) \subseteq DirIds
    BY <1>0 DEF TreeFits
  <2>2. PICK others : others = dirs'
    OBVIOUS
  <2>3. \A x \in ToSet(list) : others[x].name = dirs[x].name
    BY <1>1, <2>1, <2>2
  <2>4. CASE e = p
    <3>1. Leader(<<d>> \o list, others, n) = IF others[d].name = n THEN d ELSE Leader(list, dirs, n)
      BY <1>1, <2>3, LeaderOfLonger
    <3> QED BY <1>1, <2>1, <2>2, <2>4, <3>1
  <2>5. CASE e # p
    <3>1. Leader(list, others, n) = Leader(list, dirs, n)
      BY <2>3, LeaderOfSame
    <3> QED BY <1>1, <2>1, <2>2, <2>5, <3>1
  <2> QED BY <2>4, <2>5
<1>3. Leads(d)'
  BY <1>1, <1>2 DEF Leads
<1>4. ASSUME NEW e \in DirIds \ {Root}
      PROVE  Leads(e)' <=> Leads(e) /\ ~ (dirs[e].parent = p /\ dirs[e].name = name)
  <2>1. PICK u \in DirIds : u = dirs[e].parent
    BY <1>0 DEF TreeFits
  <2>2. Leads(e)' <=> Leader(dirs'[u].directories, dirs', dirs[e].name) = e
    BY <1>1, <2>1 DEF Leads
  <2>3. Leader(dirs'[u].directories, dirs', dirs[e].name)
          = IF u = p /\ name = dirs[e].name THEN d
            ELSE Leader(dirs[u].directories, dirs, dirs[e].name)
    BY <1>2
  <2>4. Leads(e) <=> Leader(dirs[u].directories, dirs, dirs[e].name) = e
    BY <2>1 DEF Leads
  <2> QED BY <1>1, <2>1, <2>2, <2>3, <2>4
<1> QED BY <1>3, <1>4

\* What lies at the place q of a new directory d, or under it, can no longer
\* be reached; all else can.
Hides(q, d) ==
  /\ PlaceOf'[d] = q
  /\ Visible' = {e \in Visible : ~ Under(q, PlaceOf[e])} \cup {d}
  /\ \A e \in DirIds : PlaceOf'[e] = PlaceOf[e]

\* That is what a new directory does.
LEMMA DirectoryHides ==
  ASSUME TreeInv, TreeInv', NEW p \in Visible, NEW d, NEW name \in NodeNames,
         DirectoryMade(p, d, name), NEW q, q = Append(PlaceOf[p], name)
  PROVE  Hides(q, d)
<1>0. TreeFits /\ PlacesFit /\ VisibleFits
  BY TreeTypes, PlacesOfTree, VisibleOfTree
<1>1. VisibleFits' /\ PlacesFit'
  BY VisibleOfTree, PlacesOfTree, PTL
<1>2. /\ d \in Nat /\ d >= 2 /\ d \notin DirIds /\ p \in DirIds /\ DirIds' = DirIds \cup {d}
      /\ dirs'[d].parent = p /\ dirs'[d].name = name
      /\ \A e \in DirIds : dirs'[e].parent = dirs[e].parent /\ dirs'[e].name = dirs[e].name
  BY DEF DirectoryMade
<1>3. \A e \in DirIds : PlaceOf'[e] = PlaceOf[e]
  BY <1>2, PlacesStay DEF TreeGrows
<1>4. PlaceOf[p] \in Seq(NodeNames) /\ q \in Seq(NodeNames)
  BY SpotsFit, AppendProperties
<1>5. PlaceOf'[d] = q
  <2>1. d \in DirIds' \ {Root}
    BY <1>2 DEF Root
  <2> QED BY <1>1, <1>2, <1>3, <2>1 DEF PlacesFit
<1>6. ~ Under(q, PlaceOf[p]) /\ ~ Under(q, <<>>)
  BY <1>4, ParentIsNotUnder
<1> DEFINE S == {e \in DirIds : e \in Visible' <=> e \in Visible /\ ~ Under(q, PlaceOf[e])}
<1>7. Root \in S
  <2>1. Root \in Visible /\ PlaceOf[Root] = <<>> /\ Root \in DirIds
    BY <1>0 DEF VisibleFits, PlacesFit, TreeFits
  <2>2. Root \in Visible'
    BY <1>1 DEF VisibleFits, Root
  <2> QED BY <1>6, <2>1, <2>2
<1>8. ASSUME NEW e \in DirIds \ {Root}, dirs[e].parent \in S PROVE e \in S
  <2>1. PICK u \in DirIds : u = dirs[e].parent /\ PlaceOf[e] = Append(PlaceOf[u], dirs[e].name)
    BY <1>0 DEF TreeFits, PlacesFit
  <2>2. PlaceOf[u] \in Seq(NodeNames) /\ dirs[e].name \in NodeNames
    BY <1>0 DEF PlacesFit, TreeFits
  <2>3. u \in Visible' <=> u \in Visible /\ ~ Under(q, PlaceOf[u])
    BY <1>8, <2>1
  <2>4. e \in Visible' <=> u \in Visible' /\ Leads(e)'
    <3>1. e \in DirIds' \ {Root}
      BY <1>2
    <3>2. e \in Visible' <=> dirs'[e].parent \in Visible' /\ Leads(e)'
      BY <1>1, <3>1 DEF VisibleFits, Root
    <3> QED BY <1>2, <2>1, <3>2
  <2>5. e \in Visible <=> u \in Visible /\ Leads(e)
    BY <1>0, <2>1 DEF VisibleFits
  <2>6. Leads(e)' <=> Leads(e) /\ ~ (u = p /\ dirs[e].name = name)
    BY <2>1, DirectoryLeads
  <2>7. Under(q, PlaceOf[e]) <=> Under(q, PlaceOf[u]) \/ q = PlaceOf[e]
    <3>1. PICK t \in Seq(NodeNames), y \in NodeNames : t = PlaceOf[u] /\ y = dirs[e].name
      BY <2>2
    <3>2. Under(q, Append(t, y)) <=> Under(q, t) \/ q = Append(t, y)
      BY <1>4, UnderChild
    <3> QED BY <2>1, <3>1, <3>2
  <2>8. u \in Visible => (q = PlaceOf[e] <=> u = p /\ dirs[e].name = name)
    <3>1. ASSUME u \in Visible PROVE q = PlaceOf[e] <=> u = p /\ dirs[e].name = name
      <4>1. Append(PlaceOf[p], name) = Append(PlaceOf[u], dirs[e].name)
              <=> u = p /\ dirs[e].name = name
        BY <2>2, <3>1, ChildrenDiffer
      <4> QED BY <2>1, <4>1
    <3> QED BY <3>1
  <2> QED BY <2>3, <2>4, <2>5, <2>6, <2>7, <2>8
<1>9. DirIds \subseteq S
  <2> HIDE DEF S
  <2> QED BY <1>0, <1>7, <1>8, TreeInduction
<1>10. d \in Visible'
  <2>1. d \in DirIds' \ {Root} /\ p \in Visible'
    BY <1>2, <1>6, <1>9 DEF Root
  <2>2. Leads(d)'
    BY DirectoryLeads
  <2> QED BY <1>1, <1>2, <2>1, <2>2 DEF VisibleFits, Root
<1>11. Visible' = {e \in Visible : ~ Under(q, PlaceOf[e])} \cup {d}
  <2>1. Visible' \subseteq DirIds \cup {d} /\ Visible \subseteq DirIds
    BY <1>0, <1>1, <1>2 DEF VisibleFits
  <2> QED BY <1>9, <1>10, <2>1
<1> QED BY <1>3, <1>5, <1>11 DEF Hides

\* What the store makes of a new directory, at q.
DirectoryStored(q) ==
  /\ Directories' = {r \in Directories : ~ Store!IsStrictPrefix(q, r)} \cup {q}
  /\ Contents' = [r \in {s \in DOMAIN Contents : ~ Store!IsStrictPrefix(q, s)} |-> Contents[r]]

\* A directory that is made takes the place of what it hides.
LEMMA DirectoryMadeIsStored ==
  ASSUME TreeInv, TreeInv', NEW p \in Visible, NEW d, NEW name \in NodeNames,
         DirectoryMade(p, d, name)
  PROVE  DirectoryStored(Append(PlaceOf[p], name))
<1>0. TreeFits /\ PlacesFit /\ VisibleFits /\ ContentsFit
  BY TreeTypes, PlacesOfTree, VisibleOfTree, ContentsOfTree
<1>1. ContentsFit' /\ VisibleFits'
  BY ContentsOfTree, VisibleOfTree, PTL
<1>2. PICK q : q = Append(PlaceOf[p], name)
  OBVIOUS
<1>3. q \in Seq(NodeNames)
  BY <1>2, SpotsFit, AppendProperties
<1>4. /\ PlaceOf'[d] = q
      /\ Visible' = {e \in Visible : ~ Under(q, PlaceOf[e])} \cup {d}
      /\ \A e \in DirIds : PlaceOf'[e] = PlaceOf[e]
  <2>1. Hides(q, d)
    BY <1>2, DirectoryHides
  <2> QED BY <2>1 DEF Hides
<1>5. \A e \in Visible : e \in DirIds /\ PlaceOf[e] \in Seq(NodeNames)
                        /\ PlaceOf'[e] = PlaceOf[e]
  BY <1>0, <1>4, SpotsFit DEF VisibleFits
<1>6. \A e \in Visible : Store!IsStrictPrefix(q, PlaceOf[e]) <=> Under(q, PlaceOf[e]) /\ q # PlaceOf[e]
  BY <1>3, <1>5, StrictlyUnder
<1>7. Directories' = {r \in Directories : ~ Store!IsStrictPrefix(q, r)} \cup {q}
  <2>1. Directories = {PlaceOf[e] : e \in Visible} /\ Directories' = {PlaceOf'[e] : e \in Visible'}
    BY DEF Directories
  <2>2. ASSUME NEW r \in Directories' PROVE r \in {s \in Directories : ~ Store!IsStrictPrefix(q, s)} \cup {q}
    <3>1. PICK e \in Visible' : r = PlaceOf'[e]
      BY <2>1
    <3>2. CASE e = d
      BY <1>4, <3>1, <3>2
    <3>3. CASE e # d
      <4>1. e \in Visible /\ ~ Under(q, PlaceOf[e]) /\ r = PlaceOf[e]
        BY <1>4, <1>5, <3>1, <3>3
      <4> QED BY <1>6, <2>1, <4>1
    <3> QED BY <3>2, <3>3
  <2>3. ASSUME NEW r \in Directories, ~ Store!IsStrictPrefix(q, r) PROVE r \in Directories' \cup {q}
    <3>1. PICK e \in Visible : r = PlaceOf[e]
      BY <2>1
    <3>2. CASE q # r
      <4>1. e \in Visible' /\ PlaceOf'[e] = r
        BY <1>4, <1>5, <1>6, <2>3, <3>1, <3>2
      <4> QED BY <2>1, <4>1
    <3> QED BY <3>2
  <2>4. q \in Directories'
    BY <1>4, <2>1
  <2> QED BY <2>2, <2>3, <2>4
<1>8. /\ files' = files /\ FileIds' = FileIds
      /\ \A e \in DirIds : dirs'[e].files = dirs[e].files /\ e # d
  BY DEF DirectoryMade
<1>9. VisibleFiles' = {f \in VisibleFiles : ~ Under(q, PlaceOf[files[f].parent])}
  <2>1. ASSUME NEW f \in FileIds
        PROVE  f \in VisibleFiles' <=> f \in VisibleFiles /\ ~ Under(q, PlaceOf[files[f].parent])
    <3>1. PICK u \in DirIds : u = files[f].parent
      BY <1>0 DEF TreeFits
    <3>2. f \in VisibleFiles <=> u \in Visible /\ Leader(dirs[u].files, files, files[f].name) = f
      BY <3>1, VisibleFilesAre
    <3>3. f \in VisibleFiles' <=> u \in Visible' /\ Leader(dirs[u].files, files, files[f].name) = f
      <4>1. VisibleFiles' = {g \in FileIds' : files'[g].parent \in Visible'
                 /\ Leader(dirs'[files'[g].parent].files, files', files'[g].name) = g}
        BY DEF VisibleFiles, FileIn, Leader
      <4> QED BY <1>8, <3>1, <4>1
    <3>4. u \in Visible' <=> u \in Visible /\ ~ Under(q, PlaceOf[u])
      BY <1>4, <1>8
    <3> QED BY <3>1, <3>2, <3>3, <3>4
  <2>2. VisibleFiles \subseteq FileIds /\ VisibleFiles' \subseteq FileIds
    BY <1>8 DEF VisibleFiles
  <2> QED BY <2>1, <2>2
<1>10. ASSUME NEW f \in VisibleFiles
       PROVE  /\ PlaceOfFile(f)' = PlaceOfFile(f)
              /\ f \in VisibleFiles' <=> ~ Store!IsStrictPrefix(q, PlaceOfFile(f))
  <2>1. PICK t \in Seq(NodeNames), y \in NodeNames :
          t = PlaceOf[files[f].parent] /\ y = files[f].name /\ PlaceOfFile(f) = Append(t, y)
    BY FilePlaces
  <2>2. PICK r \in Seq(NodeNames) : r = Append(t, y)
    BY AppendProperties
  <2>3. Store!IsStrictPrefix(q, r) <=> Under(q, r) /\ q # r
    BY <1>3, StrictlyUnder
  <2>4. (Under(q, r) <=> Under(q, t) \/ q = r) /\ (Under(q, t) => q # r)
    <3>1. (Under(q, Append(t, y)) <=> Under(q, t) \/ q = Append(t, y)) /\ (Under(q, t) => q # Append(t, y))
      BY <1>3, UnderChild
    <3> QED BY <2>2, <3>1
  <2>5. f \in VisibleFiles' <=> ~ Under(q, t)
    BY <1>9, <2>1
  <2>6. PlaceOfFile(f)' = PlaceOfFile(f)
    <3>1. files[f].parent \in DirIds
      BY <1>5, FilePlaces
    <3> QED BY <1>4, <1>8, <3>1 DEF PlaceOfFile
  <2> QED BY <2>1, <2>2, <2>3, <2>4, <2>5, <2>6
<1>11. DOMAIN Contents' = {r \in DOMAIN Contents : ~ Store!IsStrictPrefix(q, r)}
  <2>1. DOMAIN Contents = {PlaceOfFile(f) : f \in VisibleFiles}
    BY <1>0 DEF ContentsFit
  <2>2. DOMAIN Contents' = {PlaceOfFile(f)' : f \in VisibleFiles'}
    BY <1>1 DEF ContentsFit
  <2>3. VisibleFiles' \subseteq VisibleFiles
    BY <1>9
  <2> QED BY <1>10, <2>1, <2>2, <2>3
<1>12. ASSUME NEW r \in DOMAIN Contents' PROVE Contents'[r] = Contents[r]
  <2>1. PICK f \in VisibleFiles' : r = PlaceOfFile(f)'
    BY <1>1 DEF ContentsFit
  <2>2. f \in VisibleFiles
    BY <1>9, <2>1
  <2>3. Contents'[r] = files'[f].data
    BY <1>1, <2>1 DEF ContentsFit
  <2>4. Contents[r] = files[f].data
    BY <1>0, <1>10, <2>1, <2>2 DEF ContentsFit
  <2> QED BY <1>8, <2>3, <2>4
<1>13. Contents' = [r \in {s \in DOMAIN Contents : ~ Store!IsStrictPrefix(q, s)} |-> Contents[r]]
  <2>1. Contents' = [r \in DOMAIN Contents' |-> Contents'[r]]
    BY <1>1 DEF ContentsFit
  <2> QED BY <1>11, <1>12, <2>1
<1> QED BY <1>2, <1>7, <1>13 DEF DirectoryStored

\* A new file moves no directory.
LEMMA FileLeavesDirectories ==
  ASSUME TreeInv, TreeInv', NEW p, NEW f, NEW name, NEW data, FileMade(p, f, name, data)
  PROVE  Visible' = Visible /\ \A e \in DirIds : PlaceOf'[e] = PlaceOf[e]
<1>0. TreeFits /\ VisibleFits
  BY TreeTypes, VisibleOfTree
<1>1. VisibleFits'
  BY VisibleOfTree, PTL
<1>2. /\ DirIds' = DirIds
      /\ \A e \in DirIds : /\ dirs'[e].parent = dirs[e].parent /\ dirs'[e].name = dirs[e].name
                           /\ dirs'[e].directories = dirs[e].directories
  BY DEF FileMade
<1>3. \A e \in DirIds : PlaceOf'[e] = PlaceOf[e]
  BY <1>2, PlacesStay DEF TreeGrows
<1> DEFINE S == {e \in DirIds : e \in Visible' <=> e \in Visible}
<1>4. Root \in S
  BY <1>0, <1>1 DEF TreeFits, VisibleFits, Root
<1>5. ASSUME NEW e \in DirIds \ {Root}, dirs[e].parent \in S PROVE e \in S
  <2>1. PICK u \in DirIds : u = dirs[e].parent
    BY <1>0 DEF TreeFits
  <2>2. PICK list \in Seq(Nat) : list = dirs[u].directories /\ ToSet(list) \subseteq DirIds
    BY <1>0 DEF TreeFits
  <2>3. Leader(list, dirs', dirs[e].name) = Leader(list, dirs, dirs[e].name)
    <3>1. PICK others : others = dirs'
      OBVIOUS
    <3>2. \A x \in ToSet(list) : others[x].name = dirs[x].name
      BY <1>2, <2>2, <3>1
    <3> QED BY <3>1, <3>2, LeaderOfSame
  <2>4. Leads(e)' <=> Leads(e)
    BY <1>2, <2>1, <2>2, <2>3 DEF Leads
  <2>5. e \in Visible' <=> u \in Visible' /\ Leads(e)'
    BY <1>1, <1>2, <2>1 DEF VisibleFits, Root
  <2>6. e \in Visible <=> u \in Visible /\ Leads(e)
    BY <1>0, <2>1 DEF VisibleFits
  <2> QED BY <1>5, <2>1, <2>4, <2>5, <2>6
<1>6. DirIds \subseteq S
  <2> HIDE DEF S
  <2> QED BY <1>0, <1>4, <1>5, TreeInduction
<1>7. Visible' \subseteq DirIds /\ Visible \subseteq DirIds
  BY <1>0, <1>1, <1>2 DEF VisibleFits
<1> QED BY <1>3, <1>6, <1>7

\* What the store makes of a new file, at q.
FileStored(q, data) ==
  /\ Directories' = Directories
  /\ Contents' = [r \in DOMAIN Contents \cup {q} |-> IF r = q THEN data ELSE Contents[r]]

\* A file that is made takes the place of one of its name.
LEMMA FileMadeIsStored ==
  ASSUME TreeInv, TreeInv', NEW p \in Visible, NEW f, NEW name \in NodeNames, NEW data,
         FileMade(p, f, name, data)
  PROVE  FileStored(Append(PlaceOf[p], name), data)
<1>0. TreeFits /\ PlacesFit /\ VisibleFits /\ ContentsFit
  BY TreeTypes, PlacesOfTree, VisibleOfTree, ContentsOfTree
<1>1. ContentsFit'
  BY ContentsOfTree, PTL
<1>2. PICK q : q = Append(PlaceOf[p], name)
  OBVIOUS
<1>3. /\ f \in Nat /\ f \notin FileIds /\ FileIds' = FileIds \cup {f} /\ p \in DirIds
      /\ DirIds' = DirIds
      /\ \A g \in FileIds : files'[g] = files[g]
      /\ \A e \in DirIds : dirs'[e].files = IF e = p THEN <<f>> \o dirs[p].files ELSE dirs[e].files
      /\ files'[f].parent = p /\ files'[f].name = name /\ files'[f].data = data
  BY DEF FileMade
<1>4. Visible' = Visible /\ \A e \in DirIds : PlaceOf'[e] = PlaceOf[e]
  BY FileLeavesDirectories
<1>5. Visible \subseteq DirIds
  BY <1>0 DEF VisibleFits
<1>6. Directories' = Directories
  BY <1>4, <1>5 DEF Directories
<1>7. ASSUME NEW u \in DirIds, NEW n
      PROVE  Leader(dirs'[u].files, files', n)
               = IF u = p /\ name = n THEN f ELSE Leader(dirs[u].files, files, n)
  <2>1. PICK list \in Seq(Nat) : list = dirs[u].files /\ ToSet(list) \subseteq FileIds
    BY <1>0 DEF TreeFits
  <2>2. PICK others : others = files'
    OBVIOUS
  <2>3. \A x \in ToSet(list) : others[x].name = files[x].name
    BY <1>3, <2>1, <2>2
  <2>4. CASE u = p
    <3>1. Leader(<<f>> \o list, others, n) = IF others[f].name = n THEN f ELSE Leader(list, files, n)
      BY <1>3, <2>3, LeaderOfLonger
    <3> QED BY <1>3, <2>1, <2>2, <2>4, <3>1
  <2>5. CASE u # p
    <3>1. Leader(list, others, n) = Leader(list, files, n)
      BY <2>3, LeaderOfSame
    <3> QED BY <1>3, <2>1, <2>2, <2>5, <3>1
  <2> QED BY <2>4, <2>5
<1>8. VisibleFiles' = {g \in FileIds' : files'[g].parent \in Visible'
         /\ Leader(dirs'[files'[g].parent].files, files', files'[g].name) = g}
  BY DEF VisibleFiles, FileIn, Leader
<1>9. ASSUME NEW g \in FileIds
      PROVE  /\ PlaceOfFile(g)' = PlaceOfFile(g)
             /\ g \in VisibleFiles' <=> g \in VisibleFiles /\ PlaceOfFile(g) # q
  <2>1. PICK u \in DirIds, y \in NodeNames : u = files[g].parent /\ y = files[g].name
    BY <1>0 DEF TreeFits
  <2>2. g \in VisibleFiles <=> u \in Visible /\ Leader(dirs[u].files, files, y) = g
    BY <2>1, VisibleFilesAre
  <2>3. g \in VisibleFiles' <=> u \in Visible /\ Leader(dirs'[u].files, files', y) = g
    BY <1>3, <1>4, <1>8, <2>1
  <2>4. Leader(dirs'[u].files, files', y)
          = IF u = p /\ name = y THEN f ELSE Leader(dirs[u].files, files, y)
    BY <1>7
  <2>5. PlaceOfFile(g) = Append(PlaceOf[u], y)
    BY <2>1 DEF PlaceOfFile
  <2>6. u \in Visible => (PlaceOfFile(g) = q <=> u = p /\ name = y)
    <3>1. ASSUME u \in Visible PROVE PlaceOfFile(g) = q <=> u = p /\ name = y
      <4>1. Append(PlaceOf[p], name) = Append(PlaceOf[u], y) <=> u = p /\ y = name
        BY <3>1, ChildrenDiffer
      <4> QED BY <1>2, <2>5, <4>1
    <3> QED BY <3>1
  <2>7. PlaceOfFile(g)' = PlaceOfFile(g)
    BY <1>3, <1>4, <2>1 DEF PlaceOfFile
  <2> QED BY <1>3, <2>2, <2>3, <2>4, <2>6, <2>7
<1>10. f \in VisibleFiles' /\ PlaceOfFile(f)' = q
  <2>1. Leader(dirs'[p].files, files', name) = f
    BY <1>3, <1>7
  <2> QED BY <1>2, <1>3, <1>4, <1>8, <2>1 DEF PlaceOfFile
<1>11. VisibleFiles' = {g \in VisibleFiles : PlaceOfFile(g) # q} \cup {f}
  <2>1. VisibleFiles' \subseteq FileIds \cup {f} /\ VisibleFiles \subseteq FileIds
    BY <1>3 DEF VisibleFiles
  <2> QED BY <1>9, <1>10, <2>1
<1>12. \A g \in VisibleFiles : PlaceOfFile(g)' = PlaceOfFile(g) /\ g \in FileIds
  BY <1>9 DEF VisibleFiles
<1>13. DOMAIN Contents' = DOMAIN Contents \cup {q}
  <2>1. DOMAIN Contents = {PlaceOfFile(g) : g \in VisibleFiles}
    BY <1>0 DEF ContentsFit
  <2>2. DOMAIN Contents' = {PlaceOfFile(g)' : g \in VisibleFiles'}
    BY <1>1 DEF ContentsFit
  <2> QED BY <1>10, <1>11, <1>12, <2>1, <2>2
<1>14. ASSUME NEW r \in DOMAIN Contents'
       PROVE  Contents'[r] = IF r = q THEN data ELSE Contents[r]
  <2>1. PICK g \in VisibleFiles' : r = PlaceOfFile(g)'
    BY <1>1 DEF ContentsFit
  <2>2. Contents'[r] = files'[g].data
    BY <1>1, <2>1 DEF ContentsFit
  <2>3. CASE g = f
    BY <1>3, <1>10, <2>1, <2>2, <2>3
  <2>4. CASE g # f
    <3>1. g \in VisibleFiles /\ PlaceOfFile(g) # q /\ r = PlaceOfFile(g)
      BY <1>11, <1>12, <2>1, <2>4
    <3>2. Contents[r] = files[g].data /\ files'[g] = files[g]
      BY <1>0, <1>3, <1>12, <3>1 DEF ContentsFit
    <3> QED BY <2>2, <3>1, <3>2
  <2> QED BY <2>3, <2>4
<1>15. Contents' = [r \in DOMAIN Contents \cup {q} |-> IF r = q THEN data ELSE Contents[r]]
  <2>1. Contents' = [r \in DOMAIN Contents' |-> Contents'[r]]
    BY <1>1 DEF ContentsFit
  <2> QED BY <1>13, <1>14, <2>1
<1> QED BY <1>2, <1>6, <1>15 DEF FileStored

-----------------------------------------------------------------------------
(* The file system does what FileStore says.                               *)

\* The last name of a path stands in its parent.
LEMMA PlaceEnds ==
  ASSUME NEW path \in Paths
  PROVE  Store!Place(path) = Append(Store!Parent(path), path_split(path).file)
<1>1. (IF Store!Used(path) = <<>> THEN "" ELSE Store!Last(Store!Used(path))) = path_split(path).file
  BY SplitsAsUsed DEF Store!Last, Last
<1> QED BY <1>1 DEF Store!Place

\* The directory a creation or a search works in is where the store has it.
LEMMA ParentIsFound ==
  ASSUME TreeInv, NEW path \in Paths, Parent(path) \notin {Missing, Unset}
  PROVE  /\ Parent(path) \in Visible /\ path_split(path).file \in NodeNames
         /\ Store!Found(path)
         /\ Store!Place(path) = Append(PlaceOf[Parent(path)], path_split(path).file)
<1>1. Parent(path) \in Visible
  BY PathLeads DEF Spots
<1>2. Store!Parent(path) = PlaceOf[Parent(path)] /\ Store!Parent(path) \notin {Missing, Unset}
  BY <1>1, PathLeads, SpotsFit
<1>3. Store!Place(path) = Append(Store!Parent(path), path_split(path).file)
  BY PlaceEnds
<1> QED BY <1>1, <1>2, <1>3, SplitsIntoNames DEF Store!Found

\* Where neither list of any directory changes, nothing is stored or lost.
LEMMA TreeUnchanged ==
  ASSUME UNCHANGED <<dirs, files>>
  PROVE  Directories' = Directories /\ Contents' = Contents
<1>1. PlaceOf' = PlaceOf /\ Visible' = Visible
  BY DEF PlaceOf, Visible, DirIds, FirstNamed, SelectInSeq
<1>2. VisibleFiles' = VisibleFiles
  BY <1>1 DEF VisibleFiles, FileIds, FileIn, FirstNamed, SelectInSeq
<1>3. \A f : PlaceOfFile(f)' = PlaceOfFile(f)
  BY <1>1 DEF PlaceOfFile
<1> QED BY <1>1, <1>2, <1>3 DEF Directories, Contents, PlaceOfFile

\* The root is the only directory, and nothing is stored.
LEMMA InitialStore ==
  ASSUME initialize_filesystem
  PROVE  Store!StoreInit
<1>1. TreeInv
  BY InitialTree
<1>2. PlacesFit /\ VisibleFits /\ ContentsFit /\ TreeFits
  BY <1>1, PlacesOfTree, VisibleOfTree, ContentsOfTree, TreeTypes
<1>3. dirs = <<[name |-> "/", parent |-> Unset, directories |-> <<>>, files |-> <<>>]>> /\ files = <<>>
  BY DEF initialize_filesystem
<1>4. DirIds = {Root} /\ FileIds = {}
  <2>1. Len(dirs) = 1 /\ Len(files) = 0
    BY <1>3
  <2> QED BY <1>2, <2>1 DEF TreeFits, Root
<1>5. Directories = {<<>>}
  <2>1. Visible = {Root} /\ PlaceOf[Root] = <<>>
    BY <1>2, <1>4 DEF VisibleFits, PlacesFit
  <2> QED BY <2>1 DEF Directories
<1>6. Contents = <<>>
  <2>1. VisibleFiles = {}
    BY <1>4 DEF VisibleFiles
  <2>2. DOMAIN Contents = {}
    BY <1>2, <2>1 DEF ContentsFit
  <2>3. Contents = [r \in {} |-> Contents[r]]
    BY <1>2, <2>2 DEF ContentsFit
  <2>4. <<>> = [r \in {} |-> Contents[r]]
    OBVIOUS
  <2> QED BY <2>3, <2>4
<1> QED BY <1>5, <1>6 DEF initialize_filesystem, Store!StoreInit

\* A directory is created where the store would create it.
LEMMA DirectoryCreateStores ==
  ASSUME TreeInv, TreeInv', NEW path \in Paths, directory_create(path)
  PROVE  /\ Store!Found(path) /\ Store!Place(path) \in Seq(NodeNames)
         /\ DirectoryStored(Store!Place(path))
<1>1. PICK p : p = Parent(path)
  OBVIOUS
<1>2. p \notin {Missing, Unset}
  BY <1>1 DEF directory_create
<1>3. DirectoryMade(p, Len(dirs) + 1, path_split(path).file)
  BY <1>1, DirectoryCreateMakes
<1>4. p \in Visible /\ path_split(path).file \in NodeNames /\ Store!Found(path)
      /\ Store!Place(path) = Append(PlaceOf[p], path_split(path).file)
  BY <1>1, <1>2, ParentIsFound
<1>5. DirectoryStored(Store!Place(path))
  BY <1>3, <1>4, DirectoryMadeIsStored
<1>6. PlaceOf[p] \in Seq(NodeNames)
  BY <1>4, SpotsFit
<1>7. Append(PlaceOf[p], path_split(path).file) \in Seq(NodeNames)
  BY <1>4, <1>6, AppendProperties
<1> QED BY <1>4, <1>5, <1>7

\* So is a file.
LEMMA FileCreateStores ==
  ASSUME TreeInv, TreeInv', NEW path \in Paths, NEW data \in Data, file_create(path, data)
  PROVE  Store!Found(path) /\ FileStored(Store!Place(path), data)
<1>1. PICK p : p = Parent(path)
  OBVIOUS
<1>2. p \notin {Missing, Unset}
  BY <1>1 DEF file_create
<1>3. FileMade(p, Len(files) + 1, path_split(path).file, data)
  BY <1>1, FileCreateMakes
<1>4. p \in Visible /\ path_split(path).file \in NodeNames /\ Store!Found(path)
      /\ Store!Place(path) = Append(PlaceOf[p], path_split(path).file)
  BY <1>1, <1>2, ParentIsFound
<1>5. FileStored(Store!Place(path), data)
  BY <1>3, <1>4, FileMadeIsStored
<1> QED BY <1>4, <1>5

\* Every call of the file system is a call of the store, with the same answer.
LEMMA CallsAreStored ==
  ASSUME TreeInv, TreeInv', NEW path \in Paths, NEW data \in Data, FsCall(path, data)
  PROVE  Store!StoreNext
<1>1. ~ halted
  BY DEF FsCall, directory_create, file_create, CreateFails, get_file, FsHalts, Returns
<1>2. PICK p : p = Parent(path)
  OBVIOUS
<1>3. CASE directory_create(path)
  <2>1. Store!Found(path) /\ DirectoryStored(Store!Place(path))
    BY <1>3, DirectoryCreateStores
  <2>2. request' = <<"directory_create", path>> /\ answer' = SUCCEED /\ UNCHANGED halted
    BY <1>3 DEF directory_create, Returns
  <2>3. Store!CreateDirectory(path)
    BY <2>1, <2>2 DEF DirectoryStored, Store!CreateDirectory
  <2> QED BY <1>1, <2>3 DEF Store!StoreNext
<1>4. CASE file_create(path, data)
  <2>1. Store!Found(path) /\ FileStored(Store!Place(path), data)
    BY <1>4, FileCreateStores
  <2>2. request' = <<"file_create", path>> /\ answer' = SUCCEED /\ UNCHANGED halted
    BY <1>4 DEF file_create, Returns
  <2>3. Store!CreateFile(path, data)
    BY <2>1, <2>2 DEF FileStored, Store!CreateFile
  <2> QED BY <1>1, <2>3 DEF Store!StoreNext
<1>5. CASE CreateFails(path)
  <2>1. Directories' = Directories /\ Contents' = Contents
    BY <1>5, TreeUnchanged DEF CreateFails
  <2>2. Store!Parent(path) = Missing
    BY <1>5, PathLeads DEF CreateFails, Spot
  <2>3. Store!Fails(path)
    BY <1>5, <2>1, <2>2 DEF CreateFails, Returns, Store!Fails
  <2> QED BY <1>1, <2>3 DEF Store!StoreNext
<1>6. CASE get_file(path)
  <2>0. Directories' = Directories /\ Contents' = Contents
    BY <1>6, TreeUnchanged DEF get_file
  <2>1. p \notin {Missing, Unset}
    BY <1>2, <1>6 DEF get_file
  <2>2. PICK name \in NodeNames : name = path_split(path).file
    BY SplitsIntoNames
  <2>3. p \in Visible /\ Store!Found(path) /\ Store!Place(path) = Append(PlaceOf[p], name)
    BY <1>2, <2>1, <2>2, ParentIsFound
  <2>4. PICK f : f = Leader(dirs[p].files, files, name)
    OBVIOUS
  <2>5. \/ f = 0 /\ Append(PlaceOf[p], name) \notin DOMAIN Contents
        \/ /\ f # 0 /\ Append(PlaceOf[p], name) \in DOMAIN Contents
           /\ Contents[Append(PlaceOf[p], name)] = files[f].data
    BY <2>3, <2>4, FileAt
  <2>6. FileIn(p, path_split(path).file) = f
    BY <2>2, <2>4 DEF FileIn, Leader
  <2>7. /\ request' = <<"get_file", path>> /\ UNCHANGED halted
        /\ answer' = IF f = 0 THEN NO_SUCH_FILE ELSE files[f].data
    BY <1>2, <1>6, <2>6 DEF get_file, Returns
  <2>8. Store!GetFile(path)
    BY <2>0, <2>3, <2>5, <2>7 DEF Store!GetFile
  <2> QED BY <1>1, <2>8 DEF Store!StoreNext
<1>7. CASE FsHalts(path)
  <2>1. Directories' = Directories /\ Contents' = Contents
    BY <1>7, TreeUnchanged DEF FsHalts
  <2>2. PICK name \in {"directory_create", "file_create", "get_file"} :
          /\ p \in {Unset} \cup (IF name = "get_file" THEN {Missing} ELSE {})
          /\ request' = <<name, path>>
    BY <1>2, <1>7 DEF FsHalts
  <2>3. Store!Parent(path) = p
    BY <1>2, <2>2, PathLeads DEF Spot
  <2>4. request' \in {"directory_create", "file_create", "get_file"} \X {path} /\ request'[1] = name
    BY <2>2
  <2>5. halted' = TRUE /\ UNCHANGED answer
    BY <1>7 DEF FsHalts
  <2>6. Store!Halts(path)
    BY <2>1, <2>2, <2>3, <2>4, <2>5 DEF Store!Halts
  <2> QED BY <1>1, <2>6 DEF Store!StoreNext
<1> QED BY <1>3, <1>4, <1>5, <1>6, <1>7 DEF FsCall

\* The file system is a store of directories and contents, whatever is called
\* in whatever order: a creation where there is a file or a directory of the
\* same name hides all of the old one and nothing else, and a search finds at
\* a path what was last put there.
THEOREM FilesAreStored == FsSpec => ImplementsFileStore
<1>1. initialize_filesystem => TreeInv /\ Store!StoreInit
  BY InitialTree, InitialStore
<1>2. TreeInv /\ [FsNext]_fsVars => TreeInv'
  BY FsStepKeepsTree
<1>3. TreeInv /\ TreeInv' /\ [FsNext]_fsVars => [Store!StoreNext]_(Store!storeVars)
  <2> SUFFICES ASSUME TreeInv, TreeInv', [FsNext]_fsVars
               PROVE  [Store!StoreNext]_(Store!storeVars)
    OBVIOUS
  <2>1. CASE UNCHANGED fsVars
    BY <2>1, TreeUnchanged DEF fsVars, Store!storeVars
  <2>2. CASE FsNext
    BY <2>2, CallsAreStored DEF FsNext
  <2> QED BY <2>1, <2>2
<1> QED BY <1>1, <1>2, <1>3, PTL DEF FsSpec, ImplementsFileStore, Store!StoreSpec

\* So is the file system the boot fills.
COROLLARY FilesAreStoredAtBoot == RamdiskSpec => ImplementsFileStore
  BY BootUsesFileSystem, FilesAreStored, PTL

-----------------------------------------------------------------------------
(* Where the names of an archive lead.                                     *)

\* A name of an archive, the dot aside: its first l components are those of
\* its directories and of what it names.
TarFits(path, p, o, l) ==
  /\ p = WithoutDot(path) /\ o \in {0, 1} /\ l \in Nat
  /\ p \in Seq(NodeNames) /\ Len(p) >= 1 /\ Len(path) = Len(p) + o
  /\ o = 1 => path[1] = "."
  /\ \A n \in 1 .. Len(p) : path[n + o] = p[n] /\ p[n] # "."
  /\ \A n \in 1 .. Len(p) - 1 : p[n] # Empty
  /\ \A n \in 2 .. Len(p) : p[n] # ".."
  /\ IsDirectory(p) <=> IsDirectory(path)
  /\ l = IF IsDirectory(path) THEN Len(p) - 1 ELSE Len(p)
  /\ path_len(path) = l + o

\* The names tar writes are such names.
LEMMA TarNames ==
  ASSUME NEW path \in Paths, IsTarName(path)
  PROVE  \E p, o, l : TarFits(path, p, o, l)
<1>1. path \in Seq(STRING) /\ Len(path) \in Nat
  BY FileSystemAssumption
<1>2. PICK N \in Nat : N = Len(path) /\ N >= 1
  BY <1>1 DEF IsTarName
<1>3. /\ path[N] # "." /\ Last(path) = path[N]
      /\ \A n \in 1 .. N - 1 : path[n] # Empty
      /\ \A n \in 2 .. N : path[n] # "." /\ path[n] # ".."
  BY <1>2 DEF IsTarName, Last
<1>4. PICK o \in {0, 1} : o = IF path[1] = "." THEN 1 ELSE 0
  OBVIOUS
<1>5. PICK p : p = WithoutDot(path)
  OBVIOUS
<1>6. /\ p \in Seq(STRING) /\ Len(p) = N - o /\ N - o >= 1
      /\ \A n \in 1 .. N - o : p[n] = path[n + o]
  <2>1. CASE o = 0
    <3>1. p = path
      BY <1>4, <1>5, <2>1 DEF WithoutDot
    <3> QED BY <1>1, <1>2, <2>1, <3>1
  <2>2. CASE o = 1
    <3>1. path[1] = "." /\ p = Tail(path)
      BY <1>4, <1>5, <2>2 DEF WithoutDot
    <3>2. N # 1
      BY <1>3, <3>1
    <3>3. path # <<>>
      BY <1>1, <1>2
    <3>4. /\ Tail(path) \in Seq(STRING) /\ Len(Tail(path)) = Len(path) - 1
          /\ \A n \in 1 .. Len(Tail(path)) : Tail(path)[n] = path[n + 1]
      BY <1>1, <3>3, HeadTailProperties
    <3> QED BY <1>2, <2>2, <3>1, <3>2, <3>4
  <2> QED BY <2>1, <2>2
<1>7. PICK L \in Nat : L = N - o /\ L >= 1 /\ L + o = N
  <2>1. N - o \in Nat /\ (N - o) + o = N
    BY <1>2, <1>6
  <2> QED BY <1>6, <2>1
<1>8. \A n \in 1 .. L : path[n + o] = p[n] /\ p[n] # "."
  <2>1. ASSUME NEW n \in 1 .. L PROVE path[n + o] # "."
    <3>1. CASE n + o = 1
      BY <1>4, <1>7, <3>1
    <3>2. CASE n + o \in 2 .. N
      BY <1>3, <3>2
    <3>3. n + o \in 1 .. N
      BY <1>7
    <3> QED BY <1>7, <3>1, <3>2, <3>3
  <2> QED BY <1>6, <1>7, <2>1
<1>9. \A n \in 1 .. L - 1 : p[n] # Empty
  <2>1. ASSUME NEW n \in 1 .. L - 1 PROVE p[n] # Empty
    <3>1. n + o \in 1 .. N - 1 /\ n \in 1 .. L
      BY <1>7
    <3> QED BY <1>3, <1>8, <3>1
  <2> QED BY <2>1
<1>10. \A n \in 2 .. L : p[n] # ".."
  <2>1. ASSUME NEW n \in 2 .. L PROVE p[n] # ".."
    <3>1. n + o \in 2 .. N /\ n \in 1 .. L
      BY <1>7
    <3> QED BY <1>3, <1>8, <3>1
  <2> QED BY <2>1
<1>11. Last(p) = Last(path)
  <2>1. p[L] = path[N]
    BY <1>7, <1>8
  <2>2. Len(p) = L
    BY <1>6, <1>7
  <2> QED BY <1>3, <2>1, <2>2 DEF Last
<1>12. p \in Seq(NodeNames)
  <2>1. STRING \subseteq NodeNames
    BY DEF NodeNames
  <2> QED BY <1>6, <2>1, SeqMonotonic
<1>13. PICK l \in Nat : l = IF IsDirectory(path) THEN L - 1 ELSE L
  <2>1. L - 1 \in Nat
    BY <1>7
  <2> QED BY <2>1
<1>14. path_len(path) = IF IsDirectory(path) THEN N - 1 ELSE N
  <2>1. PICK n \in 0 .. N : /\ n = path_len(path) /\ path_read(path, n) = Empty
                            /\ \A k \in 0 .. n - 1 : path_read(path, k) # Empty
    BY <1>1, <1>2, PathEnds
  <2>2. \A k \in 0 .. N - 1 : path_read(path, k) = path[k + 1]
    BY <1>2 DEF path_read
  <2>3. n >= N - 1
    <3>1. ASSUME n < N - 1 PROVE FALSE
      <4>1. n \in 0 .. N - 1 /\ n + 1 \in 1 .. N - 1
        BY <2>1, <3>1
      <4>2. path_read(path, n) = path[n + 1]
        BY <2>2, <4>1
      <4> QED BY <1>3, <2>1, <4>1, <4>2
    <3> QED BY <1>2, <2>1, <3>1
  <2>4. path_read(path, N - 1) = path[N]
    <3>1. PICK k \in 0 .. N - 1 : k = N - 1 /\ k + 1 = N
      BY <1>2
    <3>2. path_read(path, k) = path[k + 1]
      BY <2>2
    <3> QED BY <3>1, <3>2
  <2>5. IsDirectory(path) <=> path_read(path, N - 1) = Empty
    BY <1>3, <2>4 DEF IsDirectory
  <2>6. CASE n = N - 1
    BY <2>1, <2>5, <2>6
  <2>7. CASE n = N
    <3>1. N - 1 \in 0 .. n - 1
      BY <1>2, <2>7
    <3> QED BY <2>1, <2>5, <2>7, <3>1
  <2> QED BY <1>2, <2>1, <2>3, <2>6, <2>7
<1>15. path_len(path) = l + o
  BY <1>7, <1>13, <1>14
<1>16. Len(p) = L /\ Len(path) = L + o /\ (o = 1 => path[1] = ".")
  BY <1>2, <1>4, <1>6, <1>7
<1>17. IsDirectory(p) <=> IsDirectory(path)
  BY <1>11 DEF IsDirectory
<1>18. TarFits(path, p, o, l)
  BY <1>5, <1>7, <1>8, <1>9, <1>10, <1>12, <1>13, <1>15, <1>16, <1>17 DEF TarFits
<1> QED BY <1>18

\* From a place on the way to p, the next name leads on, or there is nothing;
\* or it leads up, which it may only from the root.
LEMMA GoOn ==
  ASSUME NEW p \in Seq(NodeNames), NEW a \in Nat, a < Len(p),
         p[a + 1] # ".", p[a + 1] = ".." => a = 0, NEW r,
         r = Store!Go(SubSeq(p, 1, a), p[a + 1])
  PROVE  \/ r = Unset
         \/ r = Missing /\ SubSeq(p, 1, a + 1) \notin Directories
         \/ r = SubSeq(p, 1, a + 1)
<1>1. PICK q : q = SubSeq(p, 1, a)
  OBVIOUS
<1>2. PICK name : name = p[a + 1]
  OBVIOUS
<1>3. q \in Seq(NodeNames) /\ Len(q) = a
  BY <1>1, PrefixFits
<1>4. q \notin {Missing, Unset}
  BY <1>3, ErrorsAreNoPlaces
<1>5. Append(q, name) = SubSeq(p, 1, a + 1)
  BY <1>1, <1>2, PrefixGrows
<1>6. r = Store!Go(q, name)
  BY <1>1, <1>2
<1>7. CASE name = ".."
  <2>1. q = <<>>
    BY <1>2, <1>3, <1>7
  <2>2. Store!Go(q, name) = Unset
    BY <1>4, <1>7, <2>1 DEF Store!Go
  <2> QED BY <1>6, <2>2
<1>8. CASE name # ".."
  <2>1. Store!Go(q, name) = IF Append(q, name) \in Directories THEN Append(q, name) ELSE Missing
    BY <1>2, <1>4, <1>8 DEF Store!Go
  <2> QED BY <1>5, <1>6, <2>1
<1> QED BY <1>7, <1>8

\* A name of an archive leads to the place it names.
TarLeads(path, p, l) ==
  /\ l = 0 => Store!Place(path) \in {<<".">>, <<Empty>>}
  /\ l # 0 =>
       \/ Store!Parent(path) = Unset
       \/ Store!Parent(path) = Missing /\ \E n \in 1 .. l - 1 : SubSeq(p, 1, n) \notin Directories
       \/ Store!Place(path) = SubSeq(p, 1, l) /\ Store!Parent(path) \notin {Missing, Unset}

\* Every name tar writes leads there, unless a directory is not there yet.
LEMMA TarNameLeads ==
  ASSUME NEW path \in Paths, NEW p, NEW o, NEW l, TarFits(path, p, o, l)
  PROVE  TarLeads(path, p, l)
<1>0. /\ o \in {0, 1} /\ l \in Nat /\ p \in Seq(NodeNames) /\ Len(p) \in Nat /\ Len(p) >= 1
      /\ Len(path) = Len(p) + o /\ (o = 1 => path[1] = ".")
      /\ \A n \in 1 .. Len(p) : path[n + o] = p[n] /\ p[n] # "."
      /\ \A n \in 2 .. Len(p) : p[n] # ".."
      /\ path_len(path) = l + o /\ l <= Len(p)
  BY DEF TarFits
<1>1. PICK N \in Nat : N = IF l + o = 0 THEN 0 ELSE l + o - 1
  <2>1. l + o # 0 => l + o - 1 \in Nat
    BY <1>0
  <2> QED BY <2>1
<1>2. PICK names \in Seq(NodeNames) : names = path_split(path).dir /\ names = Front(Store!Used(path))
  BY SplitsIntoNames, SplitsAsUsed
<1>3. names = [k \in 1 .. N |-> path_read(path, k - 1)]
  BY <1>0, <1>1, <1>2 DEF path_split
<1>4. Len(names) = N
  BY <1>3
<1>5. PICK f : /\ f[0] = <<>> /\ Store!Parent(path) = f[N]
               /\ \A j \in 1 .. N : f[j] = Store!Go(f[j - 1], names[j])
  BY <1>2, <1>4, NamesLead DEF Led
<1>6. path_split(path).file = IF l + o = 0 THEN Empty ELSE path_read(path, l + o - 1)
  BY <1>0 DEF path_split
<1>7. ASSUME NEW k \in 1 .. Len(path) PROVE path_read(path, k - 1) = path[k]
  <2>1. k - 1 < Len(path) /\ (k - 1) + 1 = k
    BY <1>0
  <2> QED BY <2>1 DEF path_read
<1>8. CASE l = 0
  <2>1. Store!Parent(path) = <<>>
    <3>1. N = 0
      BY <1>0, <1>1, <1>8
    <3> QED BY <1>5, <3>1
  <2>2. path_split(path).file \in {".", Empty}
    <3>1. CASE o = 0
      BY <1>6, <1>8, <3>1
    <3>2. CASE o = 1
      <4>1. 1 \in 1 .. Len(path)
        BY <1>0
      <4>2. path_read(path, 0) = path[1]
        BY <1>7, <4>1
      <4> QED BY <1>0, <1>6, <1>8, <3>2, <4>2
    <3> QED BY <1>0, <3>1, <3>2
  <2>3. Store!Place(path) = Append(<<>>, path_split(path).file)
    BY <2>1, PlaceEnds
  <2>4. \A x : Append(<<>>, x) = <<x>>
    OBVIOUS
  <2>5. Store!Place(path) \in {<<".">>, <<Empty>>}
    BY <2>2, <2>3, <2>4
  <2> QED BY <1>8, <2>5 DEF TarLeads
<1>9. CASE l # 0
  <2>1. N = l + o - 1 /\ l >= 1
    BY <1>0, <1>1, <1>9
  <2> DEFINE Blocked == \E n \in 1 .. l - 1 : SubSeq(p, 1, n) \notin Directories
             at(j) == IF j >= o THEN j - o ELSE 0
             S == {j \in 0 .. N : \/ f[j] = Unset
                                  \/ f[j] = Missing /\ Blocked
                                  \/ f[j] = SubSeq(p, 1, at(j))}
  <2>2. SubSeq(p, 1, 0) = <<>>
    BY SubSeqEmpty
  <2>3. 0 \in S
    <3>1. at(0) = 0
      BY <1>0
    <3>2. f[0] = SubSeq(p, 1, at(0))
      <4> HIDE DEF at
      <4> QED BY <1>5, <2>2, <3>1
    <3> HIDE DEF at, Blocked
    <3> QED BY <3>2
  <2>4. ASSUME NEW j \in 1 .. N, j - 1 \in S PROVE j \in S
    <3>1. names[j] = path[j]
      <4>1. j \in 1 .. Len(path)
        BY <1>0, <2>1
      <4> QED BY <1>3, <1>7, <4>1
    <3>2. f[j] = Store!Go(f[j - 1], path[j])
      BY <1>5, <3>1
    <3>3. CASE f[j - 1] \in {Missing, Unset}
      <4>1. f[j] = f[j - 1]
        BY <3>2, <3>3 DEF Store!Go
      <4>2. f[j - 1] = Unset \/ (f[j - 1] = Missing /\ Blocked)
        <5>1. PICK a \in Nat : a = at(j - 1) /\ a <= Len(p)
          <6>1. CASE j - 1 >= o
            <7>1. j - 1 - o \in Nat /\ j - 1 - o <= Len(p)
              BY <1>0, <2>1, <6>1
            <7> QED BY <6>1, <7>1
          <6>2. CASE ~ (j - 1 >= o)
            BY <1>0, <6>2
          <6> QED BY <6>1, <6>2
        <5>2. SubSeq(p, 1, a) \in Seq(NodeNames)
          BY <1>0, <5>1, PrefixFits
        <5>3. SubSeq(p, 1, a) \notin {Missing, Unset}
          BY <5>2, ErrorsAreNoPlaces
        <5> HIDE DEF at, Blocked
        <5> QED BY <2>4, <3>3, <5>1, <5>3
      <4> HIDE DEF Blocked, at
      <4> QED BY <4>1, <4>2
    <3>4. CASE f[j - 1] = SubSeq(p, 1, at(j - 1))
      <4>1. CASE j <= o
        <5>1. j = 1 /\ o = 1 /\ at(j - 1) = 0 /\ at(j) = 0
          BY <1>0, <4>1
        <5>2. Store!Go(<<>>, ".") = <<>>
          <6>1. <<>> \in Seq(NodeNames)
            OBVIOUS
          <6>2. <<>> \notin {Missing, Unset}
            BY <6>1, ErrorsAreNoPlaces
          <6> QED BY <6>2 DEF Store!Go
        <5>3. f[j] = <<>>
          <6> HIDE DEF at
          <6> QED BY <1>0, <2>2, <3>2, <3>4, <5>1, <5>2
        <5>4. f[j] = SubSeq(p, 1, at(j))
          <6> HIDE DEF at
          <6> QED BY <2>2, <5>1, <5>3
        <5> HIDE DEF at, Blocked
        <5> QED BY <5>4
      <4>2. CASE j > o
        <5>1. PICK a \in Nat : a = at(j - 1) /\ a + 1 = at(j) /\ j = a + 1 + o /\ a + 1 \in 1 .. l - 1
          <6>1. j - 1 >= o /\ j - 1 - o \in Nat
            BY <1>0, <4>2
          <6>2. PICK a \in Nat : a = j - 1 - o
            BY <6>1
          <6> QED BY <1>0, <2>1, <4>2, <6>1, <6>2
        <5>2. a + 1 \in 1 .. Len(p) /\ a < Len(p)
          BY <1>0, <5>1
        <5>3. path[j] = p[a + 1] /\ p[a + 1] # "."
          BY <1>0, <5>1, <5>2
        <5>4. p[a + 1] = ".." => a = 0
          <6>1. a # 0 => a + 1 \in 2 .. Len(p)
            BY <5>2
          <6> QED BY <1>0, <6>1
        <5>5. f[j] = Store!Go(SubSeq(p, 1, a), p[a + 1])
          <6> HIDE DEF at
          <6> QED BY <3>2, <3>4, <5>1, <5>3
        <5>6. \/ f[j] = Unset
              \/ f[j] = Missing /\ SubSeq(p, 1, a + 1) \notin Directories
              \/ f[j] = SubSeq(p, 1, a + 1)
          BY <1>0, <5>2, <5>3, <5>4, <5>5, GoOn
        <5>7. SubSeq(p, 1, a + 1) \notin Directories => Blocked
          BY <5>1
        <5> HIDE DEF at, Blocked
        <5> QED BY <5>1, <5>6, <5>7
      <4> QED BY <1>0, <4>1, <4>2
    <3> HIDE DEF at, Blocked
    <3> QED BY <2>4, <3>3, <3>4
  <2>5. N \in S
    <3> HIDE DEF S
    <3>1. 0 .. N \subseteq S
      BY <2>3, <2>4, InductionUpTo
    <3> QED BY <3>1
  <2>6. at(N) = l - 1
    BY <1>0, <2>1
  <2>7. CASE f[N] = SubSeq(p, 1, l - 1)
    <3>1. PICK a \in Nat : a = l - 1 /\ a < Len(p) /\ a + 1 = l
      BY <1>0, <2>1
    <3>2. SubSeq(p, 1, a) \in Seq(NodeNames)
      BY <1>0, <3>1, PrefixFits
    <3>3. SubSeq(p, 1, a) \notin {Missing, Unset}
      BY <3>2, ErrorsAreNoPlaces
    <3>4. path_split(path).file = p[a + 1]
      <4>1. l + o \in 1 .. Len(path) /\ l \in 1 .. Len(p) /\ l + o # 0
        BY <1>0, <2>1
      <4>2. path_read(path, l + o - 1) = path[l + o]
        <5>1. PICK k \in 1 .. Len(path) : k = l + o
          BY <4>1
        <5>2. path_read(path, k - 1) = path[k]
          BY <1>7
        <5> QED BY <1>0, <5>1, <5>2
      <4>3. path[l + o] = p[l]
        BY <1>0, <4>1
      <4> QED BY <1>6, <3>1, <4>1, <4>2, <4>3
    <3>5. Append(SubSeq(p, 1, a), p[a + 1]) = SubSeq(p, 1, a + 1)
      BY <1>0, <3>1, PrefixGrows
    <3>6. Store!Parent(path) = SubSeq(p, 1, a)
      BY <1>5, <2>7, <3>1
    <3>7. Store!Place(path) = SubSeq(p, 1, l)
      BY <3>1, <3>4, <3>5, <3>6, PlaceEnds
    <3> QED BY <1>9, <3>3, <3>6, <3>7 DEF TarLeads
  <2>8. CASE f[N] = Unset \/ (f[N] = Missing /\ Blocked)
    BY <1>5, <1>9, <2>8 DEF TarLeads
  <2> HIDE DEF Blocked, at
  <2> QED BY <2>5, <2>6, <2>7, <2>8
<1> QED BY <1>8, <1>9

-----------------------------------------------------------------------------
(* What the entries of an archive leave in the file system.                *)

\* What the boot has come across so far: names as tar writes them, each with
\* data of its own, the entries of the archive being read last.
Offers == [entry : [path : Paths, size : Nat], data : Nat \X Nat]

OfferedFits ==
  /\ offered \in Seq(Offers)
  /\ \A k \in DOMAIN offered : IsTarName(offered[k].entry.path) /\ offered[k].data[1] <= m
  /\ \A k \in DOMAIN offered : \A l \in DOMAIN offered :
       offered[k].data = offered[l].data => k = l
  /\ pc = "ramdisk" =>
       /\ i <= Len(archive) /\ Len(archive) <= Len(offered)
       /\ \A k \in 1 .. Len(archive) :
            offered[Len(offered) - Len(archive) + k] = [entry |-> archive[k], data |-> <<m, k>>]

\* The entries ramdisk_init has gone through.
Done == IF pc = "ramdisk" THEN Len(offered) - Len(archive) + i ELSE Len(offered)

\* Each directory on the way of l names along p has an entry among the first
\* j, and none has one after an entry of the next.
Stands(p, l, j) ==
  /\ \A n \in 1 .. l : \E a \in 1 .. j : Makes(a, SubSeq(p, 1, n))
  /\ \A n \in 1 .. l - 1 : \A a \in 1 .. j : \A d \in 1 .. j :
       Makes(a, SubSeq(p, 1, n)) /\ Makes(d, SubSeq(p, 1, n + 1)) => a < d

\* Among the first j entries none comes too late for file k or takes its place.
Lasts(k, j) ==
  /\ ~ IsDir(k)
  /\ Stands(PathOf(k), Len(PathOf(k)) - 1, j)
  /\ \A n \in 1 .. Len(PathOf(k)) - 1 : \A a \in 1 .. j :
       Makes(a, SubSeq(PathOf(k), 1, n)) => a < k
  /\ \A a \in k + 1 .. j : PathOf(a) # PathOf(k)

\* The directories and contents d and c are those of the first j entries.
LoadedAs(j, d, c) ==
  /\ \A p \in Seq(NodeNames) : \A l \in 0 .. Len(p) :
       Stands(p, l, j) => SubSeq(p, 1, l) \in d
  /\ \A k \in 1 .. j :
       Lasts(k, j) => PathOf(k) \in DOMAIN c /\ c[PathOf(k)] = offered[k].data
  /\ \A r \in DOMAIN c : \E k \in DOMAIN offered : r = PathOf(k) /\ c[r] = offered[k].data

\* What an entry names.
EntryFits(k) ==
  /\ PathOf(k) \in Seq(NodeNames) /\ Len(PathOf(k)) \in Nat /\ Len(PathOf(k)) >= 1
  /\ \A n \in 1 .. Len(PathOf(k)) : PathOf(k)[n] # "."
  /\ \A n \in 1 .. Len(PathOf(k)) - 1 : PathOf(k)[n] # Empty
  /\ ~ IsDir(k) => PathOf(k)[1] # Empty
  /\ IsDir(k) <=> IsDirectory(offered[k].entry.path)
  /\ offered[k].entry.path \in Paths
  /\ TarLeads(offered[k].entry.path, PathOf(k),
              IF IsDir(k) THEN Len(PathOf(k)) - 1 ELSE Len(PathOf(k)))

\* What has been offered has such names.
LEMMA EntriesFit ==
  ASSUME OfferedFits, NEW k \in DOMAIN offered
  PROVE  EntryFits(k)
<1>1. PICK path \in Paths : path = offered[k].entry.path /\ IsTarName(path)
  <2>1. offered[k] \in Offers
    BY DEF OfferedFits
  <2> QED BY <2>1 DEF OfferedFits, Offers
<1>2. PICK p, o, l : TarFits(path, p, o, l)
  BY <1>1, TarNames
<1>3. /\ p = WithoutDot(path) /\ p \in Seq(NodeNames) /\ Len(p) >= 1
      /\ \A n \in 1 .. Len(p) : p[n] # "."
      /\ \A n \in 1 .. Len(p) - 1 : p[n] # Empty
      /\ IsDirectory(p) <=> IsDirectory(path)
      /\ l = IF IsDirectory(path) THEN Len(p) - 1 ELSE Len(p)
  BY <1>2 DEF TarFits
<1>4. TarLeads(path, p, l)
  BY <1>2, TarNameLeads
<1>5. PathOf(k) = p /\ (IsDir(k) <=> IsDirectory(path))
  BY <1>1, <1>3 DEF PathOf, IsDir
<1>6. ~ IsDir(k) => p[1] # Empty
  <2>1. ASSUME p[1] = Empty PROVE IsDirectory(p)
    <3>1. PICK N \in Nat : N = Len(p) /\ N >= 1
      BY <1>3
    <3>2. N # 1 => 1 \in 1 .. N - 1
      BY <3>1
    <3>3. N = 1
      BY <1>3, <2>1, <3>1, <3>2
    <3> QED BY <2>1, <3>1, <3>3 DEF IsDirectory, Last
  <2> QED BY <1>3, <1>5, <2>1
<1> QED BY <1>1, <1>3, <1>4, <1>5, <1>6 DEF EntryFits

\* What an entry makes when it is a directory.
MadeFits(a, p) ==
  LET path == offered[a].entry.path
  IN  /\ IsDir(a) /\ p \in Seq(NodeNames) /\ Len(p) \in Nat
      /\ Len(p) >= 1 => p[1] # "." /\ p[1] # Empty
      /\ Len(p) = 0 => Store!Place(path) \in {<<".">>, <<Empty>>}
      /\ Len(p) >= 1 =>
           \/ Store!Parent(path) = Unset
           \/ /\ Store!Parent(path) = Missing
              /\ \E n \in 1 .. Len(p) - 1 : SubSeq(p, 1, n) \notin Directories
           \/ Store!Place(path) = p /\ Store!Parent(path) \notin {Missing, Unset}

\* An entry that makes a directory is found at its place or not at all.
LEMMA MakersFit ==
  ASSUME OfferedFits, NEW a \in DOMAIN offered, NEW p, Makes(a, p)
  PROVE  MadeFits(a, p)
<1>1. PICK path : path = offered[a].entry.path
  OBVIOUS
<1>2. PICK whole \in Seq(NodeNames) : whole = PathOf(a)
  BY EntriesFit DEF EntryFits
<1>3. PICK l \in Nat : l = Len(whole) - 1 /\ l <= Len(whole) /\ Len(whole) = l + 1
  <2>1. PICK len \in Nat : len = Len(whole) /\ len >= 1
    BY <1>2, EntriesFit DEF EntryFits
  <2>2. len - 1 \in Nat /\ len - 1 <= len /\ len = (len - 1) + 1
    BY <2>1
  <2> QED BY <2>1, <2>2
<1>4. /\ \A n \in 1 .. l : whole[n] # "." /\ whole[n] # Empty
      /\ IsDir(a) /\ TarLeads(path, whole, l)
  <2>1. IsDir(a)
    BY DEF Makes
  <2> QED BY <1>1, <1>2, <1>3, <2>1, EntriesFit DEF EntryFits
<1>5. p = SubSeq(whole, 1, l)
  BY <1>2, <1>3 DEF Makes, DirPath, Front
<1>6. p \in Seq(NodeNames) /\ Len(p) = l /\ \A n \in 1 .. l : p[n] = whole[n]
  BY <1>3, <1>5, PrefixFits
<1>7. ASSUME NEW n \in 1 .. l PROVE SubSeq(whole, 1, n) = SubSeq(p, 1, n)
  <2>1. n \in 0 .. l
    OBVIOUS
  <2> QED BY <1>2, <1>3, <1>5, <2>1, PrefixOfPrefix
<1>8. l >= 1 => p[1] # "." /\ p[1] # Empty
  BY <1>4, <1>6
<1>9. l = 0 => Store!Place(path) \in {<<".">>, <<Empty>>}
  BY <1>4 DEF TarLeads
<1>10. ASSUME l >= 1
       PROVE  \/ Store!Parent(path) = Unset
              \/ /\ Store!Parent(path) = Missing
                 /\ \E n \in 1 .. l - 1 : SubSeq(p, 1, n) \notin Directories
              \/ Store!Place(path) = p /\ Store!Parent(path) \notin {Missing, Unset}
  <2>1. \/ Store!Parent(path) = Unset
        \/ /\ Store!Parent(path) = Missing
           /\ \E n \in 1 .. l - 1 : SubSeq(whole, 1, n) \notin Directories
        \/ /\ Store!Place(path) = SubSeq(whole, 1, l)
           /\ Store!Parent(path) \notin {Missing, Unset}
    BY <1>4, <1>10 DEF TarLeads
  <2>2. \A n \in 1 .. l - 1 : SubSeq(whole, 1, n) = SubSeq(p, 1, n)
    <3>1. \A n \in 1 .. l - 1 : n \in 1 .. l
      OBVIOUS
    <3> QED BY <1>7, <3>1
  <2> QED BY <1>5, <2>1, <2>2
<1> QED BY <1>1, <1>4, <1>6, <1>8, <1>9, <1>10 DEF MadeFits

\* What stands with an entry that makes none of it stood before.
LEMMA StandsBefore ==
  ASSUME NEW p, NEW l \in Nat, NEW e \in Nat \ {0}, Stands(p, l, e), NEW n \in 0 .. l,
         \A k \in 1 .. n : ~ Makes(e, SubSeq(p, 1, k))
  PROVE  Stands(p, n, e - 1)
<1>1. ASSUME NEW k \in 1 .. n PROVE \E a \in 1 .. e - 1 : Makes(a, SubSeq(p, 1, k))
  <2>1. k \in 1 .. l
    OBVIOUS
  <2>2. PICK a \in 1 .. e : Makes(a, SubSeq(p, 1, k))
    BY <2>1 DEF Stands
  <2>3. a # e
    BY <2>2
  <2>4. a \in 1 .. e - 1
    BY <2>3
  <2> QED BY <2>2, <2>4
<1>2. ASSUME NEW k \in 1 .. n - 1, NEW a \in 1 .. e - 1, NEW d \in 1 .. e - 1,
             Makes(a, SubSeq(p, 1, k)), Makes(d, SubSeq(p, 1, k + 1))
      PROVE  a < d
  <2>1. k \in 1 .. l - 1 /\ a \in 1 .. e /\ d \in 1 .. e
    OBVIOUS
  <2> QED BY <1>2, <2>1 DEF Stands
<1> QED BY <1>1, <1>2 DEF Stands

\* A file that lasts with one entry more, not its own, lasted before.
LEMMA LastsBefore ==
  ASSUME NEW e \in Nat \ {0}, NEW k \in 1 .. e - 1, Lasts(k, e), Len(PathOf(k)) \in Nat \ {0}
  PROVE  Lasts(k, e - 1)
<1>1. PICK l \in Nat : l = Len(PathOf(k)) - 1
  OBVIOUS
<1>2. Stands(PathOf(k), l, e) /\ \A n \in 1 .. l : ~ Makes(e, SubSeq(PathOf(k), 1, n))
  <2>1. \A n \in 1 .. l : \A a \in 1 .. e : Makes(a, SubSeq(PathOf(k), 1, n)) => a < k
    BY <1>1 DEF Lasts
  <2>2. e \in 1 .. e /\ ~ (e < k)
    OBVIOUS
  <2> QED BY <1>1, <2>1, <2>2 DEF Lasts
<1>3. Stands(PathOf(k), l, e - 1)
  <2>1. l \in 0 .. l
    OBVIOUS
  <2> QED BY <1>2, <2>1, StandsBefore
<1>4. \A n \in 1 .. Len(PathOf(k)) - 1 : \A a \in 1 .. e - 1 :
        Makes(a, SubSeq(PathOf(k), 1, n)) => a < k
  <2>1. \A a \in 1 .. e - 1 : a \in 1 .. e
    OBVIOUS
  <2> QED BY <2>1 DEF Lasts
<1>5. \A a \in k + 1 .. e - 1 : PathOf(a) # PathOf(k)
  <2>1. \A a \in k + 1 .. e - 1 : a \in k + 1 .. e
    OBVIOUS
  <2> QED BY <2>1 DEF Lasts
<1> QED BY <1>1, <1>3, <1>4, <1>5 DEF Lasts

\* What stands with a directory's entry stood before; or it ends with that
\* directory, and the entry found all those on the way to it.
StoodOrMade(p, l, e) ==
  LET path == offered[e].entry.path
  IN  \/ Stands(p, l, e - 1) /\ \A n \in 1 .. l : ~ Makes(e, SubSeq(p, 1, n))
      \/ /\ l >= 1 /\ Makes(e, SubSeq(p, 1, l)) /\ Store!Parent(path) # Missing
         /\ Store!Parent(path) # Unset => Store!Place(path) = SubSeq(p, 1, l)

\* The directory's entry alone can bring what did not stand before.
LEMMA DirectoryEntryStands ==
  ASSUME OfferedFits, NEW e \in DOMAIN offered, LoadedAs(e - 1, Directories, Contents),
         NEW p \in Seq(NodeNames), NEW l \in 0 .. Len(p), Stands(p, l, e)
  PROVE  StoodOrMade(p, l, e)
<1>1. e \in Nat \ {0} /\ l \in Nat
  BY DEF OfferedFits
<1>2. PICK path : path = offered[e].entry.path
  OBVIOUS
<1>3. CASE \A n \in 1 .. l : ~ Makes(e, SubSeq(p, 1, n))
  <2>1. l \in 0 .. l
    BY <1>1
  <2>2. Stands(p, l, e - 1)
    BY <1>1, <1>3, <2>1, StandsBefore
  <2> QED BY <1>3, <2>2 DEF StoodOrMade
<1>4. ASSUME NEW n \in 1 .. l, Makes(e, SubSeq(p, 1, n)) PROVE n = l
  <2>1. ASSUME n < l PROVE FALSE
    <3>1. n \in 1 .. l - 1 /\ n + 1 \in 1 .. l /\ e \in 1 .. e
      BY <1>1, <2>1
    <3>2. PICK d \in 1 .. e : Makes(d, SubSeq(p, 1, n + 1))
      BY <3>1 DEF Stands
    <3>3. e < d
      BY <1>4, <3>1, <3>2 DEF Stands
    <3> QED BY <1>1, <3>3
  <2> QED BY <1>1, <2>1
<1>5. CASE \E n \in 1 .. l : Makes(e, SubSeq(p, 1, n))
  <2>1. l >= 1 /\ Makes(e, SubSeq(p, 1, l))
    <3>1. PICK n \in 1 .. l : Makes(e, SubSeq(p, 1, n))
      BY <1>5
    <3>2. n = l
      BY <1>4, <3>1
    <3> QED BY <1>1, <3>1, <3>2
  <2>2. PICK t : t = SubSeq(p, 1, l)
    OBVIOUS
  <2>3. t \in Seq(NodeNames) /\ Len(t) = l
    BY <1>1, <2>2, PrefixFits
  <2>4. MadeFits(e, t)
    BY <2>1, <2>2, MakersFit
  <2>5. ASSUME NEW n \in 1 .. l - 1 PROVE SubSeq(t, 1, n) \in Directories
    <3>1. n \in 0 .. l /\ n \in 0 .. Len(p)
      BY <1>1
    <3>2. \A k \in 1 .. n : ~ Makes(e, SubSeq(p, 1, k))
      <4>1. ASSUME NEW k \in 1 .. n, Makes(e, SubSeq(p, 1, k)) PROVE FALSE
        <5>1. k \in 1 .. l /\ k # l
          BY <1>1
        <5> QED BY <1>4, <4>1, <5>1
      <4> QED BY <4>1
    <3>3. Stands(p, n, e - 1)
      BY <1>1, <3>1, <3>2, StandsBefore
    <3>4. SubSeq(p, 1, n) \in Directories
      BY <3>1, <3>3 DEF LoadedAs
    <3>5. SubSeq(t, 1, n) = SubSeq(p, 1, n)
      BY <1>1, <2>2, <3>1, PrefixOfPrefix
    <3> QED BY <3>4, <3>5
  <2>6. \/ Store!Parent(path) = Unset
        \/ Store!Place(path) = t /\ Store!Parent(path) \notin {Missing, Unset}
    BY <1>2, <2>1, <2>3, <2>4, <2>5 DEF MadeFits
  <2>7. Store!Parent(path) # Missing /\ (Store!Parent(path) # Unset => Store!Place(path) = t)
    BY <2>6, ErrorsAreNoPlaces
  <2> QED BY <1>2, <2>1, <2>2, <2>7 DEF StoodOrMade
<1> QED BY <1>3, <1>5

\* What a directory's entry hides lies beyond the directory it makes; one
\* that makes the root again, or a dot in it, hides nothing an entry names.
LEMMA HiddenLiesBeyond ==
  ASSUME OfferedFits, NEW e \in DOMAIN offered, IsDir(e), Store!Found(offered[e].entry.path),
         NEW q \in Seq(NodeNames), q = Store!Place(offered[e].entry.path),
         NEW r \in Seq(NodeNames), Store!IsStrictPrefix(q, r)
  PROVE  \/ \E n \in 1 .. Len(r) - 1 : Makes(e, SubSeq(r, 1, n))
         \/ Len(r) >= 1 /\ r[1] \in {".", Empty}
<1>1. PICK path : path = offered[e].entry.path
  OBVIOUS
<1>2. PICK t : t = DirPath(e)
  OBVIOUS
<1>3. Makes(e, t)
  BY <1>2 DEF Makes
<1>4. MadeFits(e, t)
  BY <1>3, MakersFit
<1>5. t \in Seq(NodeNames) /\ Len(t) \in Nat
  BY <1>4 DEF MadeFits
<1>6. Under(q, r) /\ q # r
  BY StrictlyUnder
<1>7. CASE Len(t) = 0
  <2>1. q \in {<<".">>, <<Empty>>}
    BY <1>4, <1>7 DEF MadeFits
  <2>2. Len(q) = 1 /\ q[1] \in {".", Empty}
    BY <2>1
  <2>3. 1 \in 1 .. Len(q) /\ Len(r) >= 1
    BY <1>6, <2>2 DEF Under
  <2>4. r[1] = q[1]
    BY <1>6, <2>3 DEF Under
  <2> QED BY <2>2, <2>3, <2>4
<1>8. CASE Len(t) >= 1
  <2>1. q = t
    BY <1>4, <1>8 DEF MadeFits, Store!Found
  <2>2. PICK n \in Nat : n = Len(t) /\ n <= Len(r) /\ n >= 1 /\ \A k \in 1 .. n : r[k] = t[k]
    BY <1>5, <1>6, <1>8, <2>1 DEF Under
  <2>3. SubSeq(r, 1, n) = t
    <3>1. PICK u : u = SubSeq(r, 1, n)
      OBVIOUS
    <3>2. u \in Seq(NodeNames) /\ Len(u) = n /\ \A k \in 1 .. n : u[k] = r[k]
      BY <2>2, <3>1, PrefixFits
    <3>3. Len(u) = Len(t) /\ \A k \in 1 .. Len(u) : u[k] = t[k]
      BY <2>2, <3>2
    <3>4. u = t
      BY <1>5, <3>2, <3>3, SeqEqual
    <3> QED BY <3>1, <3>4
  <2>4. n # Len(r)
    <3>1. ASSUME n = Len(r) PROVE FALSE
      <4>1. Len(t) = Len(r) /\ \A k \in 1 .. Len(t) : t[k] = r[k]
        BY <2>2, <3>1
      <4>2. t = r
        BY <1>5, <4>1, SeqEqual
      <4> QED BY <1>6, <2>1, <4>2
    <3> QED BY <3>1
  <2>5. n \in 1 .. Len(r) - 1
    BY <2>2, <2>4
  <2> QED BY <1>3, <2>3, <2>5
<1> QED BY <1>5, <1>7, <1>8

\* Where a prefix of one starts.
LEMMA PrefixStarts ==
  ASSUME OfferedFits, NEW p \in Seq(NodeNames), NEW l \in 1 .. Len(p), NEW j,
         NEW e \in DOMAIN offered, j \in 0 .. e, Stands(p, l, j)
  PROVE  p[1] # "." /\ p[1] # Empty
<1>1. 1 \in 1 .. l
  OBVIOUS
<1>2. PICK a \in 1 .. j : Makes(a, SubSeq(p, 1, 1))
  BY <1>1 DEF Stands
<1>3. a \in DOMAIN offered
  BY DEF OfferedFits
<1>4. PICK t : t = SubSeq(p, 1, 1)
  OBVIOUS
<1>5. Len(t) = 1 /\ t[1] = p[1]
  <2>1. 1 \in Nat /\ 1 <= Len(p)
    OBVIOUS
  <2>2. t \in Seq(NodeNames) /\ Len(t) = 1 /\ \A k \in 1 .. 1 : t[k] = p[k]
    BY <1>4, <2>1, PrefixFits
  <2> QED BY <2>2
<1>6. MadeFits(a, t)
  BY <1>2, <1>3, <1>4, MakersFit
<1> QED BY <1>5, <1>6 DEF MadeFits

\* An entry of a directory makes the directory, whatever was at its place or
\* under it, and takes nothing that an entry after it does not.
LEMMA DirectoryEntryLoads ==
  ASSUME OfferedFits, NEW e \in DOMAIN offered, LoadedAs(e - 1, Directories, Contents),
         IsDir(e), Store!Found(offered[e].entry.path),
         NEW q \in Seq(NodeNames), q = Store!Place(offered[e].entry.path), NEW d, NEW c,
         d = {r \in Directories : ~ Store!IsStrictPrefix(q, r)} \cup {q},
         c = [r \in {s \in DOMAIN Contents : ~ Store!IsStrictPrefix(q, s)} |-> Contents[r]]
  PROVE  LoadedAs(e, d, c)
<1>0. e \in Nat \ {0} /\ e - 1 \in 0 .. e /\ DOMAIN offered = 1 .. Len(offered)
  BY DEF OfferedFits
<1>1. ASSUME NEW p \in Seq(NodeNames), NEW l \in 0 .. Len(p), Stands(p, l, e)
      PROVE  SubSeq(p, 1, l) \in d
  <2>0. StoodOrMade(p, l, e)
    BY <1>1, DirectoryEntryStands
  <2>1. CASE Stands(p, l, e - 1) /\ \A n \in 1 .. l : ~ Makes(e, SubSeq(p, 1, n))
    <3>1. PICK s : s = SubSeq(p, 1, l)
      OBVIOUS
    <3>2. s \in Directories
      BY <2>1, <3>1 DEF LoadedAs
    <3>3. s \in Seq(NodeNames) /\ Len(s) = l /\ \A k \in 1 .. l : s[k] = p[k]
      BY <3>1, PrefixFits
    <3>4. ~ \E n \in 1 .. Len(s) - 1 : Makes(e, SubSeq(s, 1, n))
      <4>1. ASSUME NEW n \in 1 .. l - 1 PROVE ~ Makes(e, SubSeq(s, 1, n))
        <5>1. n \in 0 .. l /\ n \in 1 .. l
          OBVIOUS
        <5>2. SubSeq(s, 1, n) = SubSeq(p, 1, n)
          BY <3>1, <5>1, PrefixOfPrefix
        <5> QED BY <2>1, <5>1, <5>2
      <4> QED BY <3>3, <4>1
    <3>5. ~ (Len(s) >= 1 /\ s[1] \in {".", Empty})
      <4>1. ASSUME l >= 1 PROVE s[1] \notin {".", Empty}
        <5>1. l \in 1 .. Len(p)
          BY <4>1
        <5>2. p[1] # "." /\ p[1] # Empty
          BY <1>0, <2>1, <5>1, PrefixStarts
        <5>3. s[1] = p[1]
          BY <3>3, <4>1
        <5> QED BY <5>2, <5>3
      <4> QED BY <3>3, <4>1
    <3>6. ~ Store!IsStrictPrefix(q, s)
      BY <3>3, <3>4, <3>5, HiddenLiesBeyond
    <3> QED BY <3>1, <3>2, <3>6
  <2>2. CASE /\ Store!Parent(offered[e].entry.path) # Unset
                  => Store!Place(offered[e].entry.path) = SubSeq(p, 1, l)
    BY <2>2 DEF Store!Found
  <2> QED BY <2>0, <2>1, <2>2 DEF StoodOrMade
<1>2. ASSUME NEW k \in 1 .. e, Lasts(k, e)
      PROVE  PathOf(k) \in DOMAIN c /\ c[PathOf(k)] = offered[k].data
  <2>1. k # e
    BY <1>2 DEF Lasts
  <2>2. k \in 1 .. e - 1 /\ k \in DOMAIN offered
    BY <1>0, <2>1
  <2>3. PICK r \in Seq(NodeNames) : r = PathOf(k) /\ Len(r) >= 1 /\ r[1] # "." /\ r[1] # Empty
    <3>1. EntryFits(k) /\ ~ IsDir(k)
      BY <1>2, <2>2, EntriesFit DEF Lasts
    <3>2. 1 \in 1 .. Len(PathOf(k))
      BY <3>1 DEF EntryFits
    <3> QED BY <3>1, <3>2 DEF EntryFits
  <2>4. Lasts(k, e - 1)
    BY <1>0, <1>2, <2>2, <2>3, LastsBefore
  <2>5. r \in DOMAIN Contents /\ Contents[r] = offered[k].data
    BY <2>2, <2>3, <2>4 DEF LoadedAs
  <2>6. ~ \E n \in 1 .. Len(r) - 1 : Makes(e, SubSeq(r, 1, n))
    <3>1. e \in 1 .. e /\ ~ (e < k)
      BY <1>0
    <3> QED BY <1>2, <2>3, <3>1 DEF Lasts
  <2>7. ~ Store!IsStrictPrefix(q, r)
    BY <2>3, <2>6, HiddenLiesBeyond
  <2> QED BY <2>3, <2>5, <2>7
<1>3. ASSUME NEW r \in DOMAIN c
      PROVE  \E k \in DOMAIN offered : r = PathOf(k) /\ c[r] = offered[k].data
  <2>1. r \in DOMAIN Contents /\ c[r] = Contents[r]
    OBVIOUS
  <2> QED BY <2>1 DEF LoadedAs
<1> HIDE DEF LoadedAs
<1>4. /\ \A p \in Seq(NodeNames) : \A l \in 0 .. Len(p) :
           Stands(p, l, e) => SubSeq(p, 1, l) \in d
      /\ \A k \in 1 .. e :
           Lasts(k, e) => PathOf(k) \in DOMAIN c /\ c[PathOf(k)] = offered[k].data
      /\ \A r \in DOMAIN c : \E k \in DOMAIN offered : r = PathOf(k) /\ c[r] = offered[k].data
  BY <1>1, <1>2, <1>3
<1> QED BY <1>4 DEF LoadedAs

\* An entry of a file makes no directory.
LEMMA FileEntryStands ==
  ASSUME OfferedFits, NEW e \in DOMAIN offered, LoadedAs(e - 1, Directories, Contents),
         ~ IsDir(e), NEW p \in Seq(NodeNames), NEW l \in 0 .. Len(p), Stands(p, l, e)
  PROVE  SubSeq(p, 1, l) \in Directories
<1>1. e \in Nat \ {0} /\ l \in Nat /\ l \in 0 .. l
  BY DEF OfferedFits
<1>2. \A n \in 1 .. l : ~ Makes(e, SubSeq(p, 1, n))
  BY DEF Makes
<1>3. Stands(p, l, e - 1)
  BY <1>1, <1>2, StandsBefore
<1> QED BY <1>3 DEF LoadedAs

\* An entry of a file stores it under its name, and replaces no other.
LEMMA FileEntryLoads ==
  ASSUME OfferedFits, NEW e \in DOMAIN offered, LoadedAs(e - 1, Directories, Contents),
         ~ IsDir(e), Store!Found(offered[e].entry.path), NEW c,
         NEW q, q = Store!Place(offered[e].entry.path),
         c = [r \in DOMAIN Contents \cup {q} |->
                IF r = q THEN offered[e].data ELSE Contents[r]]
  PROVE  LoadedAs(e, Directories, c)
<1>0. e \in Nat \ {0} /\ DOMAIN offered = 1 .. Len(offered)
  BY DEF OfferedFits
<1>1. q = PathOf(e)
  <2>1. PICK s \in Seq(NodeNames) :
          s = PathOf(e) /\ Len(s) >= 1 /\ TarLeads(offered[e].entry.path, s, Len(s))
    BY EntriesFit DEF EntryFits
  <2>2. Len(s) # 0
    BY <2>1
  <2>3. q = SubSeq(s, 1, Len(s))
    BY <2>1, <2>2 DEF TarLeads, Store!Found
  <2>4. SubSeq(s, 1, Len(s)) = s
    BY SubSeqFull
  <2> QED BY <2>1, <2>3, <2>4
<1>2. \A p \in Seq(NodeNames) : \A l \in 0 .. Len(p) :
        Stands(p, l, e) => SubSeq(p, 1, l) \in Directories
  BY FileEntryStands
<1>3. ASSUME NEW k \in 1 .. e, Lasts(k, e)
      PROVE  PathOf(k) \in DOMAIN c /\ c[PathOf(k)] = offered[k].data
  <2>1. CASE k = e
    BY <1>1, <2>1
  <2>2. CASE k # e
    <3>1. k \in 1 .. e - 1 /\ k \in DOMAIN offered /\ e \in k + 1 .. e
      BY <1>0, <2>2
    <3>2. Len(PathOf(k)) \in Nat \ {0}
      BY <3>1, EntriesFit DEF EntryFits
    <3>3. Lasts(k, e - 1)
      BY <1>0, <1>3, <3>1, <3>2, LastsBefore
    <3>4. PathOf(k) \in DOMAIN Contents /\ Contents[PathOf(k)] = offered[k].data
      BY <3>1, <3>3 DEF LoadedAs
    <3>5. PathOf(k) # q
      BY <1>1, <1>3, <3>1 DEF Lasts
    <3> QED BY <3>4, <3>5
  <2> QED BY <2>1, <2>2
<1>4. ASSUME NEW r \in DOMAIN c
      PROVE  \E k \in DOMAIN offered : r = PathOf(k) /\ c[r] = offered[k].data
  <2>1. CASE r = q
    BY <1>1, <2>1
  <2>2. CASE r # q
    <3>1. r \in DOMAIN Contents /\ c[r] = Contents[r]
      BY <2>2
    <3> QED BY <3>1 DEF LoadedAs
  <2> QED BY <2>1, <2>2
<1> QED BY <1>2, <1>3, <1>4 DEF LoadedAs

\* An entry that comes before its directory's leaves all as it was.
LEMMA EntryFailsToLoad ==
  ASSUME OfferedFits, NEW e \in DOMAIN offered, LoadedAs(e - 1, Directories, Contents),
         Store!Parent(offered[e].entry.path) = Missing
  PROVE  LoadedAs(e, Directories, Contents)
<1>0. e \in Nat \ {0} /\ DOMAIN offered = 1 .. Len(offered) /\ Missing # Unset
  BY ErrorsAreNoPlaces DEF OfferedFits
<1>1. ASSUME NEW p \in Seq(NodeNames), NEW l \in 0 .. Len(p), Stands(p, l, e)
      PROVE  SubSeq(p, 1, l) \in Directories
  <2>1. StoodOrMade(p, l, e)
    BY <1>1, DirectoryEntryStands
  <2>2. Stands(p, l, e - 1)
    BY <2>1 DEF StoodOrMade
  <2> QED BY <2>2 DEF LoadedAs
<1>2. ASSUME NEW k \in 1 .. e, Lasts(k, e)
      PROVE  PathOf(k) \in DOMAIN Contents /\ Contents[PathOf(k)] = offered[k].data
  <2>1. EntryFits(k)
    BY <1>0, EntriesFit
  <2>2. k # e
    <3>1. ASSUME k = e PROVE FALSE
      <4>1. PICK s \in Seq(NodeNames) :
              s = PathOf(e) /\ Len(s) >= 1 /\ TarLeads(offered[e].entry.path, s, Len(s))
        BY <1>2, <2>1, <3>1 DEF EntryFits, Lasts
      <4>2. PICK l \in Nat : l = Len(s) - 1 /\ Len(s) = l + 1 /\ Len(s) # 0
        BY <4>1
      <4>3. ~ IsDir(e) /\ Stands(s, l, e)
        BY <1>2, <3>1, <4>1, <4>2 DEF Lasts
      <4>4. PICK n \in 1 .. l : SubSeq(s, 1, n) \notin Directories
        BY <1>0, <4>1, <4>2 DEF TarLeads
      <4>5. n \in 0 .. Len(s) /\ n \in 0 .. l
        BY <4>2
      <4>6. Stands(s, n, e)
        <5>1. \A k_1 \in 1 .. n : k_1 \in 1 .. l
          BY <4>2
        <5>2. \A k_1 \in 1 .. n - 1 : k_1 \in 1 .. l - 1
          BY <4>2
        <5> QED BY <4>3, <5>1, <5>2 DEF Stands
      <4> QED BY <4>3, <4>4, <4>5, <4>6, FileEntryStands
    <3> QED BY <3>1
  <2>3. k \in 1 .. e - 1 /\ Len(PathOf(k)) \in Nat \ {0}
    BY <1>0, <2>1, <2>2 DEF EntryFits
  <2>4. Lasts(k, e - 1)
    BY <1>0, <1>2, <2>3, LastsBefore
  <2> QED BY <2>3, <2>4 DEF LoadedAs
<1>3. \A r \in DOMAIN Contents : \E k \in DOMAIN offered :
        r = PathOf(k) /\ Contents[r] = offered[k].data
  BY DEF LoadedAs
<1> QED BY <1>1, <1>2, <1>3 DEF LoadedAs

\* What the entries that were there leave, they leave when others follow them.
LEMMA OffersStay ==
  ASSUME NEW j \in Nat, 1 .. j \subseteq DOMAIN offered, DOMAIN offered \subseteq DOMAIN offered',
         \A k \in DOMAIN offered : offered'[k] = offered[k],
         NEW d, NEW c, LoadedAs(j, d, c)
  PROVE  LoadedAs(j, d, c)'
<1>1. \A k \in DOMAIN offered : PathOf(k)' = PathOf(k)
  BY DEF PathOf
<1>2. \A k \in DOMAIN offered : \A p : Makes(k, p)' = Makes(k, p)
  BY <1>1 DEF Makes, IsDir, DirPath
<1>3. \A k \in 1 .. j : k \in DOMAIN offered
  OBVIOUS
<1>4. ASSUME NEW p, NEW l PROVE Stands(p, l, j)' = Stands(p, l, j)
  BY <1>2, <1>3 DEF Stands
<1>5. ASSUME NEW k \in 1 .. j, Lasts(k, j)' PROVE Lasts(k, j)
  <2>1. PICK p : p = PathOf(k) /\ p = PathOf(k)'
    BY <1>1, <1>3
  <2>2. IsDir(k)' = IsDir(k)
    BY <2>1 DEF IsDir
  <2>3. Stands(p, Len(p) - 1, j)
    <3>1. Stands(p, Len(p) - 1, j)'
      BY <1>5, <2>1 DEF Lasts
    <3> QED BY <1>4, <3>1
  <2>4. \A n \in 1 .. Len(p) - 1 : \A a \in 1 .. j : Makes(a, SubSeq(p, 1, n)) => a < k
    BY <1>2, <1>3, <1>5, <2>1 DEF Lasts
  <2>5. \A a \in k + 1 .. j : PathOf(a) # p
    <3>1. \A a \in k + 1 .. j : a \in 1 .. j
      OBVIOUS
    <3> QED BY <1>1, <1>3, <1>5, <2>1, <3>1 DEF Lasts
  <2> QED BY <1>5, <2>1, <2>2, <2>3, <2>4, <2>5 DEF Lasts
<1>6. \A p \in Seq(NodeNames) : \A l \in 0 .. Len(p) :
        Stands(p, l, j)' => SubSeq(p, 1, l) \in d
  BY <1>4 DEF LoadedAs
<1>7. \A k \in 1 .. j :
        Lasts(k, j)' => PathOf(k)' \in DOMAIN c /\ c[PathOf(k)'] = offered'[k].data
  BY <1>1, <1>3, <1>5 DEF LoadedAs
<1>8. \A r \in DOMAIN c : \E k \in DOMAIN offered' : r = PathOf(k)' /\ c[r] = offered'[k].data
  BY <1>1 DEF LoadedAs
<1> QED BY <1>6, <1>7, <1>8 DEF LoadedAs

\* The file system holds what the entries gone through leave.
Loaded == LoadedAs(Done, Directories, Contents)

\* The same of the state after a step, where its parts are known.
LEMMA LoadedNext ==
  ASSUME NEW j, NEW d, NEW c, j = Done', d = Directories', c = Contents', LoadedAs(j, d, c)'
  PROVE  Loaded'
BY DEF Loaded, LoadedAs, Stands, Lasts, Makes, IsDir, DirPath, PathOf

\* The entries of a module's archive.
LEMMA ArchivesFit ==
  ASSUME BootPlace, NEW n \in DOMAIN modules
  PROVE  /\ modules[n].archive \in Seq([path : Paths, size : Nat])
         /\ \A k \in DOMAIN modules[n].archive : IsTarName(modules[n].archive[k].path)
<1>1. modules \in ModuleLists /\ modules \in Seq(Modules)
  BY RamdiskAssumption DEF BootPlace
<1>2. modules[n] \in Modules
  BY <1>1
<1> QED BY <1>1, <1>2, ArchiveAssumption DEF Modules

\* The entry the reader comes to is the first not gone through.
EntryIs(e) ==
  /\ pc = "ramdisk" /\ e \in DOMAIN offered /\ e \in Nat \ {0} /\ e = Done + 1 /\ Done = e - 1
  /\ i < Len(archive) /\ Len(archive) \in Nat /\ i \in Nat
  /\ offered[e].entry.path = Entry.path /\ offered[e].data = DataOfEntry

\* Where the reader has not come to the end, there is such an entry.
LEMMA EntryComesNext ==
  ASSUME OfferedFits, BootPlace, pc = "ramdisk", TarBlock_read(i) > 0
  PROVE  \E e : EntryIs(e)
<1>1. TarBlock_read(i) = i + 1 /\ i < Len(archive) /\ i \in Nat
  BY DEF TarBlock_read, BootPlace
<1>2. m \in DOMAIN modules
  BY RamdiskAssumption DEF BootPlace
<1>3. PICK L \in Nat : L = Len(archive)
  BY <1>2, ArchivesFit DEF archive
<1>4. PICK N \in Nat : N = Len(offered) /\ L <= N
  BY <1>3 DEF OfferedFits
<1>5. Done = N - L + i
  BY <1>3, <1>4 DEF Done
<1>6. PICK k \in 1 .. L : k = i + 1
  BY <1>1, <1>3
<1>7. offered[N - L + k] = [entry |-> archive[k], data |-> <<m, k>>]
  BY <1>3, <1>4 DEF OfferedFits
<1>8. PICK e \in 1 .. N : e = N - L + k
  <2>1. N - L + k \in 1 .. N
    BY <1>3, <1>4, <1>6
  <2> QED BY <2>1
<1>9. e = Done + 1 /\ Done = e - 1
  BY <1>1, <1>3, <1>4, <1>5, <1>6, <1>8
<1>10. offered[e].entry.path = Entry.path /\ offered[e].data = DataOfEntry
  BY <1>1, <1>6, <1>7, <1>8 DEF Entry, DataOfEntry
<1>11. e \in DOMAIN offered
  BY <1>4 DEF OfferedFits
<1>12. EntryIs(e)
  BY <1>1, <1>3, <1>9, <1>10, <1>11 DEF EntryIs
<1> QED BY <1>12

\* When the reader goes on, it has gone through that entry.
LEMMA ReaderGoesOn ==
  ASSUME OfferedFits, NEW e, EntryIs(e), i' = i + 1, UNCHANGED <<pc, modules, m, offered>>
  PROVE  OfferedFits' /\ Done' = e
<1>1. archive' = archive
  BY DEF archive
<1>2. PICK N \in Nat : N = Len(offered)
  BY DEF OfferedFits
<1>3. Done' = e
  BY <1>1, <1>2 DEF Done, EntryIs
<1>4. i' <= Len(archive)
  BY DEF EntryIs
<1>5. OfferedFits'
  BY <1>1, <1>4 DEF OfferedFits
<1> QED BY <1>3, <1>5

\* The entries of the next archive follow those before.
OffersGrow(N, L) ==
  /\ N \in Nat /\ L \in Nat /\ N = Len(offered) /\ L = Len(archive')
  /\ offered' \in Seq(Offers) /\ Len(offered') = N + L
  /\ \A k \in 1 .. N : offered'[k] = offered[k]
  /\ \A k \in 1 .. L : /\ offered'[N + k] = [entry |-> archive'[k], data |-> <<m + 1, k>>]
                       /\ IsTarName(archive'[k].path)

\* Starting an archive offers its entries.
LEMMA StartOffers ==
  ASSUME OfferedFits, BootPlace, StartRamdisk
  PROVE  \E N, L : OffersGrow(N, L)
<1>1. m \in Nat /\ m + 1 \in DOMAIN modules
  BY RamdiskAssumption DEF BootPlace, StartRamdisk
<1>2. archive' = modules[m + 1].archive
  BY DEF StartRamdisk, archive
<1>3. PICK a \in Seq([path : Paths, size : Nat]) :
        a = archive' /\ \A k \in DOMAIN a : IsTarName(a[k].path)
  BY <1>1, <1>2, ArchivesFit
<1>4. PICK L \in Nat : L = Len(a) /\ DOMAIN a = 1 .. L
  OBVIOUS
<1>5. PICK N \in Nat : N = Len(offered) /\ offered \in Seq(Offers)
  BY DEF OfferedFits
<1>6. PICK new : new = [k \in 1 .. L |-> [entry |-> a[k], data |-> <<m + 1, k>>]]
  OBVIOUS
<1>7. \A k \in 1 .. L : [entry |-> a[k], data |-> <<m + 1, k>>] \in Offers
  <2>1. ASSUME NEW k \in 1 .. L PROVE [entry |-> a[k], data |-> <<m + 1, k>>] \in Offers
    <3>1. a[k] \in [path : Paths, size : Nat]
      BY <1>3, <1>4, ElementOfSeq
    <3>2. <<m + 1, k>> \in Nat \X Nat
      BY <1>1
    <3> QED BY <3>1, <3>2 DEF Offers
  <2> QED BY <2>1
<1>8. new \in Seq(Offers) /\ Len(new) = L
  BY <1>6, <1>7
<1>9. offered' = offered \o new
  BY <1>2, <1>3, <1>4, <1>6 DEF StartRamdisk
<1>10. /\ offered \o new \in Seq(Offers) /\ Len(offered \o new) = N + L
       /\ \A k \in 1 .. N : (offered \o new)[k] = offered[k]
       /\ \A k \in 1 .. L : (offered \o new)[N + k] = new[k]
  <2>1. PICK both : both = offered \o new
    OBVIOUS
  <2>2. /\ both \in Seq(Offers) /\ Len(both) = Len(offered) + Len(new)
        /\ \A k \in 1 .. Len(offered) : both[k] = offered[k]
        /\ \A k \in 1 .. Len(new) : both[Len(offered) + k] = new[k]
    <3>1. offered \in Seq(Offers) /\ new \in Seq(Offers)
      BY <1>5, <1>8
    <3> QED BY <2>1, <3>1, ConcatGives
  <2>3. Len(offered) = N /\ Len(new) = L
    BY <1>5, <1>8
  <2> QED BY <2>1, <2>2, <2>3
<1>11. OffersGrow(N, L)
  BY <1>3, <1>4, <1>5, <1>6, <1>9, <1>10 DEF OffersGrow
<1> QED BY <1>11

\* The entries of an archive that is started are offered, under data of their
\* own, and none is gone through yet.
LEMMA StartOffersFits ==
  ASSUME OfferedFits, BootPlace, StartRamdisk
  PROVE  OfferedFits' /\ Done' = Len(offered)
<1>1. PICK N, L : OffersGrow(N, L)
  BY StartOffers
<1>2. /\ N \in Nat /\ L \in Nat /\ N = Len(offered) /\ L = Len(archive')
      /\ offered' \in Seq(Offers) /\ Len(offered') = N + L /\ DOMAIN offered' = 1 .. N + L
      /\ DOMAIN offered = 1 .. N /\ m \in Nat
      /\ \A k \in 1 .. N : offered'[k] = offered[k]
      /\ \A k \in 1 .. L : /\ offered'[N + k] = [entry |-> archive'[k], data |-> <<m + 1, k>>]
                           /\ IsTarName(archive'[k].path)
  BY <1>1 DEF OffersGrow, OfferedFits, BootPlace
<1>3. pc' = "ramdisk" /\ m' = m + 1 /\ i' = 0
  BY DEF StartRamdisk
<1>4. ASSUME NEW k \in N + 1 .. N + L
      PROVE  /\ offered'[k].data[1] = m + 1 /\ offered'[k].data[2] = k - N
             /\ IsTarName(offered'[k].entry.path)
  <2>1. PICK l \in 1 .. L : l = k - N /\ k = N + l
    <3>1. k - N \in 1 .. L /\ k = N + (k - N)
      BY <1>2
    <3> QED BY <3>1
  <2>2. /\ offered'[k] = [entry |-> archive'[l], data |-> <<m + 1, l>>]
        /\ IsTarName(archive'[l].path)
    BY <1>2, <2>1
  <2>3. offered'[k].entry = archive'[l] /\ offered'[k].data = <<m + 1, l>>
    BY <2>2
  <2> QED BY <2>1, <2>2, <2>3
<1>5. ASSUME NEW k \in DOMAIN offered'
      PROVE  IsTarName(offered'[k].entry.path) /\ offered'[k].data[1] <= m + 1
  <2>1. CASE k \in 1 .. N
    <3>1. offered[k] \in Offers /\ IsTarName(offered[k].entry.path) /\ offered[k].data[1] <= m
      BY <1>2, <2>1 DEF OfferedFits
    <3>2. offered[k].data[1] \in Nat
      BY <3>1 DEF Offers
    <3> QED BY <1>2, <2>1, <3>1, <3>2
  <2>2. CASE k \in N + 1 .. N + L
    BY <1>2, <1>4, <2>2
  <2> QED BY <1>2, <2>1, <2>2
<1>6. ASSUME NEW k \in DOMAIN offered', NEW l \in DOMAIN offered', offered'[k].data = offered'[l].data
      PROVE  k = l
  <2>1. \A j \in 1 .. N : offered'[j].data[1] # m + 1
    <3>1. ASSUME NEW j \in 1 .. N PROVE offered'[j].data[1] # m + 1
      <4>1. offered[j] \in Offers /\ offered[j].data[1] <= m
        BY <1>2 DEF OfferedFits
      <4>2. offered[j].data[1] \in Nat
        BY <4>1 DEF Offers
      <4> QED BY <1>2, <4>1, <4>2
    <3> QED BY <3>1
  <2>2. \A j \in N + 1 .. N + L : offered'[j].data[1] = m + 1 /\ offered'[j].data[2] = j - N
    BY <1>4
  <2>3. CASE k \in 1 .. N /\ l \in 1 .. N
    BY <1>2, <1>6, <2>3 DEF OfferedFits
  <2>4. CASE k \in N + 1 .. N + L /\ l \in N + 1 .. N + L
    <3>1. k - N = l - N
      BY <1>6, <2>2, <2>4
    <3> QED BY <1>2, <2>4, <3>1
  <2>5. ~ (k \in 1 .. N /\ l \in N + 1 .. N + L) /\ ~ (k \in N + 1 .. N + L /\ l \in 1 .. N)
    BY <1>6, <2>1, <2>2
  <2> QED BY <1>2, <2>3, <2>4, <2>5
<1>7. /\ i' <= Len(archive') /\ Len(archive') <= Len(offered')
      /\ \A k \in 1 .. Len(archive') :
           offered'[Len(offered') - Len(archive') + k] = [entry |-> archive'[k], data |-> <<m', k>>]
  <2>1. Len(offered') - Len(archive') = N
    BY <1>2
  <2> QED BY <1>2, <1>3, <2>1
<1>8. OfferedFits'
  BY <1>2, <1>3, <1>5, <1>6, <1>7 DEF OfferedFits
<1>9. Done' = N
  BY <1>2, <1>3 DEF Done
<1> QED BY <1>2, <1>8, <1>9

\* What there is to find stays as the entries gone through leave it.
LoadInv ==
  /\ TreeInv /\ BootPlace /\ OfferedFits
  /\ pc # "panic" => Loaded
  /\ copied # -1 => pc = "stopped"
  /\ MainReadsWithin

\* An entry gone through has left what it leaves.
LEMMA EntryIsLoaded ==
  ASSUME LoadInv, TreeInv', LoadEntry
  PROVE  OfferedFits' /\ Loaded'
<1>1. PICK e : EntryIs(e)
  BY EntryComesNext DEF LoadInv, LoadEntry
<1>2. OfferedFits' /\ Done' = e
  BY <1>1, ReaderGoesOn DEF LoadInv, LoadEntry
<1>3. PICK path \in Paths, data \in Data : path = Entry.path /\ data = DataOfEntry
  BY EntryIsListed DEF LoadInv, LoadEntry
<1>4. /\ e \in DOMAIN offered /\ e \in Nat \ {0} /\ OfferedFits /\ TreeInv
      /\ offered[e].entry.path = path /\ offered[e].data = data
      /\ LoadedAs(e - 1, Directories, Contents)
      /\ 1 .. e \subseteq DOMAIN offered
  <2>1. LoadedAs(Done, Directories, Contents)
    BY DEF LoadInv, Loaded, LoadEntry
  <2>2. Done = e - 1 /\ e \in DOMAIN offered /\ e \in Nat \ {0}
    BY <1>1 DEF EntryIs
  <2>3. 1 .. e \subseteq DOMAIN offered
    BY <2>2 DEF LoadInv, OfferedFits
  <2> QED BY <1>1, <1>3, <2>1, <2>2, <2>3 DEF EntryIs, LoadInv
<1>5. EntryFits(e)
  BY <1>4, EntriesFit
<1>6. PICK d, c : d = Directories' /\ c = Contents'
  OBVIOUS
<1>7. LoadedAs(e, d, c)
  <2>1. CASE IsDirectory(path)
    <3>1. directory_create(path)
      BY <1>3, <2>1 DEF LoadEntry
    <3>2. Store!Found(path) /\ Store!Place(path) \in Seq(NodeNames) /\ DirectoryStored(Store!Place(path))
      BY <1>4, <3>1, DirectoryCreateStores
    <3>3. PICK q \in Seq(NodeNames) : q = Store!Place(path)
      BY <3>2
    <3>4. /\ d = {r \in Directories : ~ Store!IsStrictPrefix(q, r)} \cup {q}
          /\ c = [r \in {s \in DOMAIN Contents : ~ Store!IsStrictPrefix(q, s)} |-> Contents[r]]
      BY <1>6, <3>2, <3>3 DEF DirectoryStored
    <3>5. IsDir(e)
      BY <1>4, <1>5, <2>1 DEF EntryFits
    <3> QED BY <1>4, <3>2, <3>3, <3>4, <3>5, DirectoryEntryLoads
  <2>2. CASE ~ IsDirectory(path)
    <3>1. file_create(path, data)
      BY <1>3, <2>2 DEF LoadEntry
    <3>2. Store!Found(path) /\ FileStored(Store!Place(path), data)
      BY <1>4, <3>1, FileCreateStores
    <3>3. PICK q : q = Store!Place(path)
      OBVIOUS
    <3>4. /\ d = Directories
          /\ c = [r \in DOMAIN Contents \cup {q} |-> IF r = q THEN offered[e].data ELSE Contents[r]]
      BY <1>4, <1>6, <3>2, <3>3 DEF FileStored
    <3>5. ~ IsDir(e)
      BY <1>4, <1>5, <2>2 DEF EntryFits
    <3>6. LoadedAs(e, Directories, c)
      BY <1>4, <3>2, <3>3, <3>4, <3>5, FileEntryLoads
    <3> QED BY <3>4, <3>6
  <2> QED BY <2>1, <2>2
<1>8. LoadedAs(e, d, c)'
  BY <1>4, <1>7, OffersStay DEF LoadEntry
<1>9. Loaded'
  BY <1>2, <1>6, <1>8, LoadedNext
<1> QED BY <1>2, <1>9

\* An entry whose directory is not there leaves nothing, and none is missed.
LEMMA EntryIsPassedOver ==
  ASSUME LoadInv, LoadFails
  PROVE  OfferedFits' /\ Loaded'
<1>1. PICK e : EntryIs(e)
  BY EntryComesNext DEF LoadInv, LoadFails
<1>2. OfferedFits' /\ Done' = e
  BY <1>1, ReaderGoesOn DEF LoadInv, LoadFails
<1>3. PICK path \in Paths : path = Entry.path
  BY EntryIsListed DEF LoadInv, LoadFails
<1>4. /\ e \in DOMAIN offered /\ e \in Nat \ {0} /\ OfferedFits /\ TreeInv
      /\ offered[e].entry.path = path /\ LoadedAs(e - 1, Directories, Contents)
      /\ 1 .. e \subseteq DOMAIN offered
  <2>1. LoadedAs(Done, Directories, Contents)
    BY DEF LoadInv, Loaded, LoadFails
  <2>2. Done = e - 1 /\ e \in DOMAIN offered /\ e \in Nat \ {0}
    BY <1>1 DEF EntryIs
  <2>3. 1 .. e \subseteq DOMAIN offered
    BY <2>2 DEF LoadInv, OfferedFits
  <2> QED BY <1>1, <1>3, <2>1, <2>2, <2>3 DEF EntryIs, LoadInv
<1>5. CreateFails(path)
  BY <1>3 DEF LoadFails
<1>6. Store!Parent(path) = Missing
  BY <1>4, <1>5, PathLeads DEF CreateFails, Spot
<1>7. LoadedAs(e, Directories, Contents)
  BY <1>4, <1>6, EntryFailsToLoad
<1>8. PICK d, c : d = Directories /\ c = Contents /\ d = Directories' /\ c = Contents'
  BY <1>5, TreeUnchanged DEF CreateFails
<1>9. LoadedAs(e, d, c)
  BY <1>7, <1>8
<1>10. LoadedAs(e, d, c)'
  BY <1>4, <1>9, OffersStay DEF LoadFails
<1>11. Loaded'
  BY <1>2, <1>8, <1>10, LoadedNext
<1> QED BY <1>2, <1>11

\* Where the files stay and the reader gets no further, nothing changes.
LEMMA LoadedStays ==
  ASSUME Loaded, OfferedFits, BootPlace, Done' = Done, UNCHANGED <<dirs, files>>,
         Done <= Len(offered), DOMAIN offered \subseteq DOMAIN offered',
         \A k \in DOMAIN offered : offered'[k] = offered[k]
  PROVE  Loaded'
<1>1. PICK d, c : d = Directories /\ c = Contents /\ d = Directories' /\ c = Contents'
  BY TreeUnchanged
<1>2. PICK j \in Nat : j = Done
  <2>1. Done \in Nat
    <3>1. CASE pc = "ramdisk"
      <4>1. m \in DOMAIN modules /\ i \in Nat
        BY <3>1, RamdiskAssumption DEF BootPlace
      <4>2. Len(archive) \in Nat
        BY <4>1, ArchivesFit DEF archive
      <4> QED BY <3>1, <4>1, <4>2 DEF OfferedFits, Done
    <3>2. CASE pc # "ramdisk"
      BY <3>2 DEF OfferedFits, Done
    <3> QED BY <3>1, <3>2
  <2> QED BY <2>1
<1>3. LoadedAs(j, d, c) /\ 1 .. j \subseteq DOMAIN offered
  BY <1>1, <1>2 DEF Loaded, OfferedFits
<1>4. LoadedAs(j, d, c)'
  BY <1>3, OffersStay
<1> QED BY <1>1, <1>2, <1>4, LoadedNext

\* What main reads of the file it finds is no more than its buffer holds, nor
\* than the entry says the file has.
LEMMA ReadFits ==
  ASSUME LoadInv, MainReads
  PROVE  MainReadsWithin' /\ (copied' # -1 => pc' = "stopped")
<1>1. pc = "main" /\ offered' = offered
  BY DEF MainReads
<1>2. copied = -1
  BY <1>1 DEF LoadInv
<1>3. PICK f : f = FileIn(Root, "test.txt")
  OBVIOUS
<1>4. CASE f = 0 /\ pc' = "panic" /\ UNCHANGED copied
  BY <1>1, <1>2, <1>4, RamdiskAssumption DEF MainReadsWithin
<1>5. CASE f # 0 /\ pc' = "stopped" /\ copied' = initrd_read(SizeOf(f), 0, BufferSize)
  <2>1. PICK name \in NodeNames : name = "test.txt" /\ TestFile = <<name>>
    <3>1. TestFile \in Seq(STRING)
      BY RamdiskAssumption, FileSystemAssumption
    <3>2. TestFile[1] = "test.txt" /\ Len(TestFile) = 1
      BY DEF TestFile
    <3>3. TestFile[1] \in STRING
      BY <3>1, <3>2, ElementOfSeq
    <3> QED BY <3>2, <3>3 DEF NodeNames, TestFile
  <2>2. PICK g : g = Leader(dirs[Root].files, files, name)
    OBVIOUS
  <2>3. f = g
    BY <1>3, <2>1, <2>2 DEF FileIn, Leader
  <2>4. TreeInv /\ Root \in Visible /\ PlaceOf[Root] = <<>>
    BY VisibleOfTree, PlacesOfTree DEF LoadInv, VisibleFits, PlacesFit
  <2>5. /\ Append(PlaceOf[Root], name) \in DOMAIN Contents
        /\ Contents[Append(PlaceOf[Root], name)] = files[f].data
    BY <1>5, <2>2, <2>3, <2>4, FileAt
  <2>6. Append(PlaceOf[Root], name) = TestFile
    BY <2>1, <2>4
  <2>7. PICK k \in DOMAIN offered : TestFile = PathOf(k) /\ files[f].data = offered[k].data
    <3>1. LoadedAs(Done, Directories, Contents)
      BY <1>1 DEF LoadInv, Loaded
    <3> QED BY <2>5, <2>6, <3>1 DEF LoadedAs
  <2>8. SizeOf(f) = offered[k].entry.size
    <3>1. \A l \in DOMAIN offered : offered[l].data = files[f].data => l = k
      BY <2>7 DEF LoadInv, OfferedFits
    <3> QED BY <2>7, <3>1 DEF SizeOf
  <2>9. PICK size \in Nat : size = offered[k].entry.size
    <3>1. offered[k] \in Offers
      BY DEF LoadInv, OfferedFits
    <3> QED BY <3>1 DEF Offers
  <2>10. copied' \in 0 .. BufferSize /\ copied' <= size
    BY <1>5, <2>8, <2>9, RamdiskAssumption DEF initrd_read, Minimum
  <2>11. PathOf(k)' = TestFile /\ k \in DOMAIN offered' /\ offered'[k].entry.size = size
    BY <1>1, <2>7, <2>9 DEF PathOf
  <2> QED BY <1>5, <2>10, <2>11, RamdiskAssumption DEF MainReadsWithin
<1> QED BY <1>3, <1>4, <1>5 DEF MainReads

\* Before main reads, nothing has been copied; after it, nothing is offered.
LEMMA ReadStays ==
  ASSUME LoadInv, UNCHANGED copied, copied = -1 \/ UNCHANGED offered
  PROVE  MainReadsWithin'
<1>1. CASE copied = -1
  BY <1>1, RamdiskAssumption DEF MainReadsWithin
<1>2. CASE UNCHANGED offered
  BY <1>2 DEF LoadInv, MainReadsWithin, PathOf
<1> QED BY <1>1, <1>2

\* The boot keeps its files as its archives have them.
LEMMA LoadInvInductive ==
  ASSUME LoadInv, [RamdiskNext]_ramdiskVars
  PROVE  LoadInv'
<1>1. TreeInv' /\ BootPlace'
  <2>1. [FsNext]_fsVars
    BY BootCallsFileSystem DEF LoadInv
  <2> QED BY <2>1, FsStepKeepsTree, BootPlaceInductive DEF LoadInv
<1>2. OfferedFits /\ BootPlace /\ TreeInv
  BY DEF LoadInv
<1>3. ASSUME pc' # "panic", pc # "ramdisk" \/ i = Len(archive), pc' # "ramdisk",
             UNCHANGED <<dirs, files, offered>>, pc # "panic"
      PROVE  Loaded'
  <2>1. Done = Len(offered) /\ Len(offered) \in Nat
    <3>1. CASE pc = "ramdisk"
      <4>1. m \in DOMAIN modules /\ i \in Nat
        BY <1>2, <3>1, RamdiskAssumption DEF BootPlace
      <4>2. Len(archive) \in Nat
        BY <1>2, <4>1, ArchivesFit DEF archive
      <4>3. Len(offered) \in Nat /\ i = Len(archive)
        BY <1>2, <1>3, <3>1 DEF OfferedFits
      <4>4. Done = Len(offered) - Len(archive) + i
        BY <3>1 DEF Done
      <4> QED BY <4>2, <4>3, <4>4
    <3>2. CASE pc # "ramdisk"
      BY <1>2, <3>2 DEF OfferedFits, Done
    <3> QED BY <3>1, <3>2
  <2>2. Done' = Done
    BY <1>3, <2>1 DEF Done
  <2>3. Loaded
    BY <1>3 DEF LoadInv
  <2> QED BY <1>2, <1>3, <2>1, <2>2, <2>3, LoadedStays
<1>4. ASSUME pc' # "ramdisk", UNCHANGED offered, m' \in Nat, m <= m' PROVE OfferedFits'
  <2>1. \A k \in DOMAIN offered : offered[k].data[1] <= m'
    <3>1. ASSUME NEW k \in DOMAIN offered PROVE offered[k].data[1] <= m'
      <4>1. offered[k] \in Offers /\ offered[k].data[1] <= m
        BY <1>2 DEF OfferedFits
      <4>2. offered[k].data[1] \in Nat /\ m \in Nat
        BY <1>2, <4>1 DEF Offers, BootPlace
      <4> QED BY <1>4, <4>1, <4>2
    <3> QED BY <3>1
  <2> QED BY <1>2, <1>4, <2>1 DEF OfferedFits
<1>5. m \in Nat
  BY <1>2 DEF BootPlace
<1>6. CASE StartRamdisk
  <2>1. OfferedFits' /\ Done' = Len(offered)
    BY <1>2, <1>6, StartOffersFits
  <2>2. Done = Len(offered) /\ Loaded /\ copied = -1
    BY <1>6 DEF StartRamdisk, Done, LoadInv
  <2>3. DOMAIN offered \subseteq DOMAIN offered' /\ \A k \in DOMAIN offered : offered'[k] = offered[k]
    <3>1. PICK N, L : OffersGrow(N, L)
      BY <1>2, <1>6, StartOffers
    <3> QED BY <1>2, <3>1 DEF OffersGrow, OfferedFits
  <2>4. UNCHANGED <<dirs, files, copied>> /\ Len(offered) \in Nat
    BY <1>2, <1>6 DEF StartRamdisk, fsVars, OfferedFits
  <2>5. Loaded'
    BY <1>2, <2>1, <2>2, <2>3, <2>4, LoadedStays
  <2>6. MainReadsWithin'
    BY <2>2, <2>4, ReadStays
  <2> QED BY <1>1, <2>1, <2>2, <2>4, <2>5, <2>6 DEF LoadInv
<1>7. CASE StartUnknown
  <2>1. /\ pc = "modules" /\ pc' = "comparing" /\ UNCHANGED <<dirs, files, offered, copied>> /\ m' = m + 1
    BY <1>7 DEF StartUnknown, fsVars
  <2>2. OfferedFits' /\ Loaded'
    BY <1>3, <1>4, <1>5, <2>1
  <2>3. copied' = -1
    BY <2>1 DEF LoadInv
  <2> QED BY <1>1, <2>1, <2>2, <2>3, ReadStays DEF LoadInv
<1>8. CASE modules_initialize_return
  <2>1. /\ pc = "modules" /\ pc' = "main" /\ UNCHANGED <<dirs, files, offered, copied>> /\ m' = m
    BY <1>8 DEF modules_initialize_return, fsVars
  <2>2. OfferedFits' /\ Loaded'
    BY <1>3, <1>4, <1>5, <2>1
  <2>3. copied' = -1
    BY <2>1 DEF LoadInv
  <2> QED BY <1>1, <2>1, <2>2, <2>3, ReadStays DEF LoadInv
<1>9. CASE LoadEntry
  <2>1. OfferedFits' /\ Loaded'
    BY <1>1, <1>9, EntryIsLoaded
  <2>2. pc = "ramdisk" /\ UNCHANGED <<pc, offered, copied>>
    BY <1>9 DEF LoadEntry
  <2>3. copied' = -1
    BY <2>2 DEF LoadInv
  <2> QED BY <1>1, <2>1, <2>2, <2>3, ReadStays DEF LoadInv
<1>10. CASE LoadFails
  <2>1. OfferedFits' /\ Loaded'
    BY <1>10, EntryIsPassedOver
  <2>2. pc = "ramdisk" /\ UNCHANGED <<pc, offered, copied>>
    BY <1>10 DEF LoadFails
  <2>3. copied' = -1
    BY <2>2 DEF LoadInv
  <2> QED BY <1>1, <2>1, <2>2, <2>3, ReadStays DEF LoadInv
<1>11. CASE LoadHalts
  <2>1. pc = "ramdisk" /\ pc' = "panic" /\ UNCHANGED <<offered, copied, m>>
    BY <1>11 DEF LoadHalts
  <2>2. OfferedFits'
    BY <1>4, <1>5, <2>1
  <2>3. copied' = -1
    BY <2>1 DEF LoadInv
  <2> QED BY <1>1, <2>1, <2>2, <2>3, ReadStays DEF LoadInv
<1>12. CASE EndOfStream
  <2>1. /\ pc = "ramdisk" /\ pc' = "modules" /\ UNCHANGED <<dirs, files, offered, copied>> /\ m' = m
        /\ TarBlock_read(i) = 0
    BY <1>12 DEF EndOfStream, fsVars
  <2>2. i = Len(archive)
    <3>1. m \in DOMAIN modules /\ i \in Nat
      BY <1>2, <2>1, RamdiskAssumption DEF BootPlace
    <3>2. Len(archive) \in Nat /\ i <= Len(archive)
      BY <1>2, <2>1, <3>1, ArchivesFit DEF archive, OfferedFits
    <3>3. ~ (i < Len(archive))
      BY <2>1, <3>1 DEF TarBlock_read
    <3> QED BY <3>1, <3>2, <3>3
  <2>3. OfferedFits' /\ Loaded'
    BY <1>3, <1>4, <1>5, <2>1, <2>2
  <2>4. copied' = -1
    BY <2>1 DEF LoadInv
  <2> QED BY <1>1, <2>1, <2>3, <2>4, ReadStays DEF LoadInv
<1>13. CASE MainReads
  <2>1. pc = "main" /\ UNCHANGED <<dirs, files, offered>> /\ m' = m /\ pc' \in {"panic", "stopped"}
    BY <1>13 DEF MainReads, get_file
  <2>2. OfferedFits' /\ (pc' # "panic" => Loaded')
    BY <1>3, <1>4, <1>5, <2>1
  <2> QED BY <1>1, <1>13, <2>2, ReadFits DEF LoadInv
<1>14. CASE UNCHANGED ramdiskVars
  <2>1. UNCHANGED <<dirs, files, offered, copied, pc, m, i, modules>>
    BY <1>14 DEF ramdiskVars, loaderVars, fsVars
  <2>2. OfferedFits' /\ Done' = Done
    BY <1>2, <2>1 DEF OfferedFits, Done, archive
  <2>3. Loaded => Loaded'
    <3>1. Done <= Len(offered)
      <4>1. CASE pc = "ramdisk"
        <5>1. m \in DOMAIN modules /\ i \in Nat
          BY <1>2, <4>1, RamdiskAssumption DEF BootPlace
        <5>2. Len(archive) \in Nat
          BY <1>2, <5>1, ArchivesFit DEF archive
        <5> QED BY <1>2, <4>1, <5>1, <5>2 DEF OfferedFits, Done
      <4>2. CASE pc # "ramdisk"
        BY <1>2, <4>2 DEF OfferedFits, Done
      <4> QED BY <4>1, <4>2
    <3> QED BY <1>2, <2>1, <2>2, <3>1, LoadedStays
  <2> QED BY <1>1, <2>1, <2>2, <2>3, ReadStays DEF LoadInv
<1> QED BY <1>6, <1>7, <1>8, <1>9, <1>10, <1>11, <1>12, <1>13, <1>14 DEF RamdiskNext

\* An empty file system holds what no entry leaves.
LEMMA LoadInvInitial ==
  ASSUME RamdiskInit
  PROVE  LoadInv
<1>1. initialize_filesystem /\ offered = <<>> /\ pc = "modules" /\ copied = -1 /\ m = 0
  BY DEF RamdiskInit
<1>2. TreeInv /\ Store!StoreInit
  BY <1>1, InitialTree, InitialStore
<1>3. BootPlace
  <2>1. Len(modules) \in Nat /\ modules \in ModuleLists
    BY RamdiskAssumption DEF RamdiskInit
  <2> QED BY <2>1 DEF RamdiskInit, BootPlace
<1>4. OfferedFits
  BY <1>1 DEF OfferedFits
<1>5. Directories = {<<>>} /\ Contents = <<>> /\ Done = 0
  BY <1>1, <1>2 DEF Store!StoreInit, Done
<1>6. Loaded
  <2>1. ASSUME NEW p \in Seq(NodeNames), NEW l \in 0 .. Len(p), Stands(p, l, 0)
        PROVE  SubSeq(p, 1, l) \in {<<>>}
    <3>1. l = 0
      <4>1. l # 0 => l \in 1 .. l
        OBVIOUS
      <4> QED BY <2>1, <4>1 DEF Stands
    <3>2. SubSeq(p, 1, 0) = <<>>
      BY SubSeqEmpty
    <3> QED BY <3>1, <3>2
  <2>2. LoadedAs(0, {<<>>}, <<>>)
    BY <2>1 DEF LoadedAs
  <2> QED BY <1>5, <2>2 DEF Loaded
<1>7. MainReadsWithin
  BY <1>1, RamdiskAssumption DEF MainReadsWithin
<1> QED BY <1>1, <1>2, <1>3, <1>4, <1>6, <1>7 DEF LoadInv

\* What was gone through is what there is to find.
LEMMA WhatIsLoaded ==
  ASSUME LoadInv
  PROVE  EveryFileIsLoaded
<1>1. SUFFICES ASSUME pc \in {"modules", "comparing", "main", "stopped"}
               PROVE  /\ \A k \in DOMAIN offered :
                           ~ IsDir(k) /\ IsKept(k) =>
                             \E f \in VisibleFiles : /\ PlaceOfFile(f) = PathOf(k)
                                                     /\ files[f].data = offered[k].data
                      /\ \A f \in VisibleFiles : \E k \in DOMAIN offered :
                           PlaceOfFile(f) = PathOf(k) /\ files[f].data = offered[k].data
  BY DEF LoadInv, EveryFileIsLoaded
<1>2. PICK N \in Nat : N = Len(offered) /\ DOMAIN offered = 1 .. N
  BY DEF LoadInv, OfferedFits
<1>3. LoadedAs(N, Directories, Contents)
  BY <1>1, <1>2 DEF LoadInv, Loaded, Done
<1>4. ContentsFit
  BY ContentsOfTree DEF LoadInv
<1>5. ASSUME NEW k \in DOMAIN offered, ~ IsDir(k), IsKept(k)
      PROVE  \E f \in VisibleFiles : PlaceOfFile(f) = PathOf(k) /\ files[f].data = offered[k].data
  <2>1. PICK p \in Seq(NodeNames) : p = PathOf(k)
    <3>1. EntryFits(k)
      BY EntriesFit DEF LoadInv
    <3> QED BY <3>1 DEF EntryFits
  <2>2. PICK l \in Int : l = Len(p) - 1 /\ l - 1 = Len(p) - 2
    OBVIOUS
  <2>3. ASSUME NEW n \in 1 .. l
        PROVE  /\ \E a \in 1 .. N : Makes(a, SubSeq(p, 1, n))
               /\ \A a \in 1 .. N : Makes(a, SubSeq(p, 1, n)) => a < k
    BY <1>2, <1>5, <2>1, <2>2 DEF IsKept
  <2>4. ASSUME NEW n \in 1 .. l - 1
        PROVE  \A a \in 1 .. N : \A d \in 1 .. N :
                 Makes(a, SubSeq(p, 1, n)) /\ Makes(d, SubSeq(p, 1, n + 1)) => a < d
    BY <1>2, <1>5, <2>1, <2>2 DEF IsKept
  <2>5. \A a \in k + 1 .. N : PathOf(a) # p
    BY <1>2, <1>5, <2>1 DEF IsKept
  <2>6. Stands(p, l, N)
    BY <2>3, <2>4 DEF Stands
  <2>7. Lasts(k, N)
    BY <1>5, <2>1, <2>2, <2>3, <2>5, <2>6 DEF Lasts
  <2>8. p \in DOMAIN Contents /\ Contents[p] = offered[k].data
    BY <1>2, <1>3, <2>1, <2>7 DEF LoadedAs
  <2>9. PICK f \in VisibleFiles : PlaceOfFile(f) = p
    BY <1>4, <2>8 DEF ContentsFit
  <2>10. Contents[PlaceOfFile(f)] = files[f].data
    BY <1>4 DEF ContentsFit
  <2> QED BY <2>1, <2>8, <2>9, <2>10
<1>6. ASSUME NEW f \in VisibleFiles
      PROVE  \E k \in DOMAIN offered : PlaceOfFile(f) = PathOf(k) /\ files[f].data = offered[k].data
  <2>1. PICK r : r = PlaceOfFile(f)
    OBVIOUS
  <2>2. r \in DOMAIN Contents /\ Contents[r] = files[f].data
    BY <1>4, <2>1 DEF ContentsFit
  <2>3. PICK k \in DOMAIN offered : r = PathOf(k) /\ Contents[r] = offered[k].data
    BY <1>3, <2>2 DEF LoadedAs
  <2> QED BY <2>1, <2>2, <2>3
<1> QED BY <1>5, <1>6

\* Whatever archives the boot loader brings, each file that neither came before
\* its directory nor was replaced is found under its name with its contents, no
\* other is found, and what main reads of one fits its buffer and the file.
THEOREM FilesAreLoaded == RamdiskSpec => []EveryFileIsLoaded
<1>1. RamdiskInit => LoadInv
  BY LoadInvInitial
<1>2. LoadInv /\ [RamdiskNext]_ramdiskVars => LoadInv'
  BY LoadInvInductive
<1>3. LoadInv => EveryFileIsLoaded
  BY WhatIsLoaded
<1> QED BY <1>1, <1>2, <1>3, PTL DEF RamdiskSpec

-----------------------------------------------------------------------------
(* Lists with one element put in or taken out, and their totals.           *)

\* The part of a list from a to b.
LEMMA SubSeqGives ==
  ASSUME NEW S, NEW s \in Seq(S), NEW a \in 1 .. Len(s) + 1, NEW b \in a - 1 .. Len(s)
  PROVE  /\ SubSeq(s, a, b) \in Seq(S) /\ Len(SubSeq(s, a, b)) = b - a + 1
         /\ \A n \in 1 .. b - a + 1 : SubSeq(s, a, b)[n] = s[a + n - 1]
<1>1. \A j \in a .. b : s[j] \in S
  OBVIOUS
<1> QED BY <1>1, SubSeqProperties

\* What InsertAt of the community modules returns: one element more, where
\* it was put, the ones after it moved up.
LEMMA InsertAtGives ==
  ASSUME NEW S, NEW s \in Seq(S), NEW x \in S, NEW k \in 1 .. Len(s) + 1
  PROVE  /\ InsertAt(s, k, x) \in Seq(S)
         /\ Len(InsertAt(s, k, x)) = Len(s) + 1
         /\ InsertAt(s, k, x)[k] = x
         /\ \A n \in 1 .. k - 1 : InsertAt(s, k, x)[n] = s[n]
         /\ \A n \in k .. Len(s) : InsertAt(s, k, x)[n + 1] = s[n]
<1>0. PICK front, back : front = SubSeq(s, 1, k - 1) /\ back = SubSeq(s, k, Len(s))
  OBVIOUS
<1>1. front \in Seq(S) /\ Len(front) = k - 1 /\ \A n \in 1 .. k - 1 : front[n] = s[n]
  <2>1. front \in Seq(S) /\ Len(front) = (k - 1) - 1 + 1 /\ \A n \in 1 .. (k - 1) - 1 + 1 : front[n] = s[1 + n - 1]
    BY <1>0, SubSeqGives
  <2> QED BY <2>1
<1>2. /\ back \in Seq(S) /\ Len(back) = Len(s) - k + 1
      /\ \A n \in 1 .. Len(s) - k + 1 : back[n] = s[k + n - 1]
  BY <1>0, SubSeqGives
<1> DEFINE mid == <<x>>
<1>3. mid \in Seq(S) /\ Len(mid) = 1 /\ mid[1] = x
  OBVIOUS
<1>41. PICK most, all : most = front \o mid /\ all = most \o back
  OBVIOUS
<1> HIDE DEF mid
<1>4. /\ most \in Seq(S) /\ Len(most) = Len(front) + Len(mid)
      /\ \A n \in 1 .. Len(front) : most[n] = front[n]
      /\ \A n \in 1 .. Len(mid) : most[Len(front) + n] = mid[n]
  <2>1. front \in Seq(S) /\ mid \in Seq(S)
    BY <1>1, <1>3
  <2> QED BY <1>41, <2>1, ConcatGives
<1>5. /\ all \in Seq(S) /\ Len(all) = Len(most) + Len(back)
      /\ \A n \in 1 .. Len(most) : all[n] = most[n]
      /\ \A n \in 1 .. Len(back) : all[Len(most) + n] = back[n]
  <2>1. most \in Seq(S) /\ back \in Seq(S)
    BY <1>2, <1>4
  <2> QED BY <1>41, <2>1, ConcatGives
<1>6. Len(most) = k /\ most[k] = x
  <2>1. most[Len(front) + 1] = mid[1]
    BY <1>3, <1>4
  <2> QED BY <1>1, <1>3, <1>4, <2>1
<1>7. all[k] = x /\ Len(all) = Len(s) + 1
  BY <1>2, <1>5, <1>6
<1>8. ASSUME NEW n \in 1 .. k - 1 PROVE all[n] = s[n]
  <2>1. n \in 1 .. Len(front) /\ n \in 1 .. Len(most) /\ front[n] = s[n]
    BY <1>1, <1>6
  <2> QED BY <1>4, <1>5, <2>1
<1>9. ASSUME NEW n \in k .. Len(s) PROVE all[n + 1] = s[n]
  <2>1. PICK j \in 1 .. Len(s) - k + 1 : j = n + 1 - k
    OBVIOUS
  <2>2. all[Len(most) + j] = back[j]
    BY <1>2, <1>5, <2>1
  <2>3. back[j] = s[k + j - 1] /\ k + j - 1 = n /\ Len(most) + j = n + 1
    BY <1>2, <1>6, <2>1
  <2> QED BY <2>2, <2>3
<1>10. all = InsertAt(s, k, x)
  BY <1>0, <1>41 DEF InsertAt, mid
<1> QED BY <1>5, <1>7, <1>8, <1>9, <1>10

\* What RemoveAt returns: one element less, the ones after it moved down.
LEMMA RemoveAtGives ==
  ASSUME NEW S, NEW s \in Seq(S), NEW k \in 1 .. Len(s)
  PROVE  /\ RemoveAt(s, k) \in Seq(S)
         /\ Len(RemoveAt(s, k)) = Len(s) - 1
         /\ \A n \in 1 .. k - 1 : RemoveAt(s, k)[n] = s[n]
         /\ \A n \in k .. Len(s) - 1 : RemoveAt(s, k)[n] = s[n + 1]
<1>0. PICK front, back : front = SubSeq(s, 1, k - 1) /\ back = SubSeq(s, k + 1, Len(s))
  OBVIOUS
<1>1. front \in Seq(S) /\ Len(front) = k - 1 /\ \A n \in 1 .. k - 1 : front[n] = s[n]
  <2>1. front \in Seq(S) /\ Len(front) = (k - 1) - 1 + 1 /\ \A n \in 1 .. (k - 1) - 1 + 1 : front[n] = s[1 + n - 1]
    BY <1>0, SubSeqGives
  <2> QED BY <2>1
<1>2. /\ back \in Seq(S) /\ Len(back) = Len(s) - k
      /\ \A n \in 1 .. Len(s) - k : back[n] = s[k + n]
  <2>1. /\ back \in Seq(S) /\ Len(back) = Len(s) - (k + 1) + 1
        /\ \A n \in 1 .. Len(s) - (k + 1) + 1 : back[n] = s[(k + 1) + n - 1]
    BY <1>0, SubSeqGives
  <2> QED BY <2>1
<1>31. PICK all : all = front \o back
  OBVIOUS
<1>3. /\ all \in Seq(S) /\ Len(all) = Len(front) + Len(back)
      /\ \A n \in 1 .. Len(front) : all[n] = front[n]
      /\ \A n \in 1 .. Len(back) : all[Len(front) + n] = back[n]
  <2>1. front \in Seq(S) /\ back \in Seq(S)
    BY <1>1, <1>2
  <2> QED BY <1>31, <2>1, ConcatGives
<1>4. ASSUME NEW n \in k .. Len(s) - 1 PROVE all[n] = s[n + 1]
  <2>1. PICK j \in 1 .. Len(s) - k : j = n - (k - 1)
    OBVIOUS
  <2>2. all[Len(front) + j] = back[j]
    BY <1>2, <1>3, <2>1
  <2>3. back[j] = s[k + j] /\ k + j = n + 1 /\ Len(front) + j = n
    BY <1>1, <1>2, <2>1
  <2> QED BY <2>2, <2>3
<1>5. all = RemoveAt(s, k)
  BY <1>0, <1>31 DEF RemoveAt
<1>6. Len(all) = Len(s) - 1 /\ \A n \in 1 .. k - 1 : all[n] = s[n]
  BY <1>1, <1>2, <1>3
<1> QED BY <1>3, <1>4, <1>5, <1>6

\* The totals of the first n numbers, for each n.
Running(f, s) ==
  /\ f \in [0 .. Len(s) -> Int] /\ f[0] = 0
  /\ \A n \in 1 .. Len(s) : f[n] = f[n - 1] + s[n]

\* TotalOf is the last of the running totals of its numbers.
LEMMA TotalIsRunning ==
  ASSUME NEW s \in Seq(Int)
  PROVE  \E f : Running(f, s) /\ TotalOf(s) = f[Len(s)]
<1>0. PICK N \in Nat : N = Len(s)
  OBVIOUS
<1> DEFINE G == [p \in (1 .. N) \X Int |-> p[2] + s[p[1]]]
           Is(f) == f = [n \in 0 .. N |-> IF n = 0 THEN 0 ELSE f[n - 1] + s[n]]
<1>1. G \in StepFunctions(N, Int)
  <2>1. ASSUME NEW n \in 1 .. N, NEW v \in Int PROVE v + s[n] \in Int
    BY <1>0
  <2> QED BY <2>1 DEF StepFunctions
<1>2. PICK g : Recursive(g, N, Int, 0, G)
  <2>1. PICK first \in Int : first = 0
    OBVIOUS
  <2> HIDE DEF G
  <2>2. \E g : Recursive(g, N, Int, first, G)
    BY <1>1, RecursionUpTo
  <2> QED BY <2>1, <2>2
<1>3. ASSUME NEW n \in 1 .. N PROVE g[n] = g[n - 1] + s[n]
  <2>1. g[n] = G[<<n, g[n - 1]>>] /\ g[n - 1] \in Int
    <3> HIDE DEF G, Is
    <3> QED BY <1>2 DEF Recursive
  <2> QED BY <2>1
<1>4. Is(g)
  <2>1. g \in [0 .. N -> Int] /\ g[0] = 0
    <3> HIDE DEF G
    <3> QED BY <1>2 DEF Recursive
  <2> QED BY <1>3, <2>1
<1>5. PICK f : Is(f) /\ TotalOf(s) = f[N]
  <2>1. TotalOf(s) = (CHOOSE f : Is(f))[N]
    BY <1>0 DEF TotalOf
  <2> HIDE DEF Is
  <2> QED BY <1>4, <2>1
<1>6. DOMAIN f = 0 .. N /\ f[0] = 0 /\ \A n \in 1 .. N : f[n] = f[n - 1] + s[n]
  BY <1>5
<1> DEFINE S == {n \in 0 .. N : f[n] \in Int}
<1>7. 0 .. N \subseteq S
  <2>1. 0 \in S
    BY <1>6
  <2>2. ASSUME NEW n \in 1 .. N, n - 1 \in S PROVE n \in S
    <3>1. s[n] \in Int /\ f[n] = f[n - 1] + s[n] /\ f[n - 1] \in Int
      BY <1>0, <1>6, <2>2
    <3> QED BY <3>1
  <2> HIDE DEF S
  <2> QED BY <2>1, <2>2, InductionUpTo
<1>8. f \in [0 .. N -> Int]
  <2>1. f = [n \in 0 .. N |-> f[n]]
    BY <1>5
  <2>2. \A n \in 0 .. N : f[n] \in Int
    BY <1>7
  <2> QED BY <2>1, <2>2
<1> QED BY <1>0, <1>5, <1>6, <1>8 DEF Running

\* A total of naturals is one.
LEMMA TotalIsNat ==
  ASSUME NEW s \in Seq(Nat)
  PROVE  TotalOf(s) \in Nat
<1>1. s \in Seq(Int)
  OBVIOUS
<1>2. PICK f : Running(f, s) /\ TotalOf(s) = f[Len(s)]
  BY <1>1, TotalIsRunning
<1>0. Len(s) \in Nat
  OBVIOUS
<1> DEFINE S == {n \in 0 .. Len(s) : f[n] \in Nat}
<1>3. 0 .. Len(s) \subseteq S
  <2>1. 0 \in S
    BY <1>2 DEF Running
  <2>2. ASSUME NEW n \in 1 .. Len(s), n - 1 \in S PROVE n \in S
    BY <1>2, <2>2 DEF Running
  <2> HIDE DEF S
  <2> QED BY <1>0, <2>1, <2>2, InductionUpTo
<1> QED BY <1>0, <1>2, <1>3

\* One more number adds itself, wherever it stands.
LEMMA TotalOfInserted ==
  ASSUME NEW s \in Seq(Int), NEW t \in Seq(Int), NEW k \in 1 .. Len(t), Len(t) = Len(s) + 1,
         \A n \in 1 .. k - 1 : t[n] = s[n], \A n \in k .. Len(s) : t[n + 1] = s[n]
  PROVE  TotalOf(t) = TotalOf(s) + t[k]
<1>1. PICK f : Running(f, s) /\ TotalOf(s) = f[Len(s)]
  BY TotalIsRunning
<1>2. PICK g : Running(g, t) /\ TotalOf(t) = g[Len(t)]
  BY TotalIsRunning
<1> DEFINE S == {n \in 0 .. Len(t) : g[n] = IF n < k THEN f[n] ELSE f[n - 1] + t[k]}
<1>3. 0 \in S
  BY <1>1, <1>2 DEF Running
<1>4. ASSUME NEW n \in 1 .. Len(t), n - 1 \in S PROVE n \in S
  <2>0. g[n] = g[n - 1] + t[n] /\ g[n - 1] = IF n - 1 < k THEN f[n - 1] ELSE f[n - 1 - 1] + t[k]
    BY <1>2, <1>4 DEF Running
  <2>1. CASE n < k
    <3>1. f[n] = f[n - 1] + s[n] /\ t[n] = s[n] /\ n - 1 < k
      BY <1>1, <2>1 DEF Running
    <3> QED BY <2>0, <2>1, <3>1
  <2>2. CASE n = k
    BY <2>0, <2>2
  <2>3. CASE n > k
    <3>1. PICK j \in k .. Len(s) : j = n - 1
      BY <2>3
    <3>0. Len(s) \in Nat /\ k \in Nat /\ k >= 1 /\ n \in Nat
      OBVIOUS
    <3>2. j \in 1 .. Len(s) /\ j - 1 \in 0 .. Len(s) /\ j + 1 = n /\ ~(j < k) /\ j = n - 1
      BY <2>3, <3>0, <3>1
    <3>3. f[j] = f[j - 1] + s[j] /\ f[j - 1] \in Int
      BY <1>1, <3>2 DEF Running
    <3>4. t[n] = s[j]
      BY <3>1, <3>2
    <3>5. s[j] \in Int /\ t[k] \in Int
      BY <3>2
    <3>6. g[j] = f[j - 1] + t[k] /\ g[n] = g[j] + t[n]
      BY <2>0, <3>2
    <3>7. g[n] = f[j] + t[k]
      <4>1. PICK a \in Int, b \in Int, c \in Int : a = f[j - 1] /\ b = s[j] /\ c = t[k]
        BY <3>3, <3>5
      <4>2. f[j] = a + b /\ g[n] = (a + c) + b
        BY <3>3, <3>4, <3>6, <4>1
      <4>3. (a + c) + b = (a + b) + c
        OBVIOUS
      <4> QED BY <4>1, <4>2, <4>3, Zenon
    <3> QED BY <2>3, <3>2, <3>7
  <2> QED BY <2>1, <2>2, <2>3
<1>5. Len(t) \in S
  <2> HIDE DEF S
  <2>0. Len(t) \in Nat
    OBVIOUS
  <2>1. 0 .. Len(t) \subseteq S
    BY <2>0, <1>3, <1>4, InductionUpTo
  <2> QED BY <2>0, <2>1
<1>6. g[Len(t)] = f[Len(t) - 1] + t[k]
  BY <1>5
<1> QED BY <1>1, <1>2, <1>6

\* One number that changes changes the total by as much.
LEMMA TotalOfReplaced ==
  ASSUME NEW s \in Seq(Int), NEW t \in Seq(Int), NEW k \in 1 .. Len(s), Len(t) = Len(s),
         \A n \in 1 .. Len(s) : n # k => t[n] = s[n]
  PROVE  TotalOf(t) = TotalOf(s) + (t[k] - s[k])
<1>1. PICK f : Running(f, s) /\ TotalOf(s) = f[Len(s)]
  BY TotalIsRunning
<1>2. PICK g : Running(g, t) /\ TotalOf(t) = g[Len(t)]
  BY TotalIsRunning
<1>3. PICK d \in Int : d = t[k] - s[k]
  OBVIOUS
<1> DEFINE S == {n \in 0 .. Len(s) : g[n] = IF n < k THEN f[n] ELSE f[n] + d}
<1>4. 0 \in S
  BY <1>1, <1>2 DEF Running
<1>5. ASSUME NEW n \in 1 .. Len(s), n - 1 \in S PROVE n \in S
  <2>1. g[n] = g[n - 1] + t[n] /\ f[n] = f[n - 1] + s[n] /\ f[n - 1] \in Int
    <3>1. n \in 1 .. Len(t) /\ n - 1 \in 0 .. Len(s)
      OBVIOUS
    <3> QED BY <1>1, <1>2, <3>1 DEF Running
  <2>2. g[n - 1] = IF n - 1 < k THEN f[n - 1] ELSE f[n - 1] + d
    BY <1>5
  <2>3. s[n] \in Int /\ t[n] \in Int
    OBVIOUS
  <2>4. n # k => t[n] = s[n]
    OBVIOUS
  <2>5. n = k => t[n] = s[n] + d
    BY <1>3, <2>3
  <2>6. g[n] = IF n < k THEN f[n] ELSE f[n] + d
    BY <2>1, <2>2, <2>3, <2>4, <2>5, SMTT(30)
  <2> QED BY <2>6
<1>6. Len(s) \in S
  <2> HIDE DEF S
  <2>0. Len(s) \in Nat
    OBVIOUS
  <2>1. 0 .. Len(s) \subseteq S
    BY <2>0, <1>4, <1>5, InductionUpTo
  <2> QED BY <2>0, <2>1
<1> QED BY <1>1, <1>2, <1>3, <1>6

-----------------------------------------------------------------------------
(* The heap.                                                               *)

MajorType == [base : Nat, pages : Nat, size : Nat, usage : Nat, minors : Seq(MinorType)]

\* One major: its blocks, with room to align what the client asked for, fill
\* it in order, and it knows what they use.
MajorInv(maj) ==
  /\ maj \in MajorType
  /\ \A n \in DOMAIN maj.minors :
       maj.minors[n].size = maj.minors[n].req + ALIGNMENT + ALIGN_INFO
  /\ BlocksFill(maj)
  /\ maj.usage = InUse(maj)

BetIsListed == l_bestBet # 0 => \E k \in DOMAIN majors : majors[k].base = l_bestBet

\* The inductive invariant: the majors of the list, where they are, and the
\* totals.
HeapInv ==
  /\ majors \in Seq(MajorType)
  /\ \A k \in DOMAIN majors : MajorInv(majors[k])
  /\ MajorsAreGranted /\ granted \subseteq 1 .. HeapPages
  /\ BetIsListed
  /\ l_inuse = TotalOf([k \in DOMAIN majors |-> InBlocks(majors[k])])
  /\ l_allocated = TotalOf([k \in DOMAIN majors |-> majors[k].size])
  /\ panicked \in {"no", "out of memory", "assertion"}

\* The sizes a major adds up.
LEMMA SizesAdd ==
  ASSUME NEW maj \in MajorType
  PROVE  /\ [n \in DOMAIN maj.minors |-> maj.minors[n].size] \in Seq(Nat)
         /\ [n \in DOMAIN maj.minors |-> maj.minors[n].size + MINOR] \in Seq(Nat)
         /\ InBlocks(maj) \in Nat /\ InUse(maj) \in Nat
<1>1. PICK list \in Seq(MinorType) : list = maj.minors
  BY DEF MajorType
<1>2. ASSUME NEW n \in 1 .. Len(list)
      PROVE  list[n].size \in Nat /\ list[n].size + MINOR \in Nat
  <2>1. list[n] \in MinorType
    OBVIOUS
  <2>2. list[n].size \in Nat
    BY <2>1 DEF MinorType
  <2> QED BY <2>2, HeapAssumption
<1>3. [n \in DOMAIN list |-> list[n].size] \in Seq(Nat)
  BY <1>2
<1>4. [n \in DOMAIN list |-> list[n].size + MINOR] \in Seq(Nat)
  BY <1>2
<1>5. TotalOf([n \in DOMAIN list |-> list[n].size]) \in Nat
  BY <1>3, TotalIsNat
<1>6. TotalOf([n \in DOMAIN list |-> list[n].size + MINOR]) \in Nat
  BY <1>4, TotalIsNat
<1> QED BY <1>1, <1>3, <1>4, <1>5, <1>6, HeapAssumption DEF InBlocks, InUse

\* Two majors of which one has a block the other has not.
OneMore(less, more, k) ==
  /\ k \in DOMAIN more.minors /\ Len(more.minors) = Len(less.minors) + 1
  /\ \A n \in 1 .. k - 1 : more.minors[n] = less.minors[n]
  /\ \A n \in k .. Len(less.minors) : more.minors[n + 1] = less.minors[n]

\* A major with one block more has its bytes more in blocks, and its header
\* too in use.
LEMMA OneMoreAdds ==
  ASSUME NEW less \in MajorType, NEW more \in MajorType, NEW k, OneMore(less, more, k)
  PROVE  /\ InBlocks(more) = InBlocks(less) + more.minors[k].size
         /\ InUse(more) = InUse(less) + more.minors[k].size + MINOR
<1>1. PICK few \in Seq(MinorType), many \in Seq(MinorType) :
        few = less.minors /\ many = more.minors
  BY DEF MajorType
<1>2. /\ k \in 1 .. Len(many) /\ Len(many) = Len(few) + 1
      /\ \A n \in 1 .. k - 1 : many[n] = few[n]
      /\ \A n \in k .. Len(few) : many[n + 1] = few[n]
  BY <1>1 DEF OneMore
<1>3. many[k].size \in Nat /\ MINOR \in Nat
  <2>1. many[k] \in MinorType
    BY <1>2
  <2>2. many[k].size \in Nat
    BY <2>1 DEF MinorType
  <2> QED BY <2>2, HeapAssumption
<1>4. InBlocks(more) = InBlocks(less) + many[k].size
  <2>1. PICK s, t : /\ s = [n \in DOMAIN few |-> few[n].size]
                    /\ t = [n \in DOMAIN many |-> many[n].size]
    OBVIOUS
  <2>2. s \in Seq(Int) /\ t \in Seq(Int)
    <3>1. s \in Seq(Nat) /\ t \in Seq(Nat)
      BY <1>1, <2>1, SizesAdd
    <3> QED BY <3>1
  <2>3. Len(s) = Len(few) /\ Len(t) = Len(many)
    BY <2>1, <2>2
  <2>4. \A n \in 1 .. Len(few) : s[n] = few[n].size
    BY <2>1
  <2>5. \A n \in 1 .. Len(many) : t[n] = many[n].size
    BY <2>1
  <2>6. k \in 1 .. Len(t) /\ Len(t) = Len(s) + 1 /\ Len(few) \in Nat
    BY <1>2, <2>3
  <2>7. \A n \in 1 .. k - 1 : t[n] = s[n]
    BY <1>2, <2>4, <2>5
  <2>8. ASSUME NEW n \in k .. Len(s) PROVE t[n + 1] = s[n]
    <3>1. n \in 1 .. Len(few) /\ n + 1 \in 1 .. Len(many) /\ n \in k .. Len(few)
      BY <1>2, <2>3, <2>6
    <3> QED BY <1>2, <2>4, <2>5, <3>1
  <2>9. TotalOf(t) = TotalOf(s) + t[k]
    BY <2>2, <2>6, <2>7, <2>8, TotalOfInserted
  <2> QED BY <1>1, <1>2, <2>1, <2>5, <2>9 DEF InBlocks
<1>5. InUse(more) = InUse(less) + (many[k].size + MINOR)
  <2>1. PICK s, t : /\ s = [n \in DOMAIN few |-> few[n].size + MINOR]
                    /\ t = [n \in DOMAIN many |-> many[n].size + MINOR]
    OBVIOUS
  <2>2. s \in Seq(Int) /\ t \in Seq(Int)
    <3>1. s \in Seq(Nat) /\ t \in Seq(Nat)
      BY <1>1, <2>1, SizesAdd
    <3> QED BY <3>1
  <2>3. Len(s) = Len(few) /\ Len(t) = Len(many)
    BY <2>1, <2>2
  <2>4. \A n \in 1 .. Len(few) : s[n] = few[n].size + MINOR
    BY <2>1
  <2>5. \A n \in 1 .. Len(many) : t[n] = many[n].size + MINOR
    BY <2>1
  <2>6. k \in 1 .. Len(t) /\ Len(t) = Len(s) + 1 /\ Len(few) \in Nat
    BY <1>2, <2>3
  <2>7. \A n \in 1 .. k - 1 : t[n] = s[n]
    BY <1>2, <2>4, <2>5
  <2>8. ASSUME NEW n \in k .. Len(s) PROVE t[n + 1] = s[n]
    <3>1. n \in 1 .. Len(few) /\ n + 1 \in 1 .. Len(many) /\ n \in k .. Len(few)
      BY <1>2, <2>3, <2>6
    <3> QED BY <1>2, <2>4, <2>5, <3>1
  <2>9. TotalOf(t) = TotalOf(s) + t[k]
    BY <2>2, <2>6, <2>7, <2>8, TotalOfInserted
  <2>10. PICK a \in Int : a = TotalOf(s)
    <3>1. InUse(less) = MAJOR + TotalOf(s) /\ s \in Seq(Nat)
      BY <1>1, <2>1, SizesAdd DEF InUse
    <3> QED BY <3>1, TotalIsNat
  <2>11. InUse(less) = MAJOR + a /\ InUse(more) = MAJOR + (a + (many[k].size + MINOR))
    BY <1>1, <1>2, <2>1, <2>5, <2>9, <2>10 DEF InUse
  <2> QED BY <1>3, <2>11, HeapAssumption, SMTT(30)
<1>6. InUse(less) \in Nat
  BY SizesAdd
<1> QED BY <1>1, <1>3, <1>4, <1>5, <1>6

\* The blocks of a major, one by one.
LEMMA MinorsAreTyped ==
  ASSUME NEW maj \in MajorType, NEW n \in DOMAIN maj.minors
  PROVE  /\ maj.minors[n] \in MinorType
         /\ maj.minors[n].at \in Nat /\ maj.minors[n].size \in Nat /\ EndOf(maj.minors[n]) \in Nat
         /\ maj.minors[n].at <= EndOf(maj.minors[n])
<1>1. PICK list \in Seq(MinorType) : list = maj.minors
  BY DEF MajorType
<1>2. list[n] \in MinorType
  BY <1>1
<1>3. list[n].at \in Nat /\ list[n].size \in Nat
  BY <1>2 DEF MinorType
<1>4. PICK at \in Nat, size \in Nat, header \in Nat :
        at = list[n].at /\ size = list[n].size /\ header = MINOR
  BY <1>3, HeapAssumption
<1>5. EndOf(list[n]) = at + header + size
  BY <1>4 DEF EndOf
<1>6. at + header + size \in Nat /\ at <= at + header + size
  OBVIOUS
<1> QED BY <1>1, <1>2, <1>3, <1>4, <1>5, <1>6

\* A block put where it fits leaves its major in order.
LEMMA WithBlockKeepsMajor ==
  ASSUME NEW maj, MajorInv(maj), NEW g \in 0 .. Len(maj.minors), NEW req \in Requests,
         NEW size, size = req + ALIGNMENT + ALIGN_INFO, FitsAfter(maj, g, size)
  PROVE  LET new == WithBlock(maj, g, size, req)
         IN  /\ MajorInv(new) /\ new.base = maj.base /\ new.pages = maj.pages
             /\ new.size = maj.size /\ InBlocks(new) = InBlocks(maj) + size
             /\ Len(new.minors) = Len(maj.minors) + 1 /\ new.minors[g + 1].size = size
<1>0. maj \in MajorType /\ size \in Nat /\ MINOR \in Nat /\ MAJOR \in Nat /\ maj.base \in Nat
      /\ maj.usage \in Nat /\ maj.size \in Nat
  BY HeapAssumption, SMTT(30) DEF MajorInv, MajorType
<1>1. PICK list \in Seq(MinorType) : list = maj.minors
  BY <1>0 DEF MajorType
<1>2. PICK at \in Nat : at = IF g = 0 THEN maj.base + MAJOR ELSE EndOf(list[g])
  BY <1>0, <1>1, MinorsAreTyped
<1>3. PICK block \in MinorType : block = [at |-> at, size |-> size, req |-> req]
  BY <1>0 DEF MinorType
<1>4. PICK h \in 1 .. Len(list) + 1 : h = g + 1
  BY <1>1
<1>41. PICK longer : longer = InsertAt(list, h, block)
  OBVIOUS
<1>5. /\ longer \in Seq(MinorType) /\ Len(longer) = Len(list) + 1 /\ longer[g + 1] = block
      /\ \A n \in 1 .. g : longer[n] = list[n]
      /\ \A n \in g + 1 .. Len(list) : longer[n + 1] = list[n]
  <2>1. /\ longer \in Seq(MinorType) /\ Len(longer) = Len(list) + 1 /\ longer[h] = block
        /\ \A n \in 1 .. h - 1 : longer[n] = list[n]
        /\ \A n \in h .. Len(list) : longer[n + 1] = list[n]
    <3>1. longer \in Seq(MinorType) /\ Len(longer) = Len(list) + 1 /\ longer[h] = block
      BY <1>41, InsertAtGives
    <3>2. \A n \in 1 .. h - 1 : longer[n] = list[n]
      BY <1>41, InsertAtGives
    <3>3. \A n \in h .. Len(list) : longer[n + 1] = list[n]
      BY <1>41, InsertAtGives
    <3> QED BY <3>1, <3>2, <3>3
  <2>2. h - 1 = g
    BY <1>4
  <2> QED BY <1>4, <2>1, <2>2
<1>6. PICK new : new = [maj EXCEPT !.minors = longer, !.usage = maj.usage + size + MINOR]
  OBVIOUS
<1>7. /\ new \in MajorType /\ new.base = maj.base /\ new.pages = maj.pages /\ new.size = maj.size
      /\ new.minors = longer /\ new.usage = maj.usage + size + MINOR
  <2>1. maj.usage + size + MINOR \in Nat
    BY <1>0
  <2> QED BY <1>0, <1>5, <1>6, <2>1 DEF MajorType
<1>8. WithBlock(maj, g, size, req) = new
  BY <1>1, <1>2, <1>3, <1>4, <1>41, <1>6 DEF WithBlock
<1>9. OneMore(maj, new, g + 1) /\ block.size = size /\ block.at = at /\ block.req = req
  BY <1>1, <1>3, <1>5, <1>7 DEF OneMore
<1>10. InBlocks(new) = InBlocks(maj) + size /\ InUse(new) = InUse(maj) + size + MINOR
  BY <1>0, <1>5, <1>7, <1>9, OneMoreAdds, SMTT(30)
<1>11. ASSUME NEW n \in DOMAIN longer
       PROVE  longer[n].size = longer[n].req + ALIGNMENT + ALIGN_INFO
  <2>1. CASE n <= g
    BY <1>1, <1>5, <2>1, SMTT(30) DEF MajorInv
  <2>2. CASE n = g + 1
    BY <1>5, <1>9, <2>2
  <2>3. CASE n > g + 1
    <3>1. PICK j \in g + 1 .. Len(list) : j = n - 1
      BY <1>5, <2>3
    <3>2. longer[j + 1] = list[j] /\ j \in DOMAIN list /\ j + 1 = n
      BY <1>1, <1>5, <3>1
    <3> QED BY <1>1, <3>2 DEF MajorInv
  <2> QED BY <1>5, <2>1, <2>2, <2>3
<1>12. EndOf(block) = at + MINOR + size
  BY <1>9 DEF EndOf
<1>13. at + MINOR + size <= IF g = Len(list) THEN maj.base + maj.size ELSE list[g + 1].at
  <2>1. PICK high \in Nat : high = IF g = Len(list) THEN maj.base + maj.size ELSE list[g + 1].at
    <3>1. g # Len(list) => g + 1 \in DOMAIN list
      BY <1>1
    <3>2. g # Len(list) => list[g + 1].at \in Nat
      BY <1>0, <1>1, <3>1, MinorsAreTyped
    <3> QED BY <1>0, <3>2
  <2>2. high - at >= size + MINOR
    BY <1>1, <1>2, <2>1 DEF FitsAfter
  <2>3. at + MINOR + size <= high
    BY <1>0, <2>2
  <2> QED BY <2>1, <2>3
<1>14. ASSUME NEW n \in DOMAIN list
       PROVE  /\ maj.base + MAJOR <= list[n].at
              /\ EndOf(list[n]) <= IF n = Len(list) THEN maj.base + maj.size ELSE list[n + 1].at
              /\ list[n].at \in Nat /\ EndOf(list[n]) \in Nat /\ list[n].at <= EndOf(list[n])
  BY <1>0, <1>1, MinorsAreTyped DEF MajorInv, BlocksFill
<1>15. maj.base + MAJOR <= at
  <2>1. CASE g = 0
    BY <1>0, <1>2, <2>1
  <2>2. CASE g # 0
    <3>1. g \in DOMAIN list
      BY <1>1, <2>2
    <3>2. maj.base + MAJOR <= list[g].at /\ list[g].at <= EndOf(list[g]) /\ at = EndOf(list[g])
          /\ list[g].at \in Nat
      BY <1>2, <1>14, <2>2, <3>1
    <3>3. PICK low \in Nat : low = maj.base + MAJOR
      BY <1>0
    <3> QED BY <3>2, <3>3
  <2> QED BY <2>1, <2>2
<1>16. ASSUME NEW n \in DOMAIN longer
       PROVE  /\ maj.base + MAJOR <= longer[n].at
              /\ EndOf(longer[n]) <= IF n = Len(longer) THEN maj.base + maj.size ELSE longer[n + 1].at
  <2>1. CASE n < g
    <3>1. n \in 1 .. g /\ n + 1 \in 1 .. g /\ n \in DOMAIN list /\ n # Len(list) /\ n # Len(longer)
      BY <1>1, <1>5, <2>1, SMTT(30)
    <3>2. longer[n] = list[n] /\ longer[n + 1] = list[n + 1]
      BY <1>5, <3>1
    <3> QED BY <1>14, <3>1, <3>2
  <2>2. CASE n = g
    <3>1. n \in DOMAIN list /\ n # Len(longer) /\ longer[n] = list[n] /\ longer[n + 1] = block
      BY <1>1, <1>5, <2>2
    <3>2. EndOf(list[n]) = at
      BY <1>2, <2>2, <3>1, <1>5
    <3> QED BY <1>9, <1>14, <3>1, <3>2
  <2>3. CASE n = g + 1
    <3>1. longer[n] = block /\ (n = Len(longer) <=> g = Len(list))
      BY <1>1, <1>5, <2>3
    <3>2. n # Len(longer) => longer[n + 1] = list[g + 1]
      BY <1>1, <1>5, <2>3
    <3> QED BY <1>9, <1>12, <1>13, <1>15, <3>1, <3>2
  <2>4. CASE n > g + 1
    <3>1. PICK j \in g + 1 .. Len(list) : j = n - 1
      BY <1>5, <2>4
    <3>2. longer[n] = list[j] /\ j \in DOMAIN list /\ (n = Len(longer) <=> j = Len(list))
      BY <1>1, <1>5, <3>1
    <3>3. n # Len(longer) => longer[n + 1] = list[j + 1]
      <4>1. n # Len(longer) => j + 1 \in g + 1 .. Len(list)
        BY <1>1, <1>5, <3>1, SMTT(30)
      <4>2. n # Len(longer) => longer[(j + 1) + 1] = list[j + 1]
        BY <1>5, <4>1
      <4>3. (j + 1) + 1 = n + 1
        BY <1>5, <3>1
      <4> QED BY <4>2, <4>3
    <3> QED BY <1>14, <3>2, <3>3
  <2> QED BY <1>5, <2>1, <2>2, <2>3, <2>4
<1>17. BlocksFill(new)
  BY <1>7, <1>16 DEF BlocksFill
<1>18. new.usage = InUse(new)
  BY <1>0, <1>7, <1>10, SizesAdd DEF MajorInv
<1>19. MajorInv(new)
  BY <1>7, <1>11, <1>17, <1>18 DEF MajorInv
<1> QED BY <1>1, <1>5, <1>7, <1>8, <1>9, <1>10, <1>19

\* A major without one of its blocks.
Left(maj, g) ==
  [maj EXCEPT !.minors = RemoveAt(@, g), !.usage = @ - (maj.minors[g].size + MINOR)]

\* So does a block taken out.
LEMMA WithoutBlockKeepsMajor ==
  ASSUME NEW maj, MajorInv(maj), NEW g \in DOMAIN maj.minors,
         NEW left, left = Left(maj, g)
  PROVE  /\ MajorInv(left) /\ left.base = maj.base /\ left.pages = maj.pages
         /\ left.size = maj.size /\ InBlocks(maj) = InBlocks(left) + maj.minors[g].size
<1>0. maj \in MajorType /\ MINOR \in Nat /\ MAJOR \in Nat /\ maj.base \in Nat
      /\ maj.usage \in Nat /\ maj.size \in Nat
  BY HeapAssumption DEF MajorInv, MajorType
<1>1. PICK list \in Seq(MinorType) : list = maj.minors
  BY <1>0 DEF MajorType
<1>2. PICK rest : rest = RemoveAt(list, g)
  OBVIOUS
<1>3. /\ rest \in Seq(MinorType) /\ Len(rest) = Len(list) - 1 /\ g \in 1 .. Len(list)
      /\ \A n \in 1 .. g - 1 : rest[n] = list[n]
      /\ \A n \in g .. Len(list) - 1 : rest[n] = list[n + 1]
  <2>1. g \in 1 .. Len(list)
    BY <1>1
  <2> QED BY <1>2, <2>1, RemoveAtGives
<1>4. PICK without \in MajorType : without = [maj EXCEPT !.minors = rest]
  BY <1>0, <1>3 DEF MajorType
<1>5. without.minors = rest /\ without.base = maj.base /\ without.pages = maj.pages
      /\ without.size = maj.size
  BY <1>0, <1>4 DEF MajorType
<1>6. OneMore(without, maj, g)
  BY <1>1, <1>3, <1>5 DEF OneMore
<1>7. /\ InBlocks(maj) = InBlocks(without) + list[g].size
      /\ maj.usage = InUse(without) + list[g].size + MINOR
      /\ InUse(without) \in Nat /\ list[g].size \in Nat
  BY <1>0, <1>1, <1>3, <1>6, OneMoreAdds, SizesAdd, MinorsAreTyped DEF MajorInv
<1>8. left = [maj EXCEPT !.minors = rest, !.usage = InUse(without)]
  <2>1. maj.usage - (list[g].size + MINOR) = InUse(without)
    BY <1>0, <1>7
  <2> QED BY <1>0, <1>1, <1>2, <2>1 DEF MajorType, Left
<1>9. /\ left \in MajorType /\ left.minors = rest /\ left.usage = InUse(without)
      /\ left.base = maj.base /\ left.pages = maj.pages /\ left.size = maj.size
  BY <1>0, <1>3, <1>7, <1>8 DEF MajorType
<1>10. InUse(left) = InUse(without) /\ InBlocks(left) = InBlocks(without)
  BY <1>5, <1>9 DEF InUse, InBlocks
<1>11. ASSUME NEW n \in DOMAIN rest
       PROVE  rest[n].size = rest[n].req + ALIGNMENT + ALIGN_INFO
  <2>1. PICK j \in DOMAIN list : rest[n] = list[j]
    <3>1. CASE n < g
      BY <1>3, <3>1
    <3>2. CASE n >= g
      <4>1. n + 1 \in DOMAIN list /\ rest[n] = list[n + 1]
        BY <1>3, <3>2
      <4> QED BY <4>1
    <3> QED BY <1>3, <3>1, <3>2
  <2> QED BY <1>1, <2>1 DEF MajorInv
<1>12. ASSUME NEW n \in DOMAIN list
       PROVE  /\ maj.base + MAJOR <= list[n].at
              /\ EndOf(list[n]) <= IF n = Len(list) THEN maj.base + maj.size ELSE list[n + 1].at
              /\ list[n].at \in Nat /\ EndOf(list[n]) \in Nat /\ list[n].at <= EndOf(list[n])
  BY <1>0, <1>1, MinorsAreTyped DEF MajorInv, BlocksFill
<1>13. ASSUME NEW n \in DOMAIN rest
       PROVE  /\ maj.base + MAJOR <= rest[n].at
              /\ EndOf(rest[n]) <= IF n = Len(rest) THEN maj.base + maj.size ELSE rest[n + 1].at
  <2>1. CASE n < g - 1
    <3>1. n \in DOMAIN list /\ n # Len(list) /\ n # Len(rest)
          /\ rest[n] = list[n] /\ rest[n + 1] = list[n + 1]
      BY <1>3, <2>1
    <3> QED BY <1>12, <3>1
  <2>2. CASE n = g - 1
    <3>1. n \in DOMAIN list /\ g \in DOMAIN list /\ n # Len(list) /\ n + 1 = g
          /\ rest[n] = list[n] /\ (n = Len(rest) <=> g = Len(list))
      BY <1>3, <2>2
    <3>2. n # Len(rest) => rest[n + 1] = list[g + 1] /\ g + 1 \in DOMAIN list
      BY <1>3, <2>2
    <3>3. EndOf(list[n]) <= list[g].at /\ list[g].at <= EndOf(list[g])
      BY <1>12, <3>1
    <3>4. EndOf(list[g]) <= IF n = Len(rest) THEN maj.base + maj.size ELSE rest[n + 1].at
      BY <1>12, <3>1, <3>2
    <3>5. n # Len(rest) => rest[n + 1].at \in Nat
      BY <1>12, <3>2
    <3>6. EndOf(list[n]) \in Nat /\ list[g].at \in Nat /\ EndOf(list[g]) \in Nat
          /\ maj.base + MAJOR <= list[n].at
      BY <1>12, <3>1
    <3>7. PICK low \in Nat, a \in Nat, b \in Nat, c \in Nat :
            low = EndOf(list[n]) /\ a = list[g].at /\ b = EndOf(list[g]) /\ c = maj.base + maj.size
      BY <1>0, <3>6, SMTT(30)
    <3>8. PICK high \in Nat : high = IF n = Len(rest) THEN maj.base + maj.size ELSE rest[n + 1].at
      BY <1>0, <3>5
    <3>9. low <= high
      BY <3>3, <3>4, <3>7, <3>8
    <3> QED BY <3>1, <3>6, <3>7, <3>8, <3>9
  <2>3. CASE n >= g
    <3>0. Len(list) \in Nat /\ Len(rest) = Len(list) - 1 /\ n \in 1 .. Len(rest)
      BY <1>3
    <3>1. n + 1 \in DOMAIN list /\ rest[n] = list[n + 1] /\ (n = Len(rest) <=> n + 1 = Len(list))
      <4>1. n + 1 \in 1 .. Len(list) /\ (n = Len(rest) <=> n + 1 = Len(list))
        BY <3>0
      <4>2. n + 1 \in DOMAIN list
        BY <4>1
      <4>3. rest[n] = list[n + 1]
        BY <1>3, <2>3
      <4> QED BY <4>1, <4>2, <4>3
    <3>2. n # Len(rest) => rest[n + 1] = list[(n + 1) + 1]
      BY <1>3, <2>3
    <3> QED BY <1>12, <3>1, <3>2
  <2> QED BY <1>3, <2>1, <2>2, <2>3
<1>14. BlocksFill(left)
  BY <1>9, <1>13 DEF BlocksFill
<1>15. MajorInv(left)
  BY <1>9, <1>10, <1>11, <1>14 DEF MajorInv
<1> QED BY <1>1, <1>7, <1>9, <1>10, <1>15

\* The greatest of finitely many numbers is one of them.
LEMMA MaxIsAttained ==
  ASSUME NEW N \in Nat, NEW f \in [1 .. N -> Int], NEW b \in Int
  PROVE  LET T == {b} \cup {f[v] : v \in 1 .. N} IN Max(T) \in T /\ \A y \in T : Max(T) >= y
<1> DEFINE T(n) == {b} \cup {f[v] : v \in 1 .. n}
           S == {n \in 0 .. N : \E x \in T(n) : \A y \in T(n) : x >= y}
<1>1. 0 \in S
  <2>1. T(0) = {b}
    OBVIOUS
  <2> HIDE DEF T
  <2> QED BY <2>1
<1>2. ASSUME NEW n \in 1 .. N, n - 1 \in S PROVE n \in S
  <2>1. PICK x \in T(n - 1) : \A y \in T(n - 1) : x >= y
    BY <1>2
  <2>2. T(n) = T(n - 1) \cup {f[n]}
    <3>1. 1 .. n = 1 .. n - 1 \cup {n}
      OBVIOUS
    <3> QED BY <3>1
  <2>3. f[n] \in Int /\ T(n - 1) \subseteq Int
    OBVIOUS
  <2> HIDE DEF T
  <2>4. CASE f[n] >= x
    <3>1. f[n] \in T(n) /\ \A y \in T(n) : f[n] >= y
      BY <2>1, <2>2, <2>3, <2>4
    <3> QED BY <3>1
  <2>5. CASE ~(f[n] >= x)
    <3>1. x \in T(n) /\ \A y \in T(n) : x >= y
      BY <2>1, <2>2, <2>3, <2>5
    <3> QED BY <3>1
  <2> QED BY <2>4, <2>5
<1>3. 0 .. N \subseteq S
  <2> HIDE DEF S
  <2> QED BY <1>1, <1>2, InductionUpTo
<1>4. N \in S
  <2> HIDE DEF S
  <2> QED BY <1>3
<1>5. \E x \in T(N) : \A y \in T(N) : x >= y
  BY <1>4
<1> HIDE DEF S
<1>6. Max(T(N)) \in T(N) /\ \A y \in T(N) : Max(T(N)) >= y
  <2> HIDE DEF T
  <2> QED BY <1>5 DEF Max
<1> QED BY <1>6

\* malloc visits majors of the list, and all of them.
LEMMA VisitsAreMajors ==
  ASSUME majors \in Seq(MajorType), NEW size
  PROVE  /\ Visits(size) \in Seq(DOMAIN majors)
         /\ \A k \in DOMAIN majors : \E v \in DOMAIN Visits(size) : Visits(size)[v] = k
<1>1. PICK D, all : D = DOMAIN majors /\ all = [k \in D |-> k]
  OBVIOUS
<1>2. D = 1 .. Len(majors) /\ Len(majors) \in Nat
  BY <1>1
<1>3. all \in Seq(D) /\ Len(all) = Len(majors) /\ DOMAIN all = D /\ \A k \in D : all[k] = k
  BY <1>1, <1>2
<1>4. PICK bet : bet = {k \in DOMAIN majors : majors[k].base = l_bestBet /\ Unused(majors[k]) > size + MINOR}
  OBVIOUS
<1>5. Visits(size) = IF bet = {} THEN all ELSE SubSeq(all, Min(bet), Len(all)) \o all
  BY <1>1, <1>4 DEF Visits
<1>6. CASE bet = {}
  <2>1. Visits(size) = all
    BY <1>5, <1>6
  <2> QED BY <1>1, <1>3, <2>1
<1>7. CASE bet # {}
  <2>1. PICK first \in D : first = Min(bet)
    <3>1. bet \in SUBSET Nat /\ bet \subseteq D
      BY <1>1, <1>2, <1>4
    <3>2. Min(bet) \in bet
      BY <1>7, <3>1, MinIsLeast
    <3> QED BY <3>1, <3>2
  <2>2. PICK part, order : part = SubSeq(all, first, Len(all)) /\ order = part \o all
    OBVIOUS
  <2>3. part \in Seq(D)
    <3>1. first \in 1 .. Len(all) + 1 /\ Len(all) \in first - 1 .. Len(all)
      BY <1>2, <1>3
    <3> QED BY <1>3, <2>2, <3>1, SubSeqGives
  <2>4. /\ order \in Seq(D) /\ Len(order) = Len(part) + Len(all)
        /\ \A n \in 1 .. Len(all) : order[Len(part) + n] = all[n]
    BY <1>3, <2>2, <2>3, ConcatGives, SMTT(30)
  <2>5. Visits(size) = order
    BY <1>5, <1>7, <2>1, <2>2
  <2>6. ASSUME NEW k \in D PROVE \E v \in DOMAIN order : order[v] = k
    <3>1. Len(part) \in Nat /\ k \in 1 .. Len(all)
      BY <1>2, <1>3, <2>3
    <3>2. PICK v : v = Len(part) + k
      OBVIOUS
    <3>3. v \in DOMAIN order
      BY <1>2, <1>3, <2>4, <3>1, <3>2
    <3>4. order[v] = k
      BY <1>3, <2>4, <3>1, <3>2
    <3> QED BY <3>3, <3>4
  <2> QED BY <1>1, <2>4, <2>5, <2>6
<1> QED BY <1>6, <1>7

\* Where malloc puts a block there is a gap for it.
LEMMA HitFits ==
  ASSUME majors \in Seq(MajorType), NEW size, Hits(size) # {},
         NEW k, k = Visits(size)[Min(Hits(size))], NEW g, g = Min(Gaps(majors[k], size))
  PROVE  /\ Min(Hits(size)) \in DOMAIN Visits(size)
         /\ k \in DOMAIN majors /\ g \in 0 .. Len(majors[k].minors) /\ FitsAfter(majors[k], g, size)
<1>1. PICK order \in Seq(DOMAIN majors) : order = Visits(size)
  BY VisitsAreMajors
<1>2. PICK first \in DOMAIN order : /\ first = Min(Hits(size))
                                    /\ Gaps(majors[order[first]], size) # {}
  <2>1. Hits(size) = {v \in DOMAIN order : Gaps(majors[order[v]], size) # {}}
    BY <1>1 DEF Hits
  <2>2. Hits(size) \in SUBSET Nat
    BY <2>1
  <2>3. Min(Hits(size)) \in Hits(size)
    BY <2>2, MinIsLeast
  <2> QED BY <2>1, <2>3
<1>3. k = order[first] /\ k \in DOMAIN majors
  BY <1>1, <1>2
<1>4. PICK gaps : gaps = Gaps(majors[k], size)
  OBVIOUS
<1>5. gaps # {} /\ gaps \in SUBSET Nat /\ gaps \subseteq 0 .. Len(majors[k].minors)
      /\ \A n \in gaps : FitsAfter(majors[k], n, size)
  BY <1>2, <1>3, <1>4 DEF Gaps
<1>6. g \in gaps
  BY <1>4, <1>5, MinIsLeast
<1> QED BY <1>1, <1>2, <1>3, <1>5, <1>6

\* What a major counts as unused is a number.
LEMMA UnusedIsInt ==
  ASSUME NEW maj \in MajorType
  PROVE  Unused(maj) \in Int
BY DEF Unused, MajorType

\* The best bet stays, or becomes one of the majors just visited.
LEMMA BestIsVisited ==
  ASSUME majors \in Seq(MajorType), BetIsListed, NEW visited \in Seq(MajorType)
  PROVE  BetAfter(visited) = l_bestBet \/ \E v \in DOMAIN visited : BetAfter(visited) = visited[v].base
<1>1. PICK bet \in Int : bet = BetSize
  <2>1. CASE l_bestBet = 0
    BY <2>1 DEF BetSize
  <2>2. CASE l_bestBet # 0
    <3>1. PICK k : /\ k = (CHOOSE j \in DOMAIN majors : majors[j].base = l_bestBet)
                   /\ k \in DOMAIN majors
      BY <2>2 DEF BetIsListed
    <3>2. BetSize = Unused(majors[k]) /\ majors[k] \in MajorType
      BY <2>2, <3>1 DEF BetSize
    <3> QED BY <3>2, UnusedIsInt
  <2> QED BY <2>1, <2>2
<1>2. PICK f : f = [v \in 1 .. Len(visited) |-> Unused(visited[v])]
  OBVIOUS
<1>3. f \in [1 .. Len(visited) -> Int] /\ Len(visited) \in Nat /\ DOMAIN visited = 1 .. Len(visited)
  BY <1>2, UnusedIsInt
<1>4. PICK T : T = {bet} \cup {f[v] : v \in 1 .. Len(visited)}
  OBVIOUS
<1>5. PICK best \in T : best = Max(T)
  BY <1>3, <1>4, MaxIsAttained
<1>6. T = {BetSize} \cup {Unused(visited[v]) : v \in DOMAIN visited}
  BY <1>1, <1>2, <1>3, <1>4
<1>7. PICK at : at = {v \in DOMAIN visited : Unused(visited[v]) = best}
  OBVIOUS
<1>8. BetAfter(visited) = IF best = bet THEN l_bestBet ELSE visited[Min(at)].base
  BY <1>1, <1>5, <1>6, <1>7 DEF BetAfter
<1>9. CASE best = bet
  BY <1>8, <1>9
<1>10. CASE best # bet
  <2>1. at # {}
    BY <1>1, <1>5, <1>6, <1>7, <1>10
  <2>2. at \in SUBSET Nat /\ at \subseteq DOMAIN visited
    BY <1>3, <1>7
  <2>3. Min(at) \in DOMAIN visited
    BY <2>1, <2>2, MinIsLeast
  <2> QED BY <1>8, <1>10, <2>3
<1> QED BY <1>9, <1>10

\* A quotient by the size of a page.
LEMMA PagesOfANumber ==
  ASSUME NEW x \in Nat
  PROVE  /\ x \div PAGE_SIZE \in Nat /\ x \div PAGE_SIZE <= x
         /\ (x + PAGE_SIZE - 1) \div PAGE_SIZE \in Nat
         /\ x <= ((x + PAGE_SIZE - 1) \div PAGE_SIZE) * PAGE_SIZE
<1>1. PICK P \in Nat \ {0} : P = PAGE_SIZE
  BY HeapAssumption
<1>2. PICK q \in Int, r \in 0 .. P - 1 : q = x \div P /\ x = P * q + r
  <2>1. x = P * (x \div P) + (x % P) /\ x \div P \in Int /\ x % P \in 0 .. P - 1
    OBVIOUS
  <2> QED BY <2>1
<1>3. q >= 0
  <2>1. q <= -1 => P * q <= -P
    OBVIOUS
  <2> QED BY <1>2, <2>1
<1>4. q <= P * q
  <2>1. PICK e \in Nat : P = e + 1
    <3>1. P - 1 \in Nat /\ P = (P - 1) + 1
      OBVIOUS
    <3> QED BY <3>1
  <2>2. P * q = e * q + q /\ e * q >= 0
    BY <1>3, <2>1
  <2> QED BY <2>2
<1>5. PICK y \in Nat : y = x + P - 1
  OBVIOUS
<1>6. PICK c \in Int, s \in 0 .. P - 1 : c = y \div P /\ y = P * c + s
  <2>1. y = P * (y \div P) + (y % P) /\ y \div P \in Int /\ y % P \in 0 .. P - 1
    OBVIOUS
  <2> QED BY <2>1
<1>7. c >= 0
  <2>1. c <= -1 => P * c <= -P
    OBVIOUS
  <2> QED BY <1>6, <2>1
<1>8. x <= P * c
  <2>1. PICK z \in Int : z = P * c
    OBVIOUS
  <2>2. y = z + s
    BY <1>6, <2>1
  <2> QED BY <1>5, <2>1, <2>2
<1>9. P * c = c * P
  OBVIOUS
<1> QED BY <1>1, <1>2, <1>3, <1>4, <1>5, <1>6, <1>7, <1>8, <1>9

\* The number of the page at an address.
LEMMA PageAt ==
  ASSUME NEW p \in Nat
  PROVE  p * PAGE_SIZE \in Nat /\ (p * PAGE_SIZE) \div PAGE_SIZE = p
<1>1. PICK P \in Nat \ {0} : P = PAGE_SIZE
  BY HeapAssumption
<1>2. PICK x \in Nat : x = p * P
  OBVIOUS
<1>3. PICK q \in Int, r \in 0 .. P - 1 : q = x \div P /\ x = P * q + r
  <2>1. x = P * (x \div P) + (x % P) /\ x \div P \in Int /\ x % P \in 0 .. P - 1
    OBVIOUS
  <2> QED BY <2>1
<1>4. PICK d \in Int : d = p - q
  OBVIOUS
<1>5. P * d = r
  <2>1. P * p = P * q + P * d
    BY <1>4
  <2>2. p * P = P * p
    OBVIOUS
  <2>3. PICK a \in Int, b \in Int, e \in Int : a = P * p /\ b = P * q /\ e = P * d
    OBVIOUS
  <2>4. a = b + e /\ a = b + r
    BY <1>2, <1>3, <2>1, <2>2, <2>3
  <2>5. e = r
    BY <2>4
  <2> QED BY <2>3, <2>5
<1>6. d >= 1 => P * d >= P
  OBVIOUS
<1>7. d <= -1 => P * d <= -P
  OBVIOUS
<1>8. d = 0
  BY <1>5, <1>6, <1>7
<1>9. q = p
  BY <1>4, <1>8
<1> QED BY <1>1, <1>2, <1>3, <1>9

\* A new major has room for the block it is made for.
LEMMA NewMajorFits ==
  ASSUME NEW base \in Nat, NEW size \in Nat
  PROVE  /\ MajorInv(NewMajor(base, size)) /\ InBlocks(NewMajor(base, size)) = 0
         /\ FitsAfter(NewMajor(base, size), 0, size)
         /\ NewMajor(base, size).base = base /\ NewMajor(base, size).pages = NewPages(size)
         /\ NewMajor(base, size).minors = <<>> /\ NewPages(size) \in Nat \ {0}
<1>1. PICK need \in Nat : need = size + MAJOR + MINOR
  BY HeapAssumption
<1>2. PICK c \in Nat : c = (need + PAGE_SIZE - 1) \div PAGE_SIZE /\ need <= c * PAGE_SIZE
  BY PagesOfANumber
<1>3. PAGE_COUNT \in Nat \ {0} /\ PAGE_SIZE \in Nat \ {0} /\ MAJOR \in Nat /\ MINOR \in Nat
  BY HeapAssumption
<1>4. PICK n \in Nat \ {0} : n = NewPages(size) /\ n >= c
  <2>1. PICK T : T = {PAGE_COUNT, c} /\ Max(T) = NewPages(size)
    BY <1>1, <1>2 DEF NewPages
  <2>2. Max(T) = CHOOSE x \in T : \A y \in T : x >= y
    BY DEF Max
  <2>3. \E x \in T : \A y \in T : x >= y
    BY <1>3, <2>1
  <2>4. Max(T) \in T /\ \A y \in T : Max(T) >= y
    BY <2>2, <2>3
  <2>5. Max(T) >= PAGE_COUNT /\ Max(T) >= c /\ Max(T) \in Nat
    BY <1>3, <2>1, <2>4
  <2>6. Max(T) \in Nat \ {0}
    BY <1>3, <2>5
  <2> QED BY <2>1, <2>5, <2>6
<1>5. PICK bytes \in Nat : bytes = n * PAGE_SIZE /\ need <= bytes
  <2>1. PICK d \in Nat : n = c + d
    <3>1. n - c \in Nat /\ n = c + (n - c)
      BY <1>4
    <3> QED BY <3>1
  <2>2. PICK P \in Nat : P = PAGE_SIZE
    BY <1>3
  <2>3. n * P = c * P + d * P /\ c * P \in Nat /\ d * P \in Nat
    BY <2>1
  <2>4. need <= n * P /\ n * P \in Nat
    BY <1>2, <2>2, <2>3
  <2> QED BY <2>2, <2>4
<1>6. PICK maj : maj = NewMajor(base, size)
  OBVIOUS
<1>7. maj = [base |-> base, pages |-> n, size |-> bytes, usage |-> MAJOR, minors |-> <<>>]
  BY <1>4, <1>5, <1>6 DEF NewMajor
<1>8. maj \in MajorType /\ maj.base = base /\ maj.pages = n /\ maj.size = bytes
      /\ maj.usage = MAJOR /\ maj.minors = <<>>
  <2>1. <<>> \in Seq(MinorType)
    OBVIOUS
  <2> QED BY <1>3, <1>7, <2>1 DEF MajorType
<1>9. TotalOf(<<>>) = 0
  <2>1. <<>> \in Seq(Int) /\ Len(<<>>) = 0
    OBVIOUS
  <2>2. PICK f : Running(f, <<>>) /\ TotalOf(<<>>) = f[Len(<<>>)]
    BY <2>1, TotalIsRunning
  <2> QED BY <2>1, <2>2 DEF Running
<1>10. InUse(maj) = MAJOR /\ InBlocks(maj) = 0
  <2>1. [k \in DOMAIN maj.minors |-> maj.minors[k].size] = <<>>
        /\ [k \in DOMAIN maj.minors |-> maj.minors[k].size + MINOR] = <<>>
    BY <1>8
  <2>2. InUse(maj) = MAJOR + TotalOf(<<>>) /\ InBlocks(maj) = TotalOf(<<>>)
    BY <2>1, Zenon DEF InUse, InBlocks
  <2> QED BY <1>3, <1>9, <2>2
<1>11. DOMAIN maj.minors = {} /\ Len(maj.minors) = 0
  BY <1>8
<1>12. BlocksFill(maj)
  BY <1>11 DEF BlocksFill
<1>13. MajorInv(maj)
  BY <1>8, <1>10, <1>11, <1>12 DEF MajorInv
<1>14. FitsAfter(maj, 0, size)
  <2>1. (maj.base + maj.size) - (maj.base + MAJOR) >= size + MINOR
    BY <1>1, <1>3, <1>5, <1>8
  <2> QED BY <1>11, <2>1 DEF FitsAfter
<1> QED BY <1>4, <1>6, <1>8, <1>10, <1>13, <1>14

\* The sums of a major are numbers.
LEMMA TotalsAreNat ==
  ASSUME NEW maj \in MajorType
  PROVE  InBlocks(maj) \in Nat /\ InUse(maj) \in Nat
BY SizesAdd, Zenon

\* What the heap says is in use and what it says it holds are no less than 0.
LEMMA HeapTotalsAreNat ==
  ASSUME HeapInv
  PROVE  l_inuse \in Nat /\ l_allocated \in Nat
<1>1. PICK list \in Seq(MajorType) : list = majors
  BY DEF HeapInv
<1>2. \A n \in 1 .. Len(list) : InBlocks(list[n]) \in Nat /\ list[n].size \in Nat
  <2>1. ASSUME NEW n \in 1 .. Len(list) PROVE InBlocks(list[n]) \in Nat /\ list[n].size \in Nat
    <3>1. list[n] \in MajorType
      OBVIOUS
    <3>2. list[n].size \in Nat
      BY <3>1 DEF MajorType
    <3> QED BY <3>1, <3>2, TotalsAreNat
  <2> QED BY <2>1
<1>3. [n \in DOMAIN list |-> InBlocks(list[n])] \in Seq(Nat)
  BY <1>2
<1>4. [n \in DOMAIN list |-> list[n].size] \in Seq(Nat)
  BY <1>2
<1>5. TotalOf([n \in DOMAIN list |-> InBlocks(list[n])]) \in Nat
  BY <1>3, TotalIsNat
<1>6. TotalOf([n \in DOMAIN list |-> list[n].size]) \in Nat
  BY <1>4, TotalIsNat
<1> QED BY <1>1, <1>5, <1>6 DEF HeapInv

\* The pages of a major depend on where it is and how many it has.
SamePlace(one, other) ==
  one.base = other.base /\ one.pages = other.pages /\ one.size = other.size

\* A step that only changes the blocks of one major.
LEMMA ChangedMajor ==
  ASSUME HeapInv, NEW k \in DOMAIN majors, NEW new, MajorInv(new), SamePlace(new, majors[k]),
         majors' = [majors EXCEPT ![k] = new], UNCHANGED <<granted, l_allocated, panicked>>,
         l_inuse' = l_inuse + (InBlocks(new) - InBlocks(majors[k])),
         l_bestBet' = l_bestBet \/ \E n \in DOMAIN majors : l_bestBet' = majors[n].base
  PROVE  HeapInv'
<1>1. PICK old \in Seq(MajorType), now \in Seq(MajorType) :
        /\ old = majors /\ now = majors' /\ Len(now) = Len(old)
        /\ now[k] = new /\ \A n \in 1 .. Len(old) : n # k => now[n] = old[n]
  <2>1. majors \in Seq(MajorType) /\ new \in MajorType
    BY DEF HeapInv, MajorInv
  <2> QED BY <2>1
<1>2. k \in 1 .. Len(old) /\ DOMAIN old = 1 .. Len(old) /\ DOMAIN now = DOMAIN old
  BY <1>1
<1>3. \A n \in DOMAIN old : SamePlace(now[n], old[n]) /\ MajorInv(now[n])
  BY <1>1, <1>2 DEF HeapInv, SamePlace
<1>4. MajorsAreGranted'
  <2>1. \A n \in DOMAIN old : PagesOf(now[n].base, now[n].pages) = PagesOf(old[n].base, old[n].pages)
    BY <1>3 DEF SamePlace
  <2>2. \A n \in DOMAIN old : PagesOf(old[n].base, old[n].pages) \subseteq granted
    BY <1>1 DEF HeapInv, MajorsAreGranted
  <2>3. \A h, n \in DOMAIN old : h < n =>
          PagesOf(old[h].base, old[h].pages) \cap PagesOf(old[n].base, old[n].pages) = {}
    BY <1>1 DEF HeapInv, MajorsAreGranted
  <2>4. \A n \in DOMAIN now : PagesOf(now[n].base, now[n].pages) \subseteq granted'
    BY <1>2, <2>1, <2>2
  <2>5. \A h, n \in DOMAIN now : h < n =>
          PagesOf(now[h].base, now[h].pages) \cap PagesOf(now[n].base, now[n].pages) = {}
    BY <1>2, <2>1, <2>3
  <2> QED BY <1>1, <2>4, <2>5 DEF MajorsAreGranted, PagesOf
<1>5. BetIsListed'
  <2>1. CASE l_bestBet' = l_bestBet
    BY <1>1, <1>2, <1>3, <2>1, ZenonT(30) DEF HeapInv, BetIsListed, SamePlace
  <2>2. CASE \E n \in DOMAIN majors : l_bestBet' = majors[n].base
    <3>1. PICK n \in DOMAIN majors : l_bestBet' = majors[n].base
      BY <2>2
    <3>2. n \in DOMAIN now /\ now[n].base = l_bestBet'
      BY <1>1, <1>2, <1>3, <3>1 DEF SamePlace
    <3> QED BY <1>1, <3>2 DEF BetIsListed
  <2> QED BY <2>1, <2>2
<1>6. \A n \in DOMAIN old : InBlocks(old[n]) \in Int /\ InBlocks(now[n]) \in Int
  <2>1. \A n \in DOMAIN old : old[n] \in MajorType /\ now[n] \in MajorType
    BY <1>1, <1>2
  <2>2. \A maj \in MajorType : InBlocks(maj) \in Int
    <3>1. ASSUME NEW maj \in MajorType PROVE InBlocks(maj) \in Int
      BY TotalsAreNat
    <3> QED BY <3>1
  <2> QED BY <2>1, <2>2
<1>7. PICK s, t : s = [n \in DOMAIN old |-> InBlocks(old[n])] /\ t = [n \in DOMAIN now |-> InBlocks(now[n])]
  OBVIOUS
<1>8. /\ s \in Seq(Int) /\ t \in Seq(Int) /\ Len(t) = Len(s) /\ Len(s) = Len(old)
      /\ \A n \in 1 .. Len(old) : s[n] = InBlocks(old[n]) /\ t[n] = InBlocks(now[n])
  BY <1>2, <1>6, <1>7
<1>9. TotalOf(t) = TotalOf(s) + (t[k] - s[k])
  <2>1. \A n \in 1 .. Len(s) : n # k => t[n] = s[n]
    BY <1>1, <1>8
  <2>2. k \in 1 .. Len(s)
    BY <1>2, <1>8
  <2> QED BY <1>8, <2>1, <2>2, TotalOfReplaced
<1>10. l_inuse' = TotalOf(t)
  <2>1. l_inuse = TotalOf(s)
    BY <1>1, <1>7 DEF HeapInv
  <2>2. t[k] = InBlocks(new) /\ s[k] = InBlocks(majors[k])
    BY <1>1, <1>2, <1>8
  <2> QED BY <1>9, <2>1, <2>2
<1>11. [n \in DOMAIN now |-> now[n].size] = [n \in DOMAIN old |-> old[n].size]
  BY <1>2, <1>3 DEF SamePlace
<1>12. l_allocated' = TotalOf([n \in DOMAIN now |-> now[n].size])
  BY <1>1, <1>11 DEF HeapInv
<1> QED BY <1>1, <1>2, <1>3, <1>4, <1>5, <1>7, <1>10, <1>12 DEF HeapInv

\* The first n majors malloc visits.
LEMMA VisitedAreMajors ==
  ASSUME majors \in Seq(MajorType), NEW order \in Seq(DOMAIN majors), NEW n \in 0 .. Len(order),
         NEW visited, visited = [v \in 1 .. n |-> majors[order[v]]]
  PROVE  visited \in Seq(MajorType) /\ \A v \in DOMAIN visited : \E j \in DOMAIN majors : visited[v] = majors[j]
<1>1. n \in Nat /\ \A v \in 1 .. n : order[v] \in DOMAIN majors
  OBVIOUS
<1>2. \A v \in 1 .. n : majors[order[v]] \in MajorType
  BY <1>1
<1>3. visited \in Seq(MajorType) /\ DOMAIN visited = 1 .. n
  BY <1>1, <1>2
<1>4. ASSUME NEW v \in DOMAIN visited PROVE \E j \in DOMAIN majors : visited[v] = majors[j]
  BY <1>1, <1>3
<1> QED BY <1>3, <1>4

\* The size of a block for a request.
LEMMA SizeOfRequest ==
  ASSUME NEW req \in Requests
  PROVE  req + ALIGNMENT + ALIGN_INFO \in Nat
BY HeapAssumption

\* malloc in a gap: the block is put where it fits and accounted for once.
LEMMA MallocInGapKeepsHeap ==
  ASSUME HeapInv, NEW req \in Requests, MallocInGap(req)
  PROVE  HeapInv'
<1>1. PICK size \in Nat : size = req + ALIGNMENT + ALIGN_INFO
  BY SizeOfRequest
<1>2. majors \in Seq(MajorType)
  BY DEF HeapInv
<1>3. PICK first, k, g : first = Min(Hits(size)) /\ k = Visits(size)[first] /\ g = Min(Gaps(majors[k], size))
  OBVIOUS
<1>4. Hits(size) # {}
  BY <1>1 DEF MallocInGap
<1>5. /\ first \in DOMAIN Visits(size) /\ k \in DOMAIN majors
      /\ g \in 0 .. Len(majors[k].minors) /\ FitsAfter(majors[k], g, size)
  BY <1>2, <1>3, <1>4, HitFits
<1>6. PICK new : new = WithBlock(majors[k], g, size, req)
  OBVIOUS
<1>7. MajorInv(new) /\ SamePlace(new, majors[k]) /\ InBlocks(new) = InBlocks(majors[k]) + size
  <2>1. MajorInv(majors[k])
    BY <1>5 DEF HeapInv
  <2> QED BY <1>1, <1>5, <1>6, <2>1, WithBlockKeepsMajor DEF SamePlace
<1>8. majors' = [majors EXCEPT ![k] = new] /\ UNCHANGED <<granted, l_allocated, panicked>>
      /\ l_inuse' = l_inuse + size
  BY <1>1, <1>3, <1>6 DEF MallocInGap, Account
<1>9. InBlocks(majors[k]) \in Nat
  <2>1. majors[k] \in MajorType
    BY <1>2, <1>5
  <2> QED BY <2>1, TotalsAreNat
<1>10. l_inuse' = l_inuse + (InBlocks(new) - InBlocks(majors[k]))
  BY <1>7, <1>8, <1>9
<1>11. l_bestBet' = l_bestBet \/ \E n \in DOMAIN majors : l_bestBet' = majors[n].base
  <2>0. PICK order \in Seq(DOMAIN majors) : order = Visits(size)
    BY <1>2, VisitsAreMajors
  <2>1. PICK visited : visited = [v \in 1 .. first |-> majors[order[v]]]
    OBVIOUS
  <2>2. first \in 0 .. Len(order)
    BY <1>5, <2>0
  <2>3. /\ visited \in Seq(MajorType)
        /\ \A v \in DOMAIN visited : \E j \in DOMAIN majors : visited[v] = majors[j]
    BY <1>2, <2>1, <2>2, VisitedAreMajors
  <2>4. l_bestBet' = BetAfter(visited)
    BY <1>1, <1>3, <2>0, <2>1 DEF MallocInGap
  <2>5. BetAfter(visited) = l_bestBet \/ \E v \in DOMAIN visited : BetAfter(visited) = visited[v].base
    BY <1>2, <2>3, BestIsVisited DEF HeapInv
  <2> QED BY <2>3, <2>4, <2>5
<1> QED BY <1>5, <1>7, <1>8, <1>10, <1>11, ChangedMajor

\* free of one block of several: what it took comes back, once.
LEMMA FreeBlockKeepsHeap ==
  ASSUME HeapInv, NEW k \in DOMAIN majors, NEW g \in DOMAIN majors[k].minors, FreeBlock(k, g)
  PROVE  HeapInv'
<1>1. majors \in Seq(MajorType) /\ majors[k] \in MajorType /\ MajorInv(majors[k])
  <2>1. majors \in Seq(MajorType) /\ MajorInv(majors[k])
    BY DEF HeapInv
  <2> QED BY <2>1 DEF MajorInv
<1>2. PICK left : left = Left(majors[k], g)
  OBVIOUS
<1>3. /\ MajorInv(left) /\ SamePlace(left, majors[k])
      /\ InBlocks(majors[k]) = InBlocks(left) + majors[k].minors[g].size
  BY <1>1, <1>2, WithoutBlockKeepsMajor DEF SamePlace
<1>4. majors' = [majors EXCEPT ![k] = left] /\ UNCHANGED <<granted, l_allocated, panicked>>
      /\ l_inuse' = l_inuse - majors[k].minors[g].size
  BY <1>2 DEF FreeBlock, Left
<1>5. l_bestBet' = l_bestBet \/ l_bestBet' = majors[k].base
  BY DEF FreeBlock
<1>6. l_inuse' = l_inuse + (InBlocks(left) - InBlocks(majors[k]))
  <2>1. left \in MajorType
    BY <1>3 DEF MajorInv
  <2>2. InBlocks(left) \in Nat /\ InBlocks(majors[k]) \in Nat
    BY <1>1, <2>1, TotalsAreNat
  <2>3. majors[k].minors[g].size \in Nat
    BY <1>1, MinorsAreTyped
  <2>4. l_inuse \in Int
    BY HeapTotalsAreNat
  <2> QED BY <1>3, <1>4, <2>2, <2>3, <2>4
<1> QED BY <1>3, <1>4, <1>5, <1>6, ChangedMajor

\* Two lists of majors of which one has a major the other has not.
LEMMA OneMajorMore ==
  ASSUME NEW few \in Seq(MajorType), NEW many \in Seq(MajorType), NEW k \in 1 .. Len(many),
         Len(many) = Len(few) + 1,
         \A n \in 1 .. k - 1 : many[n] = few[n], \A n \in k .. Len(few) : many[n + 1] = few[n]
  PROVE  /\ TotalOf([n \in DOMAIN many |-> InBlocks(many[n])])
              = TotalOf([n \in DOMAIN few |-> InBlocks(few[n])]) + InBlocks(many[k])
         /\ TotalOf([n \in DOMAIN many |-> many[n].size])
              = TotalOf([n \in DOMAIN few |-> few[n].size]) + many[k].size
<1>0. ASSUME NEW maj \in MajorType PROVE InBlocks(maj) \in Int /\ maj.size \in Int
  <2>1. maj.size \in Nat
    BY DEF MajorType
  <2> QED BY <2>1, TotalsAreNat
<1>1. /\ \A n \in 1 .. Len(few) : few[n] \in MajorType
      /\ \A n \in 1 .. Len(many) : many[n] \in MajorType
      /\ DOMAIN few = 1 .. Len(few) /\ DOMAIN many = 1 .. Len(many) /\ Len(few) \in Nat
  OBVIOUS
<1>2. ASSUME NEW n \in k .. Len(few) PROVE n \in 1 .. Len(few) /\ n + 1 \in 1 .. Len(many)
  OBVIOUS
<1>3. TotalOf([n \in DOMAIN many |-> InBlocks(many[n])])
        = TotalOf([n \in DOMAIN few |-> InBlocks(few[n])]) + InBlocks(many[k])
  <2>1. PICK s, t : s = [n \in DOMAIN few |-> InBlocks(few[n])] /\ t = [n \in DOMAIN many |-> InBlocks(many[n])]
    OBVIOUS
  <2>2. \A n \in 1 .. Len(few) : s[n] = InBlocks(few[n])
    BY <1>1, <2>1
  <2>3. \A n \in 1 .. Len(many) : t[n] = InBlocks(many[n])
    BY <1>1, <2>1
  <2>4. s \in Seq(Int) /\ Len(s) = Len(few)
    <3>1. \A n \in 1 .. Len(few) : InBlocks(few[n]) \in Int
      BY <1>0, <1>1
    <3> QED BY <1>1, <2>1, <3>1
  <2>5. t \in Seq(Int) /\ Len(t) = Len(many)
    <3>1. \A n \in 1 .. Len(many) : InBlocks(many[n]) \in Int
      BY <1>0, <1>1
    <3> QED BY <1>1, <2>1, <3>1
  <2>6. \A n \in 1 .. k - 1 : t[n] = s[n]
    BY <2>2, <2>3
  <2>7. \A n \in k .. Len(s) : t[n + 1] = s[n]
    BY <1>2, <2>2, <2>3, <2>4
  <2>8. k \in 1 .. Len(t) /\ Len(t) = Len(s) + 1
    BY <2>4, <2>5
  <2>9. TotalOf(t) = TotalOf(s) + t[k]
    BY <2>4, <2>5, <2>6, <2>7, <2>8, TotalOfInserted
  <2> QED BY <2>1, <2>3, <2>9
<1>4. TotalOf([n \in DOMAIN many |-> many[n].size])
        = TotalOf([n \in DOMAIN few |-> few[n].size]) + many[k].size
  <2>1. PICK s, t : s = [n \in DOMAIN few |-> few[n].size] /\ t = [n \in DOMAIN many |-> many[n].size]
    OBVIOUS
  <2>2. \A n \in 1 .. Len(few) : s[n] = few[n].size
    BY <1>1, <2>1
  <2>3. \A n \in 1 .. Len(many) : t[n] = many[n].size
    BY <1>1, <2>1
  <2>4. s \in Seq(Int) /\ Len(s) = Len(few)
    <3>1. \A n \in 1 .. Len(few) : few[n].size \in Int
      BY <1>0, <1>1
    <3> QED BY <1>1, <2>1, <3>1
  <2>5. t \in Seq(Int) /\ Len(t) = Len(many)
    <3>1. \A n \in 1 .. Len(many) : many[n].size \in Int
      BY <1>0, <1>1
    <3> QED BY <1>1, <2>1, <3>1
  <2>6. \A n \in 1 .. k - 1 : t[n] = s[n]
    BY <2>2, <2>3
  <2>7. \A n \in k .. Len(s) : t[n + 1] = s[n]
    BY <1>2, <2>2, <2>3, <2>4
  <2>8. k \in 1 .. Len(t) /\ Len(t) = Len(s) + 1
    BY <2>4, <2>5
  <2>9. TotalOf(t) = TotalOf(s) + t[k]
    BY <2>4, <2>5, <2>6, <2>7, <2>8, TotalOfInserted
  <2> QED BY <2>1, <2>3, <2>9
<1> QED BY <1>3, <1>4

\* malloc in a new major: its pages are nobody's, it has room for its first
\* block, and the best bet is a major of the list even when it is the new one.
LEMMA MallocInNewMajorKeepsHeap ==
  ASSUME HeapInv, NEW req \in Requests, MallocInNewMajor(req)
  PROVE  HeapInv'
<1>1. PICK size \in Nat : size = req + ALIGNMENT + ALIGN_INFO
  BY SizeOfRequest
<1>2. PICK old \in Seq(MajorType) : old = majors
  BY DEF HeapInv
<1>3. PICK count \in Nat \ {0}, p \in Nat \ {0} :
        /\ count = NewPages(size) /\ p = Min(FreeRuns(count))
        /\ p + count - 1 <= HeapPages /\ p .. p + count - 1 \cap granted = {}
  <2>1. PICK count \in Nat \ {0} : count = NewPages(size)
    BY NewMajorFits
  <2>2. FreeRuns(count) # {}
    BY <1>1, <2>1 DEF MallocInNewMajor
  <2>3. FreeRuns(count) \in SUBSET Nat
    BY DEF FreeRuns
  <2>4. Min(FreeRuns(count)) \in FreeRuns(count)
    BY <2>2, <2>3, MinIsLeast
  <2>5. HeapPages \in Nat
    BY HeapAssumption
  <2>6. PICK p : p = Min(FreeRuns(count))
    OBVIOUS
  <2>7. p \in 1 .. HeapPages - count + 1 /\ p .. p + count - 1 \cap granted = {}
    BY <2>4, <2>6 DEF FreeRuns
  <2>8. p \in Nat \ {0} /\ p + count - 1 <= HeapPages
    BY <2>5, <2>7
  <2> QED BY <2>1, <2>6, <2>7, <2>8
<1>4. PICK base \in Nat : base = p * PAGE_SIZE /\ base \div PAGE_SIZE = p
  BY PageAt
<1>5. PICK fresh : fresh = NewMajor(base, size)
  OBVIOUS
<1>6. /\ MajorInv(fresh) /\ InBlocks(fresh) = 0 /\ FitsAfter(fresh, 0, size)
      /\ fresh.base = base /\ fresh.pages = count /\ fresh.minors = <<>>
  BY <1>3, <1>5, NewMajorFits
<1>7. PICK new : new = WithBlock(fresh, 0, size, req)
  OBVIOUS
<1>8. /\ MajorInv(new) /\ new.base = base /\ new.pages = count /\ new.size = fresh.size
      /\ InBlocks(new) = size
  <2>1. 0 \in 0 .. Len(fresh.minors)
    BY <1>6
  <2>2. /\ MajorInv(new) /\ new.base = fresh.base /\ new.pages = fresh.pages /\ new.size = fresh.size
        /\ InBlocks(new) = InBlocks(fresh) + size
    BY <1>1, <1>6, <1>7, <2>1, WithBlockKeepsMajor
  <2> QED BY <1>1, <1>6, <2>2
<1>9. new \in MajorType /\ fresh \in MajorType
  BY <1>6, <1>8 DEF MajorInv
<1>10. /\ majors' = Append(old, new) /\ granted' = granted \cup PagesOf(base, count)
       /\ l_allocated' = l_allocated + new.size /\ l_inuse' = l_inuse + size
       /\ UNCHANGED panicked
  BY <1>1, <1>2, <1>3, <1>4, <1>5, <1>6, <1>7, <1>8 DEF MallocInNewMajor, Account
<1>11. PICK now \in Seq(MajorType) :
         /\ now = majors' /\ Len(now) = Len(old) + 1 /\ now[Len(old) + 1] = new
         /\ \A n \in 1 .. Len(old) : now[n] = old[n]
  BY <1>9, <1>10
<1>12. /\ DOMAIN old = 1 .. Len(old) /\ DOMAIN now = 1 .. Len(old) + 1 /\ Len(old) \in Nat
  BY <1>11
<1>13. \A n \in DOMAIN now : MajorInv(now[n])
  <2>1. \A n \in DOMAIN old : MajorInv(old[n])
    BY <1>2 DEF HeapInv
  <2>2. ASSUME NEW n \in DOMAIN now PROVE now[n] = new \/ (n \in DOMAIN old /\ now[n] = old[n])
    BY <1>11, <1>12
  <2> QED BY <1>8, <2>1, <2>2
<1>14. PagesOf(base, count) = p .. p + count - 1
  BY <1>4 DEF PagesOf
<1>15. granted' \subseteq 1 .. HeapPages
  <2>1. p .. p + count - 1 \subseteq 1 .. HeapPages
    <3>1. p \in Nat /\ count \in Nat /\ HeapPages \in Nat /\ p >= 1 /\ p + count - 1 <= HeapPages
      BY <1>3, HeapAssumption
    <3> QED BY <3>1
  <2> QED BY <1>10, <1>14, <2>1 DEF HeapInv
<1>16. MajorsAreGranted'
  <2>1. \A n \in DOMAIN old : PagesOf(old[n].base, old[n].pages) \subseteq granted
    BY <1>2 DEF HeapInv, MajorsAreGranted
  <2>2. \A h, n \in DOMAIN old : h < n =>
          PagesOf(old[h].base, old[h].pages) \cap PagesOf(old[n].base, old[n].pages) = {}
    BY <1>2 DEF HeapInv, MajorsAreGranted
  <2>3. PagesOf(new.base, new.pages) \cap granted = {} /\ PagesOf(new.base, new.pages) \subseteq granted'
    BY <1>3, <1>8, <1>10, <1>14
  <2>4. \A n \in DOMAIN now : PagesOf(now[n].base, now[n].pages) \subseteq granted'
    BY <1>10, <1>11, <1>12, <2>1, <2>3
  <2>5. ASSUME NEW h \in DOMAIN now, NEW n \in DOMAIN now, h < n
        PROVE  PagesOf(now[h].base, now[h].pages) \cap PagesOf(now[n].base, now[n].pages) = {}
    <3>1. h \in DOMAIN old /\ now[h] = old[h] /\ (n \in DOMAIN old \/ n = Len(old) + 1)
      BY <1>11, <1>12, <2>5
    <3>2. CASE n \in DOMAIN old
      BY <1>11, <1>12, <2>2, <2>5, <3>1, <3>2
    <3>3. CASE n = Len(old) + 1
      BY <1>11, <2>1, <2>3, <3>1, <3>3
    <3> QED BY <3>1, <3>2, <3>3
  <2> QED BY <1>11, <2>4, <2>5 DEF MajorsAreGranted, PagesOf
<1>17. BetIsListed'
  <2>0. PICK order \in Seq(DOMAIN majors) : order = Visits(size)
    BY <1>2, VisitsAreMajors
  <2>1. PICK visited : visited = [v \in 1 .. Len(order) |-> majors[order[v]]]
    OBVIOUS
  <2>2. Len(order) \in 0 .. Len(order) /\ DOMAIN order = 1 .. Len(order)
    OBVIOUS
  <2>3. /\ visited \in Seq(MajorType)
        /\ \A v \in DOMAIN visited : \E j \in DOMAIN majors : visited[v] = majors[j]
    BY <1>2, <2>1, <2>2, VisitedAreMajors
  <2>4. PICK longer \in Seq(MajorType) : longer = Append(visited, fresh)
    <3>1. Append(visited, fresh) \in Seq(MajorType)
      BY <1>9, <2>3
    <3> QED BY <3>1
  <2>5. ASSUME NEW v \in DOMAIN longer
        PROVE  longer[v] = fresh \/ \E j \in DOMAIN majors : longer[v] = majors[j]
    <3>1. (v \in DOMAIN visited /\ longer[v] = visited[v]) \/ longer[v] = fresh
      BY <1>9, <2>3, <2>4
    <3> QED BY <2>3, <3>1
  <2>6. l_bestBet' = BetAfter(longer) \/ l_bestBet' = BetAfter(visited)
    BY <1>1, <1>3, <1>4, <1>5, <2>0, <2>1, <2>2, <2>4 DEF MallocInNewMajor
  <2>7. l_bestBet' \in {l_bestBet, base} \/ \E j \in DOMAIN majors : l_bestBet' = majors[j].base
    <3>1. CASE l_bestBet' = BetAfter(longer)
      <4>1. BetAfter(longer) = l_bestBet \/ \E v \in DOMAIN longer : BetAfter(longer) = longer[v].base
        BY <1>2, BestIsVisited DEF HeapInv
      <4> QED BY <1>6, <2>5, <3>1, <4>1
    <3>2. CASE l_bestBet' = BetAfter(visited)
      <4>1. BetAfter(visited) = l_bestBet \/ \E v \in DOMAIN visited : BetAfter(visited) = visited[v].base
        BY <1>2, <2>3, BestIsVisited DEF HeapInv
      <4> QED BY <2>3, <3>2, <4>1
    <3> QED BY <2>6, <3>1, <3>2
  <2>8. l_bestBet' = base \/ l_bestBet' = 0 \/ \E j \in DOMAIN old : l_bestBet' = old[j].base
    BY <1>2, <2>7 DEF HeapInv, BetIsListed
  <2>9. l_bestBet' = 0 \/ \E j \in DOMAIN now : l_bestBet' = now[j].base
    <3>1. CASE l_bestBet' = base
      <4>1. Len(old) + 1 \in DOMAIN now /\ now[Len(old) + 1].base = base
        BY <1>8, <1>11, <1>12
      <4> QED BY <3>1, <4>1
    <3>2. CASE \E j \in DOMAIN old : l_bestBet' = old[j].base
      <4>1. PICK j \in DOMAIN old : l_bestBet' = old[j].base
        BY <3>2
      <4>2. j \in DOMAIN now /\ now[j] = old[j]
        BY <1>11, <1>12
      <4> QED BY <4>1, <4>2
    <3> QED BY <2>8, <3>1, <3>2
  <2> QED BY <1>11, <2>9 DEF BetIsListed
<1>18. /\ TotalOf([n \in DOMAIN now |-> InBlocks(now[n])])
            = TotalOf([n \in DOMAIN old |-> InBlocks(old[n])]) + InBlocks(now[Len(now)])
       /\ TotalOf([n \in DOMAIN now |-> now[n].size])
            = TotalOf([n \in DOMAIN old |-> old[n].size]) + now[Len(now)].size
  <2>1. PICK k \in 1 .. Len(now) : k = Len(now) /\ k - 1 = Len(old)
    BY <1>11, <1>12
  <2>2. \A n \in 1 .. k - 1 : now[n] = old[n]
    BY <1>11, <2>1
  <2>3. \A n \in k .. Len(old) : now[n + 1] = old[n]
    BY <1>12, <2>1
  <2>4. Len(now) = Len(old) + 1
    BY <1>11
  <2>5. /\ TotalOf([n \in DOMAIN now |-> InBlocks(now[n])])
             = TotalOf([n \in DOMAIN old |-> InBlocks(old[n])]) + InBlocks(now[k])
        /\ TotalOf([n \in DOMAIN now |-> now[n].size])
             = TotalOf([n \in DOMAIN old |-> old[n].size]) + now[k].size
    BY <2>2, <2>3, <2>4, OneMajorMore
  <2> QED BY <2>1, <2>5
<1>19. now[Len(now)] = new
  BY <1>11
<1>20. l_inuse' = TotalOf([n \in DOMAIN now |-> InBlocks(now[n])])
       /\ l_allocated' = TotalOf([n \in DOMAIN now |-> now[n].size])
  BY <1>2, <1>8, <1>10, <1>18, <1>19 DEF HeapInv
<1> QED BY <1>10, <1>11, <1>13, <1>15, <1>16, <1>17, <1>20 DEF HeapInv

\* free of a last block: the major leaves the list, and what is given back of
\* its pages (fewer than it has) is no other major's.
LEMMA FreeLastBlockKeepsHeap ==
  ASSUME HeapInv, NEW k \in DOMAIN majors, FreeLastBlock(k)
  PROVE  HeapInv'
<1>1. PICK old \in Seq(MajorType) : old = majors
  BY DEF HeapInv
<1>2. PICK now \in Seq(MajorType) :
        /\ now = majors' /\ Len(now) = Len(old) - 1
        /\ \A n \in 1 .. k - 1 : now[n] = old[n]
        /\ \A n \in k .. Len(old) - 1 : now[n] = old[n + 1]
  <2>1. majors' = RemoveAt(old, k) /\ k \in 1 .. Len(old)
    BY <1>1 DEF FreeLastBlock
  <2> QED BY <2>1, RemoveAtGives
<1>3. /\ DOMAIN old = 1 .. Len(old) /\ DOMAIN now = 1 .. Len(old) - 1 /\ Len(old) \in Nat
      /\ k \in 1 .. Len(old)
  BY <1>1, <1>2
<1>4. ASSUME NEW n \in DOMAIN now
      PROVE  \E j \in DOMAIN old \ {k} : now[n] = old[j] /\ j = IF n < k THEN n ELSE n + 1
  <2>1. CASE n < k
    BY <1>2, <1>3, <2>1
  <2>2. CASE ~(n < k)
    BY <1>2, <1>3, <2>2
  <2> QED BY <2>1, <2>2
<1>5. ASSUME NEW j \in DOMAIN old \ {k} PROVE \E n \in DOMAIN now : now[n] = old[j]
  <2>1. CASE j < k
    BY <1>2, <1>3, <2>1
  <2>2. CASE ~(j < k)
    <3>1. PICK n \in k .. Len(old) - 1 : n = j - 1
      BY <1>3, <2>2
    <3>2. now[n] = old[n + 1] /\ n + 1 = j
      BY <1>2, <1>3, <3>1
    <3> QED BY <1>3, <3>1, <3>2
  <2> QED BY <2>1, <2>2
<1>6. \A n \in DOMAIN now : MajorInv(now[n])
  BY <1>1, <1>4 DEF HeapInv
<1>7. PICK maj \in MajorType : maj = old[k]
  BY <1>3
<1>8. maj.base \in Nat /\ maj.pages \in Nat /\ maj.size \in Nat
  BY <1>7 DEF MajorType
<1>9. /\ granted' = granted \/ granted' = granted \ PagesOf(maj.base, maj.pages \div PAGE_SIZE)
      /\ panicked' \in {panicked, "assertion"}
  BY <1>1, <1>7 DEF FreeLastBlock, memory_free
<1>10. PagesOf(maj.base, maj.pages \div PAGE_SIZE) \subseteq PagesOf(maj.base, maj.pages)
  <2>1. maj.pages \div PAGE_SIZE \in Nat /\ maj.pages \div PAGE_SIZE <= maj.pages
        /\ maj.base \div PAGE_SIZE \in Nat
    BY <1>8, PagesOfANumber
  <2> QED BY <1>8, <2>1 DEF PagesOf
<1>11. MajorsAreGranted'
  <2>1. \A n \in DOMAIN old : PagesOf(old[n].base, old[n].pages) \subseteq granted
    BY <1>1 DEF HeapInv, MajorsAreGranted
  <2>2. ASSUME NEW h \in DOMAIN old, NEW n \in DOMAIN old, h # n
        PROVE  PagesOf(old[h].base, old[h].pages) \cap PagesOf(old[n].base, old[n].pages) = {}
    <3>1. \A a, b \in DOMAIN old : a < b =>
            PagesOf(old[a].base, old[a].pages) \cap PagesOf(old[b].base, old[b].pages) = {}
      BY <1>1 DEF HeapInv, MajorsAreGranted
    <3>2. h < n \/ n < h
      BY <1>3, <2>2
    <3> QED BY <3>1, <3>2
  <2>3. ASSUME NEW n \in DOMAIN now PROVE PagesOf(now[n].base, now[n].pages) \subseteq granted'
    <3>1. PICK j \in DOMAIN old \ {k} : now[n] = old[j]
      BY <1>4
    <3>2. PagesOf(old[j].base, old[j].pages) \cap PagesOf(maj.base, maj.pages) = {}
      BY <1>3, <1>7, <2>2
    <3>3. PagesOf(old[j].base, old[j].pages) \subseteq granted
      BY <2>1
    <3> QED BY <1>9, <1>10, <3>1, <3>2, <3>3
  <2>4. ASSUME NEW h \in DOMAIN now, NEW n \in DOMAIN now, h < n
        PROVE  PagesOf(now[h].base, now[h].pages) \cap PagesOf(now[n].base, now[n].pages) = {}
    <3>1. PICK a \in DOMAIN old : now[h] = old[a] /\ a = IF h < k THEN h ELSE h + 1
      BY <1>4
    <3>2. PICK b \in DOMAIN old : now[n] = old[b] /\ b = IF n < k THEN n ELSE n + 1
      BY <1>4
    <3>3. a # b
      BY <1>3, <2>4, <3>1, <3>2
    <3> QED BY <2>2, <3>1, <3>2, <3>3
  <2> QED BY <1>2, <2>3, <2>4 DEF MajorsAreGranted, PagesOf
<1>12. granted' \subseteq 1 .. HeapPages
  BY <1>9 DEF HeapInv
<1>13. BetIsListed'
  <2>1. l_bestBet' = 0 \/ (l_bestBet' = l_bestBet /\ l_bestBet # maj.base)
    BY <1>1, <1>7 DEF FreeLastBlock
  <2>2. l_bestBet' = 0 \/ \E j \in DOMAIN old \ {k} : old[j].base = l_bestBet'
    BY <1>1, <1>7, <2>1 DEF HeapInv, BetIsListed
  <2>3. l_bestBet' = 0 \/ \E n \in DOMAIN now : now[n].base = l_bestBet'
    BY <1>5, <2>2
  <2> QED BY <1>2, <2>3 DEF BetIsListed
<1>14. /\ TotalOf([n \in DOMAIN old |-> InBlocks(old[n])])
            = TotalOf([n \in DOMAIN now |-> InBlocks(now[n])]) + InBlocks(maj)
       /\ TotalOf([n \in DOMAIN old |-> old[n].size])
            = TotalOf([n \in DOMAIN now |-> now[n].size]) + maj.size
  <2>1. Len(old) = Len(now) + 1 /\ \A n \in 1 .. k - 1 : old[n] = now[n]
    BY <1>2, <1>3
  <2>2. \A n \in k .. Len(now) : old[n + 1] = now[n]
    BY <1>2, <1>3
  <2> QED BY <1>3, <1>7, <2>1, <2>2, OneMajorMore
<1>15. InBlocks(maj) = maj.minors[1].size
  <2>1. MajorInv(maj) /\ Len(maj.minors) = 1
    BY <1>1, <1>7 DEF HeapInv, FreeLastBlock
  <2>2. PICK list \in Seq(MinorType) : list = maj.minors
    BY <1>7 DEF MajorType
  <2>3. 1 \in DOMAIN list /\ Len(list) = 1
    BY <2>1, <2>2
  <2>4. list[1].size \in Nat
    BY <1>7, <2>2, <2>3, MinorsAreTyped
  <2>5. PICK s : s = [n \in DOMAIN list |-> list[n].size]
    OBVIOUS
  <2>6. s \in Seq(Int) /\ Len(s) = 1 /\ s[1] = list[1].size
    <3>1. DOMAIN list = {1}
      BY <2>2, <2>3
    <3>2. s = <<list[1].size>>
      BY <2>2, <2>3, <2>5
    <3> QED BY <2>4, <3>2
  <2>7. PICK f : Running(f, s) /\ TotalOf(s) = f[Len(s)]
    BY <2>6, TotalIsRunning
  <2>8. f[1] = f[0] + s[1] /\ f[0] = 0
    BY <2>6, <2>7 DEF Running
  <2> QED BY <2>2, <2>4, <2>5, <2>6, <2>7, <2>8 DEF InBlocks
<1>16. /\ l_inuse' = TotalOf([n \in DOMAIN now |-> InBlocks(now[n])])
       /\ l_allocated' = TotalOf([n \in DOMAIN now |-> now[n].size])
  <2>1. l_inuse' = l_inuse - InBlocks(maj) /\ l_allocated' = l_allocated - maj.size
    BY <1>1, <1>7, <1>15 DEF FreeLastBlock
  <2>2. PICK a \in Int, b \in Int : /\ a = TotalOf([n \in DOMAIN now |-> InBlocks(now[n])])
                                    /\ b = TotalOf([n \in DOMAIN now |-> now[n].size])
    <3>1. ASSUME NEW n \in 1 .. Len(now) PROVE InBlocks(now[n]) \in Nat /\ now[n].size \in Nat
      <4>1. now[n] \in MajorType
        OBVIOUS
      <4>2. now[n].size \in Nat
        BY <4>1 DEF MajorType
      <4> QED BY <4>1, <4>2, TotalsAreNat
    <3>2. [n \in DOMAIN now |-> InBlocks(now[n])] \in Seq(Nat)
      BY <3>1
    <3>3. [n \in DOMAIN now |-> now[n].size] \in Seq(Nat)
      BY <3>1
    <3>4. TotalOf([n \in DOMAIN now |-> InBlocks(now[n])]) \in Nat
      BY <3>2, TotalIsNat
    <3>5. TotalOf([n \in DOMAIN now |-> now[n].size]) \in Nat
      BY <3>3, TotalIsNat
    <3>6. TotalOf([n \in DOMAIN now |-> InBlocks(now[n])]) \in Int
          /\ TotalOf([n \in DOMAIN now |-> now[n].size]) \in Int
      BY <3>4, <3>5
    <3> QED BY <3>6, Zenon
  <2>3. l_inuse = a + InBlocks(maj) /\ l_allocated = b + maj.size
    BY <1>1, <1>14, <2>2 DEF HeapInv
  <2>4. InBlocks(maj) \in Nat /\ maj.size \in Nat
    BY <1>8, TotalsAreNat
  <2>5. l_inuse' = a /\ l_allocated' = b
    BY <2>1, <2>3, <2>4
  <2> QED BY <2>2, <2>5
<1>17. panicked' \in {"no", "out of memory", "assertion"}
  BY <1>9 DEF HeapInv
<1> QED BY <1>2, <1>6, <1>11, <1>12, <1>13, <1>16, <1>17 DEF HeapInv

\* The bytes handed to the client lie in the block.
LEMMA ClientBytesFit ==
  ASSUME NEW start \in Nat, NEW req \in Nat, NEW p, p = Aligned(start)
  PROVE  /\ p % ALIGNMENT = 0 /\ start <= p - ALIGN_INFO
         /\ p + req <= start + (req + ALIGNMENT + ALIGN_INFO)
         /\ p - start < ALIGNMENT + ALIGN_INFO
<1>1. PICK A \in Nat \ {0}, h \in Nat : A = ALIGNMENT /\ h = ALIGN_INFO
  BY HeapAssumption
<1>2. PICK q \in Nat : q = start + h
  OBVIOUS
<1>3. PICK e \in Int, r \in 0 .. A - 1 : -q = A * e + r /\ r = (-q) % A
  <2>1. PICK x \in Int : x = -q
    OBVIOUS
  <2>2. x = A * (x \div A) + (x % A) /\ x \div A \in Int /\ x % A \in 0 .. A - 1
    OBVIOUS
  <2> QED BY <2>1, <2>2
<1>4. p = q + r
  BY <1>1, <1>2, <1>3 DEF Aligned
<1>5. p % A = 0
  <2>1. PICK d \in Int : d = -e
    OBVIOUS
  <2>2. PICK z \in Int, w \in Int : z = A * e /\ w = A * d
    OBVIOUS
  <2>3. w = -z
    <3>1. A * d = -(A * e)
      BY <2>1
    <3> QED BY <2>2, <3>1
  <2>4. p = w + 0
    <3>1. -q = z + r
      BY <1>3, <2>2
    <3> QED BY <1>4, <2>3, <3>1
  <2>5. p \in Int /\ 0 \in 0 .. A - 1 /\ p = A * d + 0
    BY <1>4, <2>2, <2>4
  <2> QED BY <2>5, RemainderIsUnique
<1>6. start <= p - h /\ p + req <= start + (req + A + h) /\ p - start < A + h
  BY <1>2, <1>4
<1> QED BY <1>1, <1>5, <1>6

\* The invariant implies the properties.
LEMMA HeapInvImplies ==
  ASSUME HeapInv
  PROVE  BlocksAreDisjoint /\ CountersAreExact
<1>1. PICK list \in Seq(MajorType) : list = majors
  BY DEF HeapInv
<1>2. \A k \in DOMAIN list : MajorInv(list[k])
  BY <1>1 DEF HeapInv
<1>3. BlocksFillTheirMajor
  BY <1>1, <1>2 DEF BlocksFillTheirMajor, MajorInv
<1>4. ClientBytesLieInTheBlock
  <2>1. ASSUME NEW k \in DOMAIN list, NEW n \in DOMAIN list[k].minors
        PROVE  LET block == list[k].minors[n]
                   start == block.at + MINOR
                   p == Aligned(start)
               IN  /\ p % ALIGNMENT = 0 /\ start <= p - ALIGN_INFO
                   /\ p + block.req <= EndOf(block) /\ p - start < ALIGNMENT + ALIGN_INFO
    <3>1. list[k] \in MajorType /\ MajorInv(list[k])
      BY <1>2
    <3>2. PICK block \in MinorType : block = list[k].minors[n]
      BY <3>1, MinorsAreTyped
    <3>3. block.at \in Nat /\ block.req \in Nat
      BY HeapAssumption, <3>2 DEF MinorType
    <3>4. PICK size : size = block.req + ALIGNMENT + ALIGN_INFO /\ block.size = size
      BY <3>1, <3>2 DEF MajorInv
    <3>5. PICK start \in Nat : start = block.at + MINOR
      BY <3>3, HeapAssumption
    <3>6. PICK p : p = Aligned(start)
      OBVIOUS
    <3>7. /\ p % ALIGNMENT = 0 /\ start <= p - ALIGN_INFO
          /\ p + block.req <= start + size /\ p - start < ALIGNMENT + ALIGN_INFO
      BY <3>3, <3>4, <3>5, <3>6, ClientBytesFit
    <3>8. EndOf(block) = start + size
      BY <3>4, <3>5 DEF EndOf
    <3> QED BY <3>2, <3>5, <3>6, <3>7, <3>8
  <2> QED BY <1>1, <2>1 DEF ClientBytesLieInTheBlock
<1>5. BlocksAreDisjoint
  BY <1>3, <1>4 DEF BlocksAreDisjoint, HeapInv
<1>6. HeapTypeOK
  <2>1. ASSUME NEW k \in DOMAIN list
        PROVE  /\ {list[k].base, list[k].pages, list[k].size, list[k].usage} \subseteq Nat
               /\ \A n \in DOMAIN list[k].minors : list[k].minors[n] \in MinorType
    <3>1. list[k] \in MajorType
      OBVIOUS
    <3>2. {list[k].base, list[k].pages, list[k].size, list[k].usage} \subseteq Nat
      BY <3>1 DEF MajorType
    <3> QED BY <3>1, <3>2, MinorsAreTyped
  <2>2. {l_bestBet, l_allocated, l_inuse} \subseteq Nat
    <3>1. l_bestBet \in Nat
      <4>1. CASE l_bestBet = 0
        BY <4>1
      <4>2. CASE l_bestBet # 0
        <5>1. PICK k \in DOMAIN list : list[k].base = l_bestBet
          BY <1>1, <4>2 DEF HeapInv, BetIsListed
        <5>2. list[k].base \in Nat
          BY <2>1
        <5> QED BY <5>1, <5>2
      <4> QED BY <4>1, <4>2
    <3> QED BY <3>1, HeapTotalsAreNat
  <2> QED BY <1>1, <2>1, <2>2 DEF HeapTypeOK, HeapInv, BetIsListed
<1>7. \A k \in DOMAIN majors : majors[k].usage = InUse(majors[k])
  BY <1>1, <1>2 DEF MajorInv
<1> QED BY <1>5, <1>6, <1>7 DEF CountersAreExact, HeapInv

\* Every step of the heap keeps the invariant.
LEMMA HeapInvInductive ==
  ASSUME HeapInv, [HeapNext]_heapVars
  PROVE  HeapInv'
<1>1. ASSUME UNCHANGED <<majors, l_bestBet, l_allocated, l_inuse, granted>>,
             panicked' \in {panicked, "out of memory"}
      PROVE  HeapInv'
  <2>1. PICK list : list = majors /\ list = majors'
    BY <1>1
  <2>2. list \in Seq(MajorType) /\ \A k \in DOMAIN list : MajorInv(list[k])
    BY <2>1 DEF HeapInv
  <2>3. MajorsAreGranted'
    BY <1>1 DEF HeapInv, MajorsAreGranted, PagesOf
  <2>4. BetIsListed'
    BY <1>1 DEF HeapInv, BetIsListed
  <2>5. l_inuse' = TotalOf([k \in DOMAIN list |-> InBlocks(list[k])])
        /\ l_allocated' = TotalOf([k \in DOMAIN list |-> list[k].size])
    BY <1>1, <2>1 DEF HeapInv
  <2>6. granted' \subseteq 1 .. HeapPages /\ panicked' \in {"no", "out of memory", "assertion"}
    BY <1>1 DEF HeapInv
  <2> QED BY <2>1, <2>2, <2>3, <2>4, <2>5, <2>6 DEF HeapInv
<1>2. ASSUME NEW req \in Requests, MallocInGap(req) PROVE HeapInv'
  BY <1>2, MallocInGapKeepsHeap
<1>3. ASSUME NEW req \in Requests, MallocInNewMajor(req) PROVE HeapInv'
  BY <1>3, MallocInNewMajorKeepsHeap
<1>4. ASSUME NEW req \in Requests, MallocPanic(req) PROVE HeapInv'
  BY <1>1, <1>4 DEF MallocPanic
<1>5. ASSUME NEW k \in DOMAIN majors, NEW g \in DOMAIN majors[k].minors, FreeBlock(k, g) PROVE HeapInv'
  BY <1>5, FreeBlockKeepsHeap
<1>6. ASSUME NEW k \in DOMAIN majors, FreeLastBlock(k) PROVE HeapInv'
  BY <1>6, FreeLastBlockKeepsHeap
<1>7. CASE UNCHANGED heapVars
  BY <1>1, <1>7 DEF heapVars
<1> QED BY <1>2, <1>3, <1>4, <1>5, <1>6, <1>7 DEF HeapNext

\* The empty heap satisfies the invariant.
LEMMA HeapInitInv ==
  ASSUME HeapInit
  PROVE  HeapInv
<1>1. majors = <<>> /\ l_bestBet = 0 /\ l_allocated = 0 /\ l_inuse = 0 /\ granted = {} /\ panicked = "no"
  BY DEF HeapInit
<1>2. TotalOf(<<>>) = 0
  <2>1. <<>> \in Seq(Int) /\ Len(<<>>) = 0
    OBVIOUS
  <2>2. PICK f : Running(f, <<>>) /\ TotalOf(<<>>) = f[Len(<<>>)]
    BY <2>1, TotalIsRunning
  <2> QED BY <2>1, <2>2 DEF Running
<1>3. DOMAIN majors = {} /\ majors \in Seq(MajorType)
  BY <1>1
<1>4. [k \in DOMAIN majors |-> InBlocks(majors[k])] = <<>> /\ [k \in DOMAIN majors |-> majors[k].size] = <<>>
  BY <1>3
<1>5. l_inuse = TotalOf([k \in DOMAIN majors |-> InBlocks(majors[k])])
      /\ l_allocated = TotalOf([k \in DOMAIN majors |-> majors[k].size])
  BY <1>1, <1>2, <1>4, Zenon
<1> QED BY <1>1, <1>3, <1>5 DEF HeapInv, MajorsAreGranted, BetIsListed

\* Whatever is allocated and freed, in whatever order and sizes, blocks never
\* overlap and lie in memory the heap holds, and what a client may write lies
\* in its block, aligned: malloc misjudges no gap, and what free gives back
\* is nobody else's.
THEOREM BlocksStayDisjoint == HeapSpec => []BlocksAreDisjoint
<1>1. HeapInit => HeapInv
  BY HeapInitInv
<1>2. HeapInv /\ [HeapNext]_heapVars => HeapInv'
  BY HeapInvInductive
<1>3. HeapInv => BlocksAreDisjoint
  BY HeapInvImplies
<1> QED BY <1>1, <1>2, <1>3, PTL DEF HeapSpec

\* The counters malloc and free keep, of each major and of the heap, stay
\* equal to the sums of what is allocated, and the best bet is a major of the
\* list or null.
THEOREM CountersStayExact == HeapSpec => []CountersAreExact
<1>1. HeapInit => HeapInv
  BY HeapInitInv
<1>2. HeapInv /\ [HeapNext]_heapVars => HeapInv'
  BY HeapInvInductive
<1>3. HeapInv => CountersAreExact
  BY HeapInvImplies
<1> QED BY <1>1, <1>2, <1>3, PTL DEF HeapSpec

\* A gap of a major is part of what the major counts as unused: the test that
\* lets malloc skip a major without looking at its gaps skips none that fits.
LEMMA GapIsUnused ==
  ASSUME NEW maj, MajorInv(maj), NEW g \in 0 .. Len(maj.minors), NEW size \in Nat,
         FitsAfter(maj, g, size)
  PROVE  Unused(maj) >= size + MINOR
<1>1. PICK list \in Seq(MinorType) : list = maj.minors
  BY DEF MajorInv, MajorType
<1>2. PICK N \in Nat : N = Len(list) /\ DOMAIN list = 1 .. N /\ g \in 0 .. N
  BY <1>1
<1>3. PICK low \in Nat, gap \in Nat, room \in Nat :
        low = maj.base + MAJOR /\ gap = size + MINOR /\ room = maj.size
  <2>1. maj.base \in Nat /\ maj.size \in Nat /\ MAJOR \in Nat /\ MINOR \in Nat
    BY HeapAssumption DEF MajorInv, MajorType
  <2>2. maj.base + MAJOR \in Nat /\ size + MINOR \in Nat
    BY <2>1
  <2> QED BY <2>1, <2>2
<1>4. PICK s : s = [n \in DOMAIN list |-> list[n].size + MINOR]
  OBVIOUS
<1>5. s \in Seq(Int) /\ Len(s) = N
  <2>1. maj \in MajorType
    BY DEF MajorInv
  <2>2. s \in Seq(Nat)
    BY <1>1, <1>4, <2>1, SizesAdd
  <2>3. DOMAIN s = 1 .. N
    BY <1>2, <1>4
  <2> QED BY <2>2, <2>3
<1>6. PICK f : Running(f, s) /\ TotalOf(s) = f[N]
  BY <1>5, TotalIsRunning
<1>7. /\ \A n \in 0 .. N : f[n] \in Int
      /\ f[0] = 0 /\ \A n \in 1 .. N : f[n] = f[n - 1] + s[n]
  BY <1>5, <1>6 DEF Running
<1>8. maj.usage = MAJOR + f[N]
  BY <1>1, <1>4, <1>6 DEF MajorInv, InUse
<1>9. PICK e : e = [n \in 0 .. N |-> IF n = 0 THEN low ELSE EndOf(list[n])]
  OBVIOUS
<1>10. \A n \in 1 .. N : list[n].at \in Nat /\ s[n] \in Nat /\ e[n] = list[n].at + s[n]
  <2>1. ASSUME NEW n \in 1 .. N PROVE list[n].at \in Nat /\ s[n] \in Nat /\ e[n] = list[n].at + s[n]
    <3>1. list[n] \in MinorType
      BY <1>2
    <3>2. list[n].at \in Nat /\ list[n].size \in Nat /\ MINOR \in Nat
      BY <3>1, HeapAssumption DEF MinorType
    <3>3. s[n] = list[n].size + MINOR
      BY <1>2, <1>4
    <3>4. e[n] = list[n].at + MINOR + list[n].size
      BY <1>9 DEF EndOf
    <3> QED BY <3>2, <3>3, <3>4, SMTT(30)
  <2> QED BY <2>1
<1>11. \A n \in 0 .. N : e[n] \in Int
  <2>1. ASSUME NEW n \in 0 .. N PROVE e[n] \in Int
    <3>1. CASE n = 0
      BY <1>9, <3>1
    <3>2. CASE n # 0
      BY <1>10, <3>2
    <3> QED BY <3>1, <3>2
  <2> QED BY <2>1
\* Each block starts where the one before it ends, or later; the last ends in the major.
<1>12. \A n \in 1 .. N : e[n - 1] <= list[n].at
  <2>1. ASSUME NEW n \in 1 .. N PROVE e[n - 1] <= list[n].at
    <3>1. CASE n = 1
      <4>1. maj.base + MAJOR <= list[n].at
        BY <1>1, <1>2 DEF MajorInv, BlocksFill
      <4> QED BY <1>3, <1>9, <3>1, <4>1
    <3>2. CASE n # 1
      <4>1. PICK j \in 1 .. N : j = n - 1 /\ j # N /\ j + 1 = n
        BY <3>2
      <4>2. EndOf(list[j]) <= list[j + 1].at
        BY <1>1, <1>2, <4>1 DEF MajorInv, BlocksFill
      <4>3. e[j] = EndOf(list[j])
        BY <1>9, <4>1
      <4> QED BY <4>1, <4>2, <4>3
    <3> QED BY <3>1, <3>2
  <2> QED BY <2>1
<1>13. N > 0 => e[N] <= maj.base + room
  <2>1. SUFFICES ASSUME N > 0 PROVE e[N] <= maj.base + room
    OBVIOUS
  <2>2. N \in 1 .. N
    BY <2>1
  <2>3. EndOf(list[N]) <= maj.base + maj.size
    BY <1>1, <1>2, <2>2 DEF MajorInv, BlocksFill
  <2> QED BY <1>3, <1>9, <2>2, <2>3
<1>14. e[g] + gap <= (IF g = N THEN maj.base + room ELSE list[g + 1].at)
  <2>1. e[g] = IF g = 0 THEN maj.base + MAJOR ELSE EndOf(list[g])
    BY <1>2, <1>3, <1>9
  <2>2. (IF g = N THEN maj.base + room ELSE list[g + 1].at) - e[g] >= gap
    BY <1>1, <1>2, <1>3, <2>1 DEF FitsAfter
  <2>3. e[g] \in Int /\ (g # N => list[g + 1].at \in Nat)
    <3>1. g # N => g + 1 \in 1 .. N
      BY <1>2
    <3> QED BY <1>2, <1>10, <1>11, <3>1
  <2>4. maj.base \in Nat
    BY DEF MajorInv, MajorType
  <2>5. CASE g = N
    BY <1>3, <2>2, <2>3, <2>4, <2>5
  <2>6. CASE g # N
    BY <1>3, <2>2, <2>3, <2>6
  <2> QED BY <2>5, <2>6
<1> DEFINE S == {n \in 0 .. N : low + f[n] + (IF n > g THEN gap ELSE 0) <= e[n]}
<1>15. 0 \in S
  BY <1>2, <1>3, <1>7, <1>9
<1>16. ASSUME NEW n \in 1 .. N, n - 1 \in S PROVE n \in S
  <2>1. PICK a \in Int, b \in Int, c \in Nat, d \in Int :
          a = f[n - 1] /\ b = e[n - 1] /\ c = s[n] /\ d = list[n].at
    <3>1. n - 1 \in 0 .. N
      OBVIOUS
    <3>2. f[n - 1] \in Int /\ e[n - 1] \in Int
      BY <1>7, <1>11, <3>1
    <3>3. s[n] \in Nat /\ list[n].at \in Int
      BY <1>10
    <3> QED BY <3>2, <3>3
  <2>2. f[n] = a + c /\ e[n] = d + c
    BY <1>7, <1>10, <2>1
  <2>3. low + a + (IF n - 1 > g THEN gap ELSE 0) <= b /\ b <= d
    BY <1>12, <1>16, <2>1
  <2>4. n - 1 = g => b + gap <= d
    BY <1>14, <2>1
  <2>5. low + (a + c) + (IF n > g THEN gap ELSE 0) <= d + c
    <3>1. CASE n - 1 > g
      <4>1. n > g
        BY <1>2, <3>1
      <4> QED BY <2>3, <3>1, <4>1
    <3>2. CASE n - 1 = g
      <4>1. n > g /\ ~(n - 1 > g)
        BY <1>2, <3>2
      <4> QED BY <2>3, <2>4, <3>2, <4>1
    <3>3. CASE n - 1 < g
      <4>1. ~(n > g) /\ ~(n - 1 > g)
        BY <1>2, <3>3
      <4> QED BY <2>3, <4>1
    <3> QED BY <1>2, <3>1, <3>2, <3>3
  <2> QED BY <2>2, <2>5
<1>17. N \in S
  <2> HIDE DEF S
  <2>1. 0 .. N \subseteq S
    BY <1>15, <1>16, InductionUpTo
  <2> QED BY <2>1
<1>18. PICK a \in Int, b \in Int : a = f[N] /\ b = e[N]
  BY <1>7, <1>11
<1>19. low + a + gap <= maj.base + room
  <2>1. low + a + (IF N > g THEN gap ELSE 0) <= b
    BY <1>17, <1>18
  <2>2. maj.base \in Nat
    BY DEF MajorInv, MajorType
  <2>3. CASE g = N
    <3>1. b + gap <= maj.base + room /\ ~(N > g)
      BY <1>14, <1>18, <2>3
    <3> QED BY <2>1, <2>2, <3>1
  <2>4. CASE g # N
    <3>1. b <= maj.base + room /\ N > g
      BY <1>2, <1>13, <1>18, <2>4
    <3> QED BY <2>1, <2>2, <3>1
  <2> QED BY <2>3, <2>4
<1> QED
  <2>1. maj.base \in Nat /\ MAJOR \in Nat
    BY HeapAssumption DEF MajorInv, MajorType
  <2>2. Unused(maj) = room - (MAJOR + a)
    BY <1>3, <1>8, <1>18 DEF Unused
  <2>3. maj.base + MAJOR + a + (size + MINOR) <= maj.base + room
    BY <1>3, <1>19
  <2>4. size + MINOR \in Nat
    BY <1>3
  <2>5. room - (MAJOR + a) >= size + MINOR
    BY <2>1, <2>3, <2>4
  <2> QED BY <2>2, <2>5

\* malloc overlooks no gap: when no major it visits has one for the block, no
\* major of the heap has.
LEMMA NoGapIsOverlooked ==
  ASSUME HeapInv, NEW size \in Nat, Hits(size) = {},
         NEW k \in DOMAIN majors, NEW g \in 0 .. Len(majors[k].minors)
  PROVE  ~FitsAfter(majors[k], g, size)
<1> SUFFICES ASSUME FitsAfter(majors[k], g, size) PROVE FALSE
  OBVIOUS
<1>1. majors \in Seq(MajorType) /\ MajorInv(majors[k])
  BY DEF HeapInv
<1>2. Unused(majors[k]) >= size + MINOR
  BY <1>1, GapIsUnused
<1>3. g \in Gaps(majors[k], size)
  <2>1. Unused(majors[k]) \in Int /\ MINOR \in Nat
    BY <1>1, UnusedIsInt, HeapAssumption DEF MajorInv
  <2>2. ~(Unused(majors[k]) < size + MINOR)
    BY <1>2, <2>1
  <2> QED BY <2>2 DEF Gaps
<1>4. PICK v \in DOMAIN Visits(size) : Visits(size)[v] = k
  BY <1>1, VisitsAreMajors
<1>5. v \in Hits(size)
  BY <1>3, <1>4 DEF Hits
<1> QED BY <1>5

\* The first block of a new major is the one it was made for.
LEMMA FirstBlockIsListed ==
  ASSUME NEW fresh, MajorInv(fresh), fresh.minors = <<>>, NEW req \in Requests,
         NEW size, size = req + ALIGNMENT + ALIGN_INFO, FitsAfter(fresh, 0, size)
  PROVE  WithBlock(fresh, 0, size, req).minors[1].size = size
<1>1. PICK g \in 0 .. Len(fresh.minors) : g = 0 /\ g + 1 = 1
  OBVIOUS
<1>2. PICK new : new = WithBlock(fresh, g, size, req)
  OBVIOUS
<1>3. new.minors[g + 1].size = size
  BY <1>1, <1>2, WithBlockKeepsMajor
<1> QED BY <1>1, <1>2, <1>3

\* The heap grows for the block that finds no gap, which the new major then
\* holds; no other step makes the list of majors longer.
LEMMA HeapGrowsForNeed ==
  ASSUME HeapInv, [HeapNext]_heapVars
  PROVE  GrowsForNeed
<1> SUFFICES ASSUME Len(majors') > Len(majors),
                    NEW k \in DOMAIN majors, NEW g \in 0 .. Len(majors[k].minors)
             PROVE  ~FitsAfter(majors[k], g, Last(majors').minors[1].size)
  BY DEF GrowsForNeed
<1>1. PICK old \in Seq(MajorType), now \in Seq(MajorType) : old = majors /\ now = majors'
  BY HeapInvInductive DEF HeapInv
<1>2. DOMAIN old = 1 .. Len(old) /\ DOMAIN now = 1 .. Len(now) /\ Len(old) \in Nat /\ Len(now) \in Nat
  OBVIOUS
<1>3. ASSUME DOMAIN now = DOMAIN old PROVE FALSE
  <2>1. Len(now) \in DOMAIN now
    BY <1>1, <1>2
  <2> QED BY <1>1, <1>2, <1>3, <2>1
<1>4. ASSUME NEW req \in Requests, MallocInNewMajor(req)
      PROVE  ~FitsAfter(majors[k], g, Last(majors').minors[1].size)
  <2>1. PICK size \in Nat : size = req + ALIGNMENT + ALIGN_INFO
    BY SizeOfRequest
  <2>2. PICK base, fresh : base = Min(FreeRuns(NewPages(size))) * PAGE_SIZE /\ fresh = NewMajor(base, size)
    OBVIOUS
  <2>3. PICK new : new = WithBlock(fresh, 0, size, req)
    OBVIOUS
  <2>4. majors' = Append(majors, new) /\ Hits(size) = {} /\ FreeRuns(NewPages(size)) # {}
    BY <1>4, <2>1, <2>2, <2>3 DEF MallocInNewMajor
  <2>5. base \in Nat
    <3>1. FreeRuns(NewPages(size)) \in SUBSET Nat
      BY DEF FreeRuns
    <3>2. Min(FreeRuns(NewPages(size))) \in Nat
      BY <2>4, <3>1, MinIsLeast
    <3> QED BY <2>2, <3>2, PageAt
  <2>6. MajorInv(fresh) /\ FitsAfter(fresh, 0, size) /\ fresh.minors = <<>>
    BY <2>2, <2>5, NewMajorFits
  <2>8. new.minors[1].size = size
    BY <2>1, <2>3, <2>6, FirstBlockIsListed
  <2>7. Last(majors') = new
    <3>1. Len(Append(old, new)) = Len(old) + 1 /\ Append(old, new)[Len(old) + 1] = new
      BY AppendProperties
    <3> QED BY <1>1, <2>4, <3>1 DEF Last
  <2>9. Last(majors').minors[1].size = size
    BY <2>7, <2>8
  <2> QED BY <2>4, <2>9, NoGapIsOverlooked
<1>5. ASSUME NEW req \in Requests, MallocInGap(req) PROVE FALSE
  BY <1>1, <1>3, <1>5 DEF MallocInGap
<1>6. ASSUME NEW req \in Requests, MallocPanic(req) PROVE FALSE
  BY <1>1, <1>3, <1>6 DEF MallocPanic
<1>7. ASSUME NEW j \in DOMAIN majors, NEW n \in DOMAIN majors[j].minors, FreeBlock(j, n) PROVE FALSE
  BY <1>1, <1>3, <1>7 DEF FreeBlock
<1>8. ASSUME NEW j \in DOMAIN majors, FreeLastBlock(j) PROVE FALSE
  <2>1. majors' = RemoveAt(old, j) /\ j \in 1 .. Len(old)
    BY <1>1, <1>8 DEF FreeLastBlock
  <2>2. Len(RemoveAt(old, j)) = Len(old) - 1
    BY <2>1, RemoveAtGives
  <2> QED BY <1>1, <1>2, <2>1, <2>2
<1>9. CASE UNCHANGED heapVars
  BY <1>1, <1>3, <1>9 DEF heapVars
<1> QED BY <1>4, <1>5, <1>6, <1>7, <1>8, <1>9 DEF HeapNext

\* The heap takes memory from the kernel only for a block that fits in no gap
\* of any major, whether or not malloc looked there.
THEOREM HeapGrowsWhenFull == HeapSpec => GrowsOnlyWhenFull
<1>1. HeapInit => HeapInv
  BY HeapInitInv
<1>2. HeapInv /\ [HeapNext]_heapVars => HeapInv'
  BY HeapInvInductive
<1>3. HeapInv /\ [HeapNext]_heapVars => [GrowsForNeed]_heapVars
  BY HeapGrowsForNeed
<1> QED BY <1>1, <1>2, <1>3, PTL DEF HeapSpec, GrowsOnlyWhenFull
=============================================================================
