----------------------------- MODULE MCLibsystem -----------------------------
(* The classes of libsystem, one per behaviour: a list of two values, so    *)
(* that values repeat, in up to four nodes; three objects that own each     *)
(* other, and two that count references, with their members and three more *)
(* pointers; a decoder of codepoints at the edges of each length.           *)
EXTENDS LinkedList, OwnPtr, RefPtr, Unicode, TLC

CONSTANTS a, b, c, inA, inB, p1, p2, p3

TwoValues == {1, 2}
Addresses == Permutations(Nodes)

ThreeObjects == {a, b, c}
TwoObjects == {a, b}
FivePointers == {inA, inB, p1, p2, p3}
MemberOfOwner ==
  [p \in FivePointers |-> CASE p = inA -> a [] p = inB -> b [] OTHER -> Nullptr]
MemberOfCounted ==
  [p \in FivePointers |-> CASE p = inA -> a [] p = inB -> b [] OTHER -> NULL]

Edges == {0, 63, 127, 128, 191, 2047, 2048, 4095, 65535, 65536, 1114111}

VARIABLE class

LibsystemInit ==
  /\ ListInit /\ OwnPtrInit /\ RefPtrInit /\ UnicodeInit
  /\ class \in {"LinkedList", "OwnPtr", "RefPtr", "UTF8Stream"}

LibsystemNext ==
  /\ \/ /\ class = "LinkedList" /\ ListNext
        /\ UNCHANGED <<ownPtrVars, refPtrVars, unicodeVars>>
     \/ /\ class = "OwnPtr" /\ OwnPtrNext
        /\ UNCHANGED <<listVars, refPtrVars, unicodeVars>>
     \/ /\ class = "RefPtr" /\ RefPtrNext
        /\ UNCHANGED <<listVars, ownPtrVars, unicodeVars>>
     \/ /\ class = "UTF8Stream" /\ UnicodeNext
        /\ UNCHANGED <<listVars, ownPtrVars, refPtrVars>>
  /\ UNCHANGED class

LibsystemSpec ==
  /\ LibsystemInit
  /\ [][LibsystemNext]_<<listVars, ownPtrVars, refPtrVars, unicodeVars, class>>
==============================================================================
