------------------------------ MODULE MCRefPtr ------------------------------
(* Two objects with one member pointer each, so that they can form a chain *)
(* or a ring, and three local pointers.                                    *)
EXTENDS RefPtr

CONSTANTS a, b, inA, inB, p1, p2, p3

TwoObjects == {a, b}
FivePointers == {inA, inB, p1, p2, p3}
MemberOf == [p \in FivePointers |-> CASE p = inA -> a [] p = inB -> b [] OTHER -> NULL]
=============================================================================
