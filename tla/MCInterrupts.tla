---------------------------- MODULE MCInterrupts ----------------------------
(* The timer, two lines of the second controller and a line of the first   *)
(* one that they outrank.                                                  *)
EXTENDS Interrupts

Connected == {0, 4, 8, 12}
Times == [line \in Connected |-> IF line = 0 THEN 2 ELSE 1]
=============================================================================
