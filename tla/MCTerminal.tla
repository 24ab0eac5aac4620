----------------------------- MODULE MCTerminal -----------------------------
(* A small screen and two programs: one that moves the cursor about, and   *)
(* one that paints the screen.                                             *)
EXTENDS Terminal

Mover ==
  [text       |-> {"newline", "return", "tab", "backspace"},
   commands   |-> {"A", "B", "C", "D", "E", "F", "G", "H", "s", "u", "q"},
   values     |-> {0, 1, 4},
   separators |-> 2]

Painter ==
  [text       |-> {" "},
   commands   |-> {"J", "K", "S", "T", "m"},
   values     |-> {0, 2, 3, 4, 37, 40},
   separators |-> 0]

MoverAndPainter == {Mover, Painter}
=============================================================================
