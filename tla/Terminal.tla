------------------------------ MODULE Terminal ------------------------------
(***************************************************************************)
(* The text terminal: libterminal/Terminal.cpp, with the CGA display of    *)
(* device/CGATerminal.cpp below it.                                        *)
(*                                                                         *)
(* A codepoint is written in one step, except that move_cursor calls       *)
(* itself: every activation of it is a step, so that an endless recursion  *)
(* is an endless behaviour.  Codepoints are strings, colours are numbers   *)
(* in the order of the enumeration Color.                                  *)
(***************************************************************************)
EXTENDS Integers, Sequences

CONSTANTS
  W, H,              \* _w and _h
  PARAMETER_COUNT,   \* TERMINAL_PARAMETER_COUNT
  Writers            \* bound: the vocabularies a program may write with

ASSUME TerminalAssumption ==
  /\ W \in Nat \ {0} /\ H \in Nat \ {0}
  /\ PARAMETER_COUNT \in Nat /\ PARAMETER_COUNT >= 2
  /\ \A w \in Writers : 0 \in w.values /\ w.values \subseteq Nat /\ w.separators \in Nat

VARIABLES
  cursor, saved_cursor,        \* _cursor, _saved_cursor
  attribs,                     \* _current_attribs
  params, params_top, state,   \* the parser of escape sequences
  screen,                      \* _cells, and _vga_cells of the display
  hw_cursor,                   \* the cursor position the display was given
  moving, delta,               \* an activation of move_cursor and its arguments
  from, scrolled,              \* auxiliary: where the outermost call started
                               \* and by how many lines it has scrolled
  restored,                    \* auxiliary: the cursor was last set by 'u'
  corrupt,                     \* _params was indexed past its end
  writer                       \* the program that writes: it does not change

parserVars == <<params, params_top, state>>
moveVars == <<moving, delta, from, scrolled>>
terminalVars == <<cursor, saved_cursor, attribs, parserVars, screen, hw_cursor,
                  moveVars, restored, corrupt, writer>>

\* What a writer writes: the codepoints outside escape sequences and those
\* that end one, the numbers its parameters reach, the separators between them.
Text == writer.text
Commands == writer.commands
ParamValues == writer.values
MaxSeparators == writer.separators

Positions == (0 .. W - 1) \X (0 .. H - 1)
Colors == 0 .. 15
Cursors == [x : 0 .. W, y : 0 .. H]

\* Bug: only the upper limit is enforced.
Clamp_UpperOnly(v, max) == IF v > max THEN max ELSE v

Clamp(v, max) == IF v < 0 THEN 0 ELSE IF v > max THEN max ELSE v

(***************************************************************************)
(* Cells.  BootCell is what the array of cells is built with, while the    *)
(* display is painted with the colours of the CGA terminal.                *)
(***************************************************************************)
BootAttributes == [bold |-> FALSE, foreground |-> 7, background |-> 0]
DefaultAttributes == [bold |-> FALSE, foreground |-> 0, background |-> 15]
Cell(a, c) == [attribs |-> a, c |-> c]
BootCell == Cell(BootAttributes, " ")

terminal_color_to_cga(color) ==
  <<0, 4, 2, 6, 1, 5, 3, 7>>[(color % 8) + 1] + 8 * (color \div 8)

\* CGATerminal::on_cell_updated
Shown(cell) ==
  [codepoint  |-> cell.c,
   foreground |-> terminal_color_to_cga(cell.attribs.foreground),
   background |-> terminal_color_to_cga(cell.attribs.background)]

\* Bug: every cell is compared with what the display was painted with.
SetCells_Repaint(scr, new) ==
  [cells |-> new,
   vga |-> [p \in Positions |->
             IF new[p] # Cell(DefaultAttributes, " ")
             THEN Shown(new[p]) ELSE scr.vga[p]]]

\* set_cell on every cell: the display hears only of the cells that change.
SetCells(scr, new) ==
  [cells |-> new,
   vga |-> [p \in Positions |->
             IF new[p] # scr.cells[p] THEN Shown(new[p]) ELSE scr.vga[p]]]

set_cell(x, y, cell) ==
  SetCells(screen, [p \in Positions |->
                     IF p = <<x, y>> THEN cell ELSE screen.cells[p]])

Blank == Cell(attribs, " ")

clear(x1, y1, x2, y2) ==
  LET cleared == x1 + y1 * W .. x2 + y2 * W - 1
  IN  SetCells(screen, [p \in Positions |->
        IF p[1] + p[2] * W \in cleared THEN Blank ELSE screen.cells[p]])

\* The last line is cleared after the others have moved up.
ScrollLine(scr) ==
  LET moved == SetCells(scr, [p \in Positions |->
                 IF p[2] < H - 1 THEN scr.cells[<<p[1], p[2] + 1>>] ELSE scr.cells[p]])
  IN  SetCells(moved, [p \in Positions |->
                 IF p[2] = H - 1 THEN Blank ELSE moved.cells[p]])

\* A negative line_count scrolls nothing: its loop runs while line < line_count.
scroll(line_count) ==
  LET lines == IF line_count < 0 THEN 0 ELSE line_count
      after[n \in 0 .. lines] ==
        IF n = 0 THEN screen ELSE ScrollLine(after[n - 1])
  IN  after[lines]

-----------------------------------------------------------------------------
(***************************************************************************)
(* move_cursor.  C++ division truncates: the remainder of a negative       *)
(* number is negative.                                                     *)
(***************************************************************************)
Quotient(a, b) == IF a < 0 THEN -((-a) \div b) ELSE a \div b
Remainder(a, b) == a - b * Quotient(a, b)

PositionValues == 65536      \* the position goes into two registers of a byte
hw_position(c) == (c.y * W + c.x) % PositionValues \* CGATerminal::on_cursor_moved

move_cursor(dx, dy) ==
  /\ moving' = TRUE
  /\ delta' = [x |-> dx, y |-> dy]
  /\ from' = [x |-> cursor.x, y |-> cursor.y, dx |-> dx, dy |-> dy]
  /\ scrolled' = 0
  /\ UNCHANGED <<cursor, hw_cursor, restored>>

NewX == cursor.x + delta.x
NewY == cursor.y + delta.y

MoveUnchanged ==
  UNCHANGED <<saved_cursor, attribs, parserVars, from, corrupt>>

\* Bug: the lines the column runs over are not added to the row.
MoveWrap_DropsRows ==
  /\ moving /\ (NewX < 0 \/ NewX >= W)
  /\ cursor' = [cursor EXCEPT !.x = Remainder(NewX, W)]
  /\ delta' = [x |-> 0, y |-> Quotient(NewX, W)]
  /\ UNCHANGED <<screen, hw_cursor, restored, moving, scrolled>>
  /\ MoveUnchanged

\* The target column is outside the line: carry into the row.
MoveWrap ==
  /\ moving /\ (NewX < 0 \/ NewX >= W)
  /\ cursor' = [cursor EXCEPT !.x = Remainder(NewX, W)]
  /\ delta' = [x |-> 0, y |-> delta.y + Quotient(NewX, W)]
  /\ UNCHANGED <<screen, hw_cursor, restored, moving, scrolled>>
  /\ MoveUnchanged

\* The target row is above the screen: stop at the first.
MoveAbove ==
  /\ moving /\ NewX \in 0 .. W - 1 /\ NewY < 0
  /\ screen' = scroll(NewY)
  /\ cursor' = [cursor EXCEPT !.y = 0]
  /\ delta' = [delta EXCEPT !.y = 0]
  /\ UNCHANGED <<hw_cursor, restored, moving, scrolled>>
  /\ MoveUnchanged

\* Bug: the cursor is left below the last line.
MoveBelow_OneTooLow ==
  /\ moving /\ NewX \in 0 .. W - 1 /\ NewY >= H
  /\ screen' = scroll(NewY - (H - 1))
  /\ cursor' = [cursor EXCEPT !.y = H]
  /\ delta' = [delta EXCEPT !.y = 0]
  /\ UNCHANGED <<hw_cursor, restored, moving, scrolled>>
  /\ MoveUnchanged

\* The target row is below the screen: scroll the lines in between away.
MoveBelow ==
  /\ moving /\ NewX \in 0 .. W - 1 /\ NewY >= H
  /\ screen' = scroll(NewY - (H - 1))
  /\ scrolled' = scrolled + NewY - (H - 1)
  /\ cursor' = [cursor EXCEPT !.y = H - 1]
  /\ delta' = [delta EXCEPT !.y = 0]
  /\ UNCHANGED <<hw_cursor, restored, moving>>
  /\ MoveUnchanged

Nowhere == [x |-> 0, y |-> 0, dx |-> 0, dy |-> 0]

MoveLand ==
  /\ moving /\ NewX \in 0 .. W - 1 /\ NewY \in 0 .. H - 1
  /\ cursor' = [x |-> NewX, y |-> NewY]
  /\ hw_cursor' = hw_position(cursor')
  /\ restored' = FALSE
  /\ moving' = FALSE
  /\ delta' = [x |-> 0, y |-> 0]
  /\ from' = Nowhere
  /\ scrolled' = 0
  /\ UNCHANGED <<saved_cursor, attribs, parserVars, screen, corrupt>>

MoveStep ==
  /\ MoveWrap \/ MoveAbove \/ MoveBelow \/ MoveLand
  /\ UNCHANGED writer

-----------------------------------------------------------------------------
(***************************************************************************)
(* append: a codepoint outside an escape sequence.                         *)
(***************************************************************************)
KeepPlace == UNCHANGED <<cursor, hw_cursor, restored, moveVars>>

append(ch) ==
  \/ /\ ch = "newline"
     /\ move_cursor(-cursor.x, 1)
     /\ UNCHANGED screen
  \/ /\ ch = "return"
     /\ move_cursor(-cursor.x, 0)
     /\ UNCHANGED screen
  \/ /\ ch = "tab"
     /\ move_cursor(8 - (cursor.x % 8), 0)
     /\ UNCHANGED screen
  \/ /\ ch = "backspace"
     /\ move_cursor(-1, 0)
     /\ UNCHANGED screen
  \/ /\ ch \notin {"newline", "return", "tab", "backspace"}
     /\ screen' = set_cell(cursor.x, cursor.y, Cell(attribs, ch))
     /\ move_cursor(1, 0)

-----------------------------------------------------------------------------
(***************************************************************************)
(* do_ansi: the end of an escape sequence.                                 *)
(***************************************************************************)
Param(i, default) == IF params[i].empty THEN default ELSE params[i].value

Movements == {"A", "B", "C", "D", "E", "F", "G"}

Movement(ch) ==
  CASE ch = "A" -> <<0, -Param(0, 1)>>
    [] ch = "B" -> <<0, Param(0, 1)>>
    [] ch = "C" -> <<Param(0, 1), 0>>
    [] ch = "D" -> <<-Param(0, 1), 0>>
    [] ch = "E" -> IF params[0].empty THEN <<-cursor.x, 1>>
                   ELSE <<-cursor.x + 1, params[0].value>>
    [] ch = "F" -> <<-cursor.x, -Param(0, 1)>>
    [] ch = "G" -> <<Param(0, 0), cursor.y>>

\* Bug: the display is not told.
set_cursor_Silent(x, y) ==
  /\ cursor' = [x |-> Clamp(x, W), y |-> Clamp(y, H)]
  /\ restored' = FALSE
  /\ UNCHANGED <<hw_cursor, moveVars>>

\* Both limits are one past the screen.
set_cursor(x, y) ==
  /\ cursor' = [x |-> Clamp(x, W), y |-> Clamp(y, H)]
  /\ hw_cursor' = hw_position(cursor')
  /\ restored' = FALSE
  /\ UNCHANGED moveVars

Cleared(ch) ==
  LET n == params[0].value
  IN  CASE ch = "J" /\ n = 0 -> clear(cursor.x, cursor.y, W - 1, H - 1)
        [] ch = "J" /\ n = 1 -> clear(0, 0, cursor.x, cursor.y)
        [] ch = "J" /\ n = 2 -> clear(0, 0, W - 1, H - 1)
        [] ch = "K" /\ n = 0 -> clear(cursor.x, cursor.y, W - 1, cursor.y)
        [] ch = "K" /\ n = 1 -> clear(0, cursor.y, cursor.x, cursor.y)
        [] ch = "K" /\ n = 2 -> clear(0, cursor.y, W - 1, cursor.y)
        [] OTHER -> screen

Attribute(a, p) ==
  LET attr == p.value
  IN  CASE p.empty \/ attr = 0   -> DefaultAttributes
        [] attr = 1              -> [a EXCEPT !.bold = TRUE]
        [] attr \in 30 .. 37     -> [a EXCEPT !.foreground = attr - 30]
        [] attr \in 90 .. 97     -> [a EXCEPT !.foreground = attr - 90 + 8]
        [] attr \in 40 .. 47     -> [a EXCEPT !.background = attr - 40]
        [] attr \in 100 .. 107   -> [a EXCEPT !.background = attr - 100 + 8]
        [] OTHER                 -> a

\* The attributes after the first n parameters.
Attributes(n) ==
  LET after[i \in 0 .. n] ==
        IF i = 0 THEN attribs ELSE Attribute(after[i - 1], params[i - 1])
  IN  after[n]

\* The codepoints do_ansi has a case for.  Any other one ends the sequence
\* without effect.
Finals == Movements \cup {"f", "H", "J", "K", "S", "T", "m", "s", "u"}

do_ansi(ch) ==
  \/ /\ ch \in Movements
     /\ move_cursor(Movement(ch)[1], Movement(ch)[2])
     /\ UNCHANGED <<saved_cursor, attribs, screen>>
  \/ /\ ch \in {"f", "H"}
     /\ set_cursor(Param(1, 1) - 1, Param(0, 1) - 1)
     /\ UNCHANGED <<saved_cursor, attribs, screen>>
  \/ /\ ch \in {"J", "K"}
     /\ screen' = Cleared(ch)
     /\ KeepPlace /\ UNCHANGED <<saved_cursor, attribs>>
  \/ /\ ch \in {"S", "T"}
     /\ screen' = scroll(IF ch = "S" THEN -Param(0, 1) ELSE Param(0, 1))
     /\ KeepPlace /\ UNCHANGED <<saved_cursor, attribs>>
  \/ /\ ch = "m"
     /\ attribs' = Attributes(params_top + 1)
     /\ KeepPlace /\ UNCHANGED <<saved_cursor, screen>>
  \/ /\ ch = "s"
     /\ saved_cursor' = cursor
     /\ KeepPlace /\ UNCHANGED <<attribs, screen>>
  \/ /\ ch = "u"
     /\ cursor' = saved_cursor
     /\ restored' = TRUE
     /\ UNCHANGED <<saved_cursor, attribs, screen, hw_cursor, moveVars>>
  \/ /\ ch \notin Finals
     /\ KeepPlace /\ UNCHANGED <<saved_cursor, attribs, screen>>

-----------------------------------------------------------------------------
(***************************************************************************)
(* write_codepoint: the parser.                                            *)
(***************************************************************************)
DigitValue ==
  [d \in {"0", "1", "2", "3", "4", "5", "6", "7", "8", "9"} |->
     CASE d = "0" -> 0 [] d = "1" -> 1 [] d = "2" -> 2 [] d = "3" -> 3
       [] d = "4" -> 4 [] d = "5" -> 5 [] d = "6" -> 6 [] d = "7" -> 7
       [] d = "8" -> 8 [] d = "9" -> 9]

NoParam == [value |-> 0, empty |-> TRUE]
InArray(i) == i < PARAMETER_COUNT

WriteEscape ==
  /\ state = "WAIT_FOR_ESC"
  /\ params' = [i \in 0 .. PARAMETER_COUNT - 1 |-> NoParam]
  /\ params_top' = 0
  /\ state' = "ESCAPE_BRACKET"
  /\ KeepPlace /\ UNCHANGED <<saved_cursor, attribs, screen, corrupt>>

WriteText(ch) ==
  /\ state \in {"WAIT_FOR_ESC", "ESCAPE_BRACKET"}
  /\ append(ch)
  /\ state' = "WAIT_FOR_ESC"
  /\ UNCHANGED <<saved_cursor, attribs, params, params_top, corrupt>>

WriteBracket ==
  /\ state = "ESCAPE_BRACKET"
  /\ state' = "READ_ATTRIBUTE"
  /\ KeepPlace
  /\ UNCHANGED <<saved_cursor, attribs, params, params_top, screen, corrupt>>

WriteReset ==
  /\ state = "ESCAPE_BRACKET"
  /\ attribs' = DefaultAttributes
  /\ state' = "WAIT_FOR_ESC"
  /\ KeepPlace
  /\ UNCHANGED <<saved_cursor, params, params_top, screen, corrupt>>

WriteDigit(d) ==
  /\ state = "READ_ATTRIBUTE" /\ InArray(params_top)
  /\ LET v == params[params_top].value * 10 + DigitValue[d]
     IN  /\ v \in ParamValues
         /\ params' = [params EXCEPT ![params_top] = [value |-> v, empty |-> FALSE]]
  /\ KeepPlace
  /\ UNCHANGED <<saved_cursor, attribs, params_top, state, screen, corrupt>>

\* Nothing compares params_top with the size of the array.
WriteSeparator ==
  /\ state = "READ_ATTRIBUTE" /\ params_top < MaxSeparators
  /\ params_top' = params_top + 1
  /\ KeepPlace
  /\ UNCHANGED <<saved_cursor, attribs, params, state, screen, corrupt>>

WriteCommand(ch) ==
  /\ state = "READ_ATTRIBUTE"
  /\ ch = "m" => InArray(params_top)
  /\ do_ansi(ch)
  /\ state' = "WAIT_FOR_ESC"
  /\ UNCHANGED <<params, params_top, corrupt>>

\* A digit written, or an attribute read, past the end of _params: what
\* the program does after that is undefined, and not modelled.
WritePastParams ==
  /\ state = "READ_ATTRIBUTE" /\ ~InArray(params_top)
  /\ corrupt' = TRUE
  /\ KeepPlace /\ UNCHANGED <<saved_cursor, attribs, parserVars, screen>>

write_codepoint ==
  /\ ~moving /\ ~corrupt /\ UNCHANGED writer
  /\ \/ WriteEscape
     \/ \E ch \in Text : WriteText(ch)
     \/ WriteBracket
     \/ WriteReset
     \/ \E d \in DOMAIN DigitValue : WriteDigit(d)
     \/ WriteSeparator
     \/ \E ch \in Commands : WriteCommand(ch)
     \/ WritePastParams

\* The constructors of Terminal and CGATerminal.
TerminalInit ==
  /\ cursor = [x |-> 0, y |-> 0] /\ saved_cursor = [x |-> 0, y |-> 0]
  /\ attribs = DefaultAttributes
  /\ params = [i \in 0 .. PARAMETER_COUNT - 1 |-> NoParam]
  /\ params_top = 0
  /\ state = "WAIT_FOR_ESC"
  /\ screen = [cells |-> [p \in Positions |-> BootCell],
               vga   |-> [p \in Positions |-> Shown(Cell(DefaultAttributes, " "))]]
  /\ hw_cursor = 0
  /\ moving = FALSE /\ delta = [x |-> 0, y |-> 0] /\ from = Nowhere /\ scrolled = 0
  /\ restored = FALSE /\ corrupt = FALSE
  /\ writer \in Writers

TerminalNext == write_codepoint \/ MoveStep

\* The processor goes on executing a call of move_cursor.
TerminalSpec ==
  TerminalInit /\ [][TerminalNext]_terminalVars /\ WF_terminalVars(MoveStep)

-----------------------------------------------------------------------------
(***************************************************************************)
(* Properties                                                              *)
(***************************************************************************)
\* The types of the variables.  Terminal.cpp keeps the cursor on the screen, or one past
\* its last column or row; only inside a call to the left is it negative.  The
\* parameters a sequence has not reached are empty, none is left over.
TerminalTypeOK ==
  /\ cursor \in [x : (-W) .. W, y : 0 .. H]
  /\ ~moving => cursor \in Cursors
  /\ saved_cursor \in Cursors
  /\ attribs \in [bold : BOOLEAN, foreground : Colors, background : Colors]
  /\ params \in [0 .. PARAMETER_COUNT - 1 -> [value : ParamValues, empty : BOOLEAN]]
  /\ params_top \in 0 .. MaxSeparators
  /\ state = "READ_ATTRIBUTE" =>
       \A i \in 0 .. PARAMETER_COUNT - 1 : i > params_top => params[i] = NoParam
  /\ state \in {"WAIT_FOR_ESC", "ESCAPE_BRACKET", "READ_ATTRIBUTE"}
  /\ DOMAIN screen.cells = Positions /\ DOMAIN screen.vga = Positions
  /\ hw_cursor \in 0 .. PositionValues - 1
  /\ moving \in BOOLEAN /\ restored \in BOOLEAN /\ corrupt \in BOOLEAN
  /\ delta \in [x : Int, y : Int]
  /\ from \in [x : 0 .. W, y : 0 .. H, dx : Int, dy : Int]
  /\ scrolled \in Nat

\* Where a call of move_cursor should end: the cursor moves along the lines as
\* along one long tape, then the row is brought back onto the screen.
TargetColumn == (from.x + from.dx) % W
TargetRow == from.y + from.dy + ((from.x + from.dx) \div W)

\* move_cursor ends at its target, having scrolled exactly the lines the target
\* lies below the screen, however the carries in its recursion fell.
MovesLandOnTarget ==
  [][moving /\ ~moving' =>
       /\ cursor' = [x |-> TargetColumn, y |-> Clamp(TargetRow, H - 1)]
       /\ scrolled = Clamp(TargetRow - (H - 1), TargetRow + H)]_terminalVars

\* A call that sends the cursor into the middle of an earlier line: the
\* truncated remainder stays negative and move_cursor recurses for ever.
LeavesToTheLeft == from.x + from.dx < 0 /\ TargetColumn # 0

\* Every codepoint is processed in finite time, except one that moves the
\* cursor left of column zero (a backspace there, or ESC [ n D).
WritesReturn == moving ~> (~moving \/ LeavesToTheLeft)

\* The display shows what the array of cells holds, although it only hears of
\* cells that change.  The exception is a cell that holds what the array was
\* built with: the display was painted with other colours.
DisplayShowsCells ==
  \A p \in Positions :
    \/ screen.vga[p] = Shown(screen.cells[p])
    \/ /\ screen.cells[p] = BootCell
       /\ screen.vga[p] = Shown(Cell(DefaultAttributes, " "))

\* The cursor stays where Terminal.cpp may leave it, and between calls the
\* display's cursor is there too, unless the terminal's was just restored:
\* do_ansi 'u' does not tell the display.
DisplayCursorFollows ==
  /\ TerminalTypeOK
  /\ ~moving /\ ~restored => hw_cursor = hw_position(cursor)
=============================================================================
