--------------------------- MODULE TerminalProofs ---------------------------
(***************************************************************************)
(* Theorems about the terminal and about printf, for any size of the       *)
(* screen, any number of parameters and any vocabulary, and for any        *)
(* formats, buffers and width of a word, with the proofs TLAPS checks.     *)
(*                                                                         *)
(* The lines of the screen, laid end to end, are a tape.  However the      *)
(* carries of move_cursor fall, they leave the cursor and what is left of  *)
(* the move at the same place of the tape, until a row outside the screen  *)
(* is brought back and the column is already the one where the call ends.  *)
(*                                                                         *)
(* A call of printf has two bounds, the count of what it wrote and the     *)
(* scan of the string it writes behind; each keeps what the other one      *)
(* needs, as long as every conversion that is read has its argument.       *)
(***************************************************************************)
EXTENDS Terminal, Printf, Induction, SequenceTheorems
-----------------------------------------------------------------------------
(* The inductive invariant.                                                *)

Parameters == [value : ParamValues, empty : BOOLEAN]
AttributeType == [bold : BOOLEAN, foreground : Colors, background : Colors]

ParserOK ==
  /\ attribs \in AttributeType
  /\ params \in [0 .. PARAMETER_COUNT - 1 -> Parameters]
  /\ params_top \in 0 .. MaxSeparators
  /\ state \in {"WAIT_FOR_ESC", "ESCAPE_BRACKET", "READ_ATTRIBUTE"}
  /\ state = "READ_ATTRIBUTE" =>
       \A i \in 0 .. PARAMETER_COUNT - 1 : i > params_top => params[i] = NoParam
  /\ state = "ESCAPE_BRACKET" =>
       params_top = 0 /\ \A i \in 0 .. PARAMETER_COUNT - 1 : params[i] = NoParam
  /\ corrupt \in BOOLEAN
  /\ writer \in Writers

\* What a display that was told of every change shows.
Shows(scr) ==
  /\ DOMAIN scr.cells = Positions /\ DOMAIN scr.vga = Positions
  /\ \A p \in Positions :
       \/ scr.vga[p] = Shown(scr.cells[p])
       \/ /\ scr.cells[p] = BootCell
          /\ scr.vga[p] = Shown(Cell(DefaultAttributes, " "))

Tape(x, y) == x + W * y

\* A call of move_cursor is on its way to its target, or has been brought
\* back onto the screen and is about to land.
OnTheWay ==
  /\ Tape(NewX, NewY) = Tape(from.x + from.dx, from.y + from.dy)
  /\ scrolled = 0

AboutToLand ==
  /\ NewX = TargetColumn /\ NewY = Clamp(TargetRow, H - 1)
  /\ scrolled = Clamp(TargetRow - (H - 1), TargetRow + H)

PlaceTypes ==
  /\ cursor \in [x : (-W) .. W, y : 0 .. H]
  /\ ~moving => cursor \in Cursors
  /\ saved_cursor \in Cursors
  /\ moving \in BOOLEAN /\ restored \in BOOLEAN
  /\ delta \in [x : Int, y : Int]
  /\ from \in [x : 0 .. W, y : 0 .. H, dx : Int, dy : Int]
  /\ scrolled \in Nat
  /\ hw_cursor \in 0 .. PositionValues - 1

PlaceOK ==
  /\ PlaceTypes
  /\ ~moving /\ ~restored => hw_cursor = hw_position(cursor)
  /\ moving => OnTheWay \/ AboutToLand

TerminalInv == ParserOK /\ Shows(screen) /\ PlaceOK

-----------------------------------------------------------------------------
(* Division that truncates, and places on the tape.                        *)

\* The quotient and the remainder of C++ make up the number, and the remainder
\* is less than the divisor on either side of zero.
LEMMA QuotientRemainder ==
  ASSUME NEW a \in Int, NEW b \in Nat \ {0}
  PROVE  /\ Quotient(a, b) \in Int
         /\ Remainder(a, b) \in (1 - b) .. (b - 1)
         /\ a = Remainder(a, b) + b * Quotient(a, b)
<1>1. CASE a >= 0
  <2>1. PICK q \in Int : q = a \div b
    OBVIOUS
  <2>2. PICK r \in 0 .. b - 1 : r = a % b
    OBVIOUS
  <2>3. a = b * q + r
    BY <2>1, <2>2
  <2>4. Quotient(a, b) = q
    BY <1>1, <2>1 DEF Quotient
  <2>5. Remainder(a, b) = r
    BY <2>3, <2>4 DEF Remainder
  <2> QED BY <2>3, <2>4, <2>5
<1>2. CASE a < 0
  <2>0. PICK c \in Int : c = -a
    OBVIOUS
  <2>1. PICK q \in Int : q = c \div b
    BY <2>0
  <2>2. PICK r \in 0 .. b - 1 : r = c % b
    BY <2>0
  <2>3. c = b * q + r
    BY <2>1, <2>2
  <2>4. Quotient(a, b) = -q
    BY <1>2, <2>0, <2>1 DEF Quotient
  <2>5. b * (-q) = -(b * q)
    OBVIOUS
  <2>6. Remainder(a, b) = -r
    BY <2>0, <2>3, <2>4, <2>5 DEF Remainder
  <2> QED BY <2>0, <2>3, <2>4, <2>5, <2>6
<1> QED BY <1>1, <1>2

\* A column inside the line and a row are given by their place on the tape.
LEMMA TapePlace ==
  ASSUME NEW x \in 0 .. W - 1, NEW y \in Int, NEW a \in Int, NEW b \in Int,
         Tape(x, y) = Tape(a, b)
  PROVE  x = a % W /\ y = b + (a \div W)
<1>0. W \in Nat \ {0}
  BY TerminalAssumption
<1>1. PICK q \in Int : q = a \div W
  BY <1>0
<1>2. PICK r \in 0 .. W - 1 : r = a % W
  BY <1>0
<1>3. a = W * q + r
  BY <1>0, <1>1, <1>2
<1>4. PICK d \in Int : d = b + q - y
  OBVIOUS
<1>5. W * d = W * b + W * q - W * y
  BY <1>0, <1>4
<1>6. W * d = x - r
  BY <1>0, <1>3, <1>5 DEF Tape
<1>7. (d >= 1 => W * d >= W) /\ (d <= -1 => W * d <= -W)
  BY <1>0
<1>8. d = 0
  BY <1>0, <1>6, <1>7
<1>9. W * d = 0
  BY <1>0, <1>8
<1>10. x = r
  BY <1>6, <1>9
<1>11. y = b + q
  BY <1>4, <1>8
<1> QED BY <1>1, <1>2, <1>10, <1>11

\* The position the display is given fits the registers it is written to.
LEMMA PositionFits ==
  ASSUME NEW c, c.x \in Int, c.y \in Int
  PROVE  hw_position(c) \in 0 .. PositionValues - 1
<1>0. W \in Int
  BY TerminalAssumption
<1>1. PICK n \in Int : n = c.y * W + c.x
  BY <1>0
<1>2. PositionValues \in Nat \ {0}
  BY DEF PositionValues
<1>3. n % PositionValues \in 0 .. PositionValues - 1
  BY <1>2
<1> QED BY <1>1, <1>3 DEF hw_position

-----------------------------------------------------------------------------
(* The parser.                                                             *)

\* The colours a sequence selects are colours.
LEMMA AttributeType_Kept ==
  ASSUME NEW a \in AttributeType, NEW p, p.value \in Nat, p.empty \in BOOLEAN
  PROVE  Attribute(a, p) \in AttributeType
<1>1. DefaultAttributes \in AttributeType
  BY DEF DefaultAttributes, AttributeType, Colors
<1>2. [a EXCEPT !.bold = TRUE] \in AttributeType
  BY DEF AttributeType
<1>3. ASSUME NEW c \in Colors
      PROVE  [a EXCEPT !.foreground = c] \in AttributeType /\ [a EXCEPT !.background = c] \in AttributeType
  BY <1>3 DEF AttributeType
<1>4. PICK v \in Nat : v = p.value
  OBVIOUS
<1>5. \/ p.empty \/ v = 0 \/ v = 1
      \/ v \in 30 .. 37 \/ v \in 90 .. 97 \/ v \in 40 .. 47 \/ v \in 100 .. 107
      \/ ~ (v \in 30 .. 37 \/ v \in 90 .. 97 \/ v \in 40 .. 47 \/ v \in 100 .. 107)
  OBVIOUS
<1>6. /\ v \in 30 .. 37 => v - 30 \in Colors
      /\ v \in 90 .. 97 => v - 90 + 8 \in Colors
      /\ v \in 40 .. 47 => v - 40 \in Colors
      /\ v \in 100 .. 107 => v - 100 + 8 \in Colors
  BY DEF Colors
<1>7. \/ Attribute(a, p) = DefaultAttributes
      \/ Attribute(a, p) = [a EXCEPT !.bold = TRUE]
      \/ v \in 30 .. 37 /\ Attribute(a, p) = [a EXCEPT !.foreground = v - 30]
      \/ v \in 90 .. 97 /\ Attribute(a, p) = [a EXCEPT !.foreground = v - 90 + 8]
      \/ v \in 40 .. 47 /\ Attribute(a, p) = [a EXCEPT !.background = v - 40]
      \/ v \in 100 .. 107 /\ Attribute(a, p) = [a EXCEPT !.background = v - 100 + 8]
      \/ Attribute(a, p) = a
  BY <1>4 DEF Attribute
<1> QED BY <1>1, <1>2, <1>3, <1>6, <1>7

\* What the vocabulary of a writer gives the parser.
LEMMA WriterTypes ==
  ASSUME writer \in Writers
  PROVE  0 \in ParamValues /\ ParamValues \subseteq Nat /\ MaxSeparators \in Nat
BY TerminalAssumption DEF ParamValues, MaxSeparators

\* The recursion over the parameters: the attributes stay attributes.
LEMMA AttributesType ==
  ASSUME ParserOK, NEW n \in 0 .. PARAMETER_COUNT
  PROVE  Attributes(n) \in AttributeType
<1>0. params \in [0 .. PARAMETER_COUNT - 1 -> Parameters] /\ attribs \in AttributeType
  BY DEF ParserOK
<1>00. ParamValues \subseteq Nat
  BY WriterTypes DEF ParserOK
<1>000. PARAMETER_COUNT \in Nat /\ n \in Nat
  BY TerminalAssumption
<1> DEFINE G == [ia \in (1 .. n) \X AttributeType |-> Attribute(ia[2], params[ia[1] - 1])]
           after == CHOOSE f : f = [i \in 0 .. n |->
                      IF i = 0 THEN attribs ELSE Attribute(f[i - 1], params[i - 1])]
<1>1. ASSUME NEW i \in 1 .. n PROVE params[i - 1].value \in Nat /\ params[i - 1].empty \in BOOLEAN
  <2>1. i - 1 \in 0 .. PARAMETER_COUNT - 1
    BY <1>000
  <2>2. params[i - 1] \in Parameters
    BY <1>0, <2>1
  <2> QED BY <1>00, <2>2 DEF Parameters
<1>2. G \in StepFunctions(n, AttributeType)
  <2>1. ASSUME NEW i \in 1 .. n, NEW a \in AttributeType
        PROVE  Attribute(a, params[i - 1]) \in AttributeType
    <3>1. PICK p : p = params[i - 1]
      OBVIOUS
    <3>2. Attribute(a, p) \in AttributeType
      BY <1>1, <3>1, AttributeType_Kept
    <3> QED BY <3>1, <3>2
  <2>2. \A ia \in (1 .. n) \X AttributeType : ia[1] \in 1 .. n /\ ia[2] \in AttributeType
    OBVIOUS
  <2>3. \A ia \in (1 .. n) \X AttributeType : Attribute(ia[2], params[ia[1] - 1]) \in AttributeType
    BY <2>1, <2>2
  <2> QED BY <2>3 DEF StepFunctions
<1>3. \A i \in 1 .. n, a \in AttributeType : G[<<i, a>>] = Attribute(a, params[i - 1])
  OBVIOUS
<1> HIDE DEF G
<1>4. PICK f : Recursive(f, n, AttributeType, attribs, G)
  BY <1>0, <1>000, <1>2, RecursionUpTo
<1>5. f \in [0 .. n -> AttributeType] /\ f[0] = attribs /\ \A i \in 1 .. n : f[i] = G[<<i, f[i - 1]>>]
  BY <1>4 DEF Recursive
<1>6. \A i \in 1 .. n : f[i] = Attribute(f[i - 1], params[i - 1])
  <2> TAKE i \in 1 .. n
  <2>1. i - 1 \in 0 .. n
    BY <1>000
  <2>2. f[i - 1] \in AttributeType
    BY <1>5, <2>1
  <2> QED BY <1>3, <1>5, <2>2
<1>7. f = [i \in 0 .. n |-> IF i = 0 THEN attribs ELSE Attribute(f[i - 1], params[i - 1])]
  <2>1. \A i \in 0 .. n : f[i] = IF i = 0 THEN attribs ELSE Attribute(f[i - 1], params[i - 1])
    <3> TAKE i \in 0 .. n
    <3>1. i = 0 \/ i \in 1 .. n
      BY <1>000
    <3>2. i \in 1 .. n => i # 0
      OBVIOUS
    <3> QED BY <1>5, <1>6, <3>1, <3>2
  <2> QED BY <1>5, <2>1
<1>8. after = [i \in 0 .. n |-> IF i = 0 THEN attribs ELSE Attribute(after[i - 1], params[i - 1])]
  BY <1>7, Zenon
<1>9. Attributes(n) = after[n]
  BY DEF Attributes
<1> HIDE DEF after
<1>10. after[0] = attribs
  BY <1>8, <1>000
<1>11. \A i \in 1 .. n : after[i] = Attribute(after[i - 1], params[i - 1])
  <2> TAKE i \in 1 .. n
  <2>1. i \in 0 .. n /\ i # 0
    OBVIOUS
  <2> QED BY <1>8, <2>1
<1> DEFINE S == {i \in 0 .. n : after[i] \in AttributeType}
<1>12. 0 \in S
  BY <1>0, <1>10, <1>000
<1>13. ASSUME NEW i \in 1 .. n, i - 1 \in S PROVE i \in S
  <2>1. PICK a \in AttributeType : a = after[i - 1]
    BY <1>13
  <2>2. PICK p : p = params[i - 1]
    OBVIOUS
  <2>3. Attribute(a, p) \in AttributeType
    BY <1>1, <2>2, AttributeType_Kept
  <2> QED BY <1>11, <2>1, <2>2, <2>3
<1> HIDE DEF S
<1>14. 0 .. n \subseteq S
  BY <1>000, <1>12, <1>13, InductionUpTo
<1>15. n \in S
  BY <1>000, <1>14
<1> QED BY <1>9, <1>15 DEF S

\* A fresh array of parameters is one.
LEMMA FreshParameters ==
  ASSUME writer \in Writers
  PROVE  NoParam \in Parameters
BY WriterTypes DEF NoParam, Parameters

\* A digit goes into the parameter that is being read.
LEMMA WriteDigitKeepsParser ==
  ASSUME ParserOK, NEW d, WriteDigit(d), UNCHANGED writer
  PROVE  ParserOK'
<1>0. ParserOK /\ PARAMETER_COUNT \in Nat /\ writer \in Writers
  BY TerminalAssumption DEF ParserOK
<1>1. MaxSeparators \in Nat /\ ParamValues \subseteq Nat
  BY <1>0, WriterTypes
<1>2. params_top \in 0 .. PARAMETER_COUNT - 1
  BY <1>0, <1>1 DEF ParserOK, WriteDigit, InArray
<1>3. PICK v \in ParamValues : params' = [params EXCEPT ![params_top] = [value |-> v, empty |-> FALSE]]
  BY DEF WriteDigit
<1>4. PICK q \in Parameters : params' = [params EXCEPT ![params_top] = q]
  BY <1>3 DEF Parameters
<1>5. /\ attribs' = attribs /\ params_top' = params_top /\ state' = state
      /\ corrupt' = corrupt /\ state = "READ_ATTRIBUTE"
  BY DEF WriteDigit
<1>6. ParamValues' = ParamValues /\ MaxSeparators' = MaxSeparators /\ Parameters' = Parameters
  BY DEF ParamValues, MaxSeparators, Parameters
<1>7. params' \in [0 .. PARAMETER_COUNT - 1 -> Parameters]
  BY <1>0, <1>2, <1>4 DEF ParserOK
<1>8. \A i \in 0 .. PARAMETER_COUNT - 1 : i # params_top => params'[i] = params[i]
  BY <1>0, <1>4 DEF ParserOK
<1>9. \A i \in 0 .. PARAMETER_COUNT - 1 : i > params_top => params'[i] = NoParam
  <2> TAKE i \in 0 .. PARAMETER_COUNT - 1
  <2> HAVE i > params_top
  <2>1. i # params_top
    BY <1>2
  <2> QED BY <1>0, <1>5, <1>8, <2>1 DEF ParserOK
<1>10. attribs' \in AttributeType /\ params_top' \in 0 .. MaxSeparators /\ writer' \in Writers
  BY <1>0, <1>5 DEF ParserOK
<1> QED BY <1>0, <1>5, <1>6, <1>7, <1>9, <1>10 DEF ParserOK

\* Only one command changes the attributes.
LEMMA CommandKeepsAttributes ==
  ASSUME ParserOK, NEW ch, do_ansi(ch), ch = "m" => InArray(params_top)
  PROVE  attribs' \in AttributeType
<1>1. CASE ch = "m"
  <2>1. attribs' = Attributes(params_top + 1)
    BY <1>1 DEF do_ansi, Movements, Finals
  <2>2. PARAMETER_COUNT \in Nat /\ MaxSeparators \in Nat
    BY TerminalAssumption, WriterTypes DEF ParserOK
  <2>3. params_top \in 0 .. MaxSeparators
    BY DEF ParserOK
  <2>4. PICK n \in 0 .. PARAMETER_COUNT : n = params_top + 1
    BY <1>1, <2>2, <2>3 DEF InArray
  <2>5. Attributes(n) \in AttributeType
    BY AttributesType
  <2> QED BY <2>1, <2>4, <2>5
<1>2. CASE ch # "m"
  <2>1. attribs' = attribs
    BY <1>2, Zenon DEF do_ansi
  <2> QED BY <2>1 DEF ParserOK
<1> QED BY <1>1, <1>2

\* Every step keeps the parser in order.
LEMMA NextKeepsParser ==
  ASSUME ParserOK, [TerminalNext]_terminalVars
  PROVE  ParserOK'
<1>0. writer' = writer
  BY DEF TerminalNext, write_codepoint, MoveStep, terminalVars
<1>1. ParamValues' = ParamValues /\ MaxSeparators' = MaxSeparators /\ Parameters' = Parameters
  BY <1>0 DEF ParamValues, MaxSeparators, Parameters
<1>2. MaxSeparators \in Nat /\ NoParam \in Parameters /\ PARAMETER_COUNT \in Nat
  BY WriterTypes, FreshParameters, TerminalAssumption DEF ParserOK
<1>3. CASE WriteEscape
  <2>1. /\ params' = [i \in 0 .. PARAMETER_COUNT - 1 |-> NoParam] /\ params_top' = 0
        /\ state' = "ESCAPE_BRACKET" /\ attribs' = attribs /\ corrupt' = corrupt
    BY <1>3 DEF WriteEscape
  <2>2. params' \in [0 .. PARAMETER_COUNT - 1 -> Parameters]
    BY <1>2, <2>1
  <2>3. \A i \in 0 .. PARAMETER_COUNT - 1 : params'[i] = NoParam
    BY <2>1
  <2>4. 0 \in 0 .. MaxSeparators
    BY <1>2
  <2> QED BY <1>0, <1>1, <2>1, <2>2, <2>3, <2>4 DEF ParserOK
<1>4. ASSUME NEW ch, WriteText(ch) PROVE ParserOK'
  <2>1. /\ state' = "WAIT_FOR_ESC"
        /\ attribs' = attribs /\ params' = params /\ params_top' = params_top /\ corrupt' = corrupt
    BY <1>4 DEF WriteText
  <2> QED BY <1>0, <1>1, <2>1 DEF ParserOK
<1>5. CASE WriteBracket
  <2>1. /\ state = "ESCAPE_BRACKET" /\ state' = "READ_ATTRIBUTE"
        /\ attribs' = attribs /\ params' = params /\ params_top' = params_top /\ corrupt' = corrupt
    BY <1>5 DEF WriteBracket
  <2> QED BY <1>0, <1>1, <2>1 DEF ParserOK
<1>6. CASE WriteReset
  <2>1. /\ state' = "WAIT_FOR_ESC" /\ attribs' = DefaultAttributes
        /\ params' = params /\ params_top' = params_top /\ corrupt' = corrupt
    BY <1>6 DEF WriteReset
  <2>2. DefaultAttributes \in AttributeType
    BY DEF DefaultAttributes, AttributeType, Colors
  <2> QED BY <1>0, <1>1, <2>1, <2>2 DEF ParserOK
<1>7. ASSUME NEW d, WriteDigit(d) PROVE ParserOK'
  BY <1>0, <1>7, WriteDigitKeepsParser
<1>8. CASE WriteSeparator
  <2>1. /\ state = "READ_ATTRIBUTE" /\ state' = "READ_ATTRIBUTE"
        /\ params_top < MaxSeparators /\ params_top' = params_top + 1
        /\ attribs' = attribs /\ params' = params /\ corrupt' = corrupt
    BY <1>8 DEF WriteSeparator, ParserOK
  <2>2. params_top \in 0 .. MaxSeparators
    BY DEF ParserOK
  <2>3. params_top' \in 0 .. MaxSeparators
    BY <1>2, <2>1, <2>2
  <2>4. \A i \in 0 .. PARAMETER_COUNT - 1 : i > params_top' => params[i] = NoParam
    <3> TAKE i \in 0 .. PARAMETER_COUNT - 1
    <3>1. i > params_top' => i > params_top
      BY <1>2, <2>1, <2>2
    <3> QED BY <2>1, <3>1 DEF ParserOK
  <2> QED BY <1>0, <1>1, <2>1, <2>3, <2>4 DEF ParserOK
<1>9. ASSUME NEW ch, WriteCommand(ch) PROVE ParserOK'
  <2>1. /\ state' = "WAIT_FOR_ESC" /\ params' = params /\ params_top' = params_top
        /\ corrupt' = corrupt
    BY <1>9 DEF WriteCommand
  <2>2. attribs' \in AttributeType
    BY <1>9, CommandKeepsAttributes DEF WriteCommand
  <2> QED BY <1>0, <1>1, <2>1, <2>2 DEF ParserOK
<1>10. CASE WritePastParams
  <2>1. corrupt' = TRUE /\ attribs' = attribs /\ UNCHANGED parserVars
    BY <1>10 DEF WritePastParams
  <2> QED BY <1>0, <1>1, <2>1 DEF ParserOK, parserVars
<1>11. CASE MoveStep \/ UNCHANGED terminalVars
  <2>1. attribs' = attribs /\ UNCHANGED parserVars /\ corrupt' = corrupt
    BY <1>11 DEF MoveStep, MoveWrap, MoveAbove, MoveBelow, MoveLand, MoveUnchanged, terminalVars
  <2> QED BY <1>0, <1>1, <2>1 DEF ParserOK, parserVars
<1> QED BY <1>3, <1>4, <1>5, <1>6, <1>7, <1>8, <1>9, <1>10, <1>11 DEF TerminalNext, write_codepoint

-----------------------------------------------------------------------------
(* The screen.                                                             *)

\* A display told of the cells that change goes on showing what it should.
LEMMA SetCellsShows ==
  ASSUME NEW scr, Shows(scr), NEW new, DOMAIN new = Positions
  PROVE  Shows(SetCells(scr, new))
<1>1. PICK s : s = SetCells(scr, new)
  OBVIOUS
<1>2. s.cells = new
  BY <1>1 DEF SetCells
<1>3. s.vga = [p \in Positions |-> IF new[p] # scr.cells[p] THEN Shown(new[p]) ELSE scr.vga[p]]
  BY <1>1 DEF SetCells
<1>4. ASSUME NEW p \in Positions
      PROVE  \/ s.vga[p] = Shown(s.cells[p])
             \/ /\ s.cells[p] = BootCell
                /\ s.vga[p] = Shown(Cell(DefaultAttributes, " "))
  <2>1. CASE new[p] # scr.cells[p]
    BY <1>2, <1>3, <2>1
  <2>2. CASE new[p] = scr.cells[p]
    <3>1. s.vga[p] = scr.vga[p] /\ s.cells[p] = scr.cells[p]
      BY <1>2, <1>3, <2>2
    <3> QED BY <3>1 DEF Shows
  <2> QED BY <2>1, <2>2
<1>5. DOMAIN s.cells = Positions /\ DOMAIN s.vga = Positions
  BY <1>2, <1>3
<1>6. Shows(s)
  BY <1>4, <1>5 DEF Shows
<1> QED BY <1>1, <1>6

\* One line scrolled is two such changes.
LEMMA ScrollLineShows ==
  ASSUME NEW scr, Shows(scr)
  PROVE  Shows(ScrollLine(scr))
<1> DEFINE up == [p \in Positions |->
                    IF p[2] < H - 1 THEN scr.cells[<<p[1], p[2] + 1>>] ELSE scr.cells[p]]
           moved == SetCells(scr, up)
           last == [p \in Positions |-> IF p[2] = H - 1 THEN Blank ELSE moved.cells[p]]
<1>1. DOMAIN up = Positions /\ DOMAIN last = Positions
  OBVIOUS
<1>2. ScrollLine(scr) = SetCells(moved, last)
  BY DEF ScrollLine
<1> HIDE DEF up, last
<1>3. Shows(moved)
  BY <1>1, SetCellsShows
<1> HIDE DEF moved
<1>4. Shows(SetCells(moved, last))
  BY <1>1, <1>3, SetCellsShows
<1> QED BY <1>2, <1>4

\* f holds the screen after each number of lines scrolled, up to n.
Scrolls(f, n) ==
  f = [i \in 0 .. n |-> IF i = 0 THEN screen ELSE ScrollLine(f[i - 1])]

\* What Scrolls says of the first screen and of each one after it.
LEMMA ScrollsStep ==
  ASSUME NEW n \in Nat, NEW f, Scrolls(f, n)
  PROVE  /\ DOMAIN f = 0 .. n
         /\ f[0] = screen
         /\ \A i \in 1 .. n : f[i] = ScrollLine(f[i - 1])
<1>1. f = [i \in 0 .. n |-> IF i = 0 THEN screen ELSE ScrollLine(f[i - 1])]
  BY DEF Scrolls
<1>2. DOMAIN f = 0 .. n
  BY <1>1
<1>3. f[0] = screen
  BY <1>1
<1>4. ASSUME NEW i \in 1 .. n PROVE f[i] = ScrollLine(f[i - 1])
  <2>1. i \in 0 .. n /\ i # 0
    OBVIOUS
  <2> QED BY <1>1, <2>1
<1> QED BY <1>2, <1>3, <1>4

\* The recursion over the lines is defined.
LEMMA ScrollsExist ==
  ASSUME NEW N \in Nat
  PROVE  \E f : Scrolls(f, N)
<1> DEFINE S == {n \in 0 .. N : \E f : Scrolls(f, n)}
<1>1. 0 \in S
  <2> DEFINE g == [i \in 0 .. 0 |-> screen]
  <2>1. g = [i \in 0 .. 0 |-> IF i = 0 THEN screen ELSE ScrollLine(g[i - 1])]
    OBVIOUS
  <2> HIDE DEF g
  <2>2. Scrolls(g, 0)
    BY <2>1 DEF Scrolls
  <2> QED BY <2>2
<1>2. ASSUME NEW n \in 1 .. N, n - 1 \in S PROVE n \in S
  <2>1. PICK f : Scrolls(f, n - 1)
    BY <1>2
  <2>0. n - 1 \in Nat
    OBVIOUS
  <2>2. f[0] = screen /\ \A i \in 1 .. n - 1 : f[i] = ScrollLine(f[i - 1])
    BY <2>0, <2>1, ScrollsStep
  <2> DEFINE g == [i \in 0 .. n |-> IF i = n THEN ScrollLine(f[n - 1]) ELSE f[i]]
  <2>3. \A i \in 0 .. n - 1 : g[i] = f[i]
    OBVIOUS
  <2>4. g[n] = ScrollLine(f[n - 1]) /\ DOMAIN g = 0 .. n
    OBVIOUS
  <2>40. g = [i \in 0 .. n |-> g[i]]
    OBVIOUS
  <2> HIDE DEF g
  <2>5. ASSUME NEW i \in 0 .. n
        PROVE  g[i] = IF i = 0 THEN screen ELSE ScrollLine(g[i - 1])
    <3>1. CASE i = 0
      <4>1. 0 \in 0 .. n - 1
        OBVIOUS
      <4> QED BY <2>2, <2>3, <3>1, <4>1
    <3>2. CASE i # 0 /\ i # n
      <4>1. i \in 0 .. n - 1 /\ i \in 1 .. n - 1 /\ i - 1 \in 0 .. n - 1
        BY <3>2
      <4> QED BY <2>2, <2>3, <3>2, <4>1
    <3>3. CASE i = n
      <4>1. n - 1 \in 0 .. n - 1 /\ n # 0
        OBVIOUS
      <4> QED BY <2>3, <2>4, <3>3, <4>1
    <3> QED BY <3>1, <3>2, <3>3
  <2>6. Scrolls(g, n)
    BY <2>40, <2>5 DEF Scrolls
  <2> QED BY <2>6
<1> HIDE DEF S
<1>3. 0 .. N \subseteq S
  BY <1>1, <1>2, InductionUpTo
<1>4. N \in S
  BY <1>3
<1> QED BY <1>4 DEF S

\* Scrolling any number of lines, a negative one included, keeps the display
\* true to the cells.
LEMMA ScrollShows ==
  ASSUME NEW k \in Int, Shows(screen)
  PROVE  Shows(scroll(k))
<1>1. PICK n \in Nat : n = IF k < 0 THEN 0 ELSE k
  OBVIOUS
<1> DEFINE after == CHOOSE f : f = [i \in 0 .. n |-> IF i = 0 THEN screen ELSE ScrollLine(f[i - 1])]
<1>2. scroll(k) = after[n]
  BY <1>1, Zenon DEF scroll
<1>3. Scrolls(after, n)
  <2>1. \E f : f = [i \in 0 .. n |-> IF i = 0 THEN screen ELSE ScrollLine(f[i - 1])]
    BY ScrollsExist, Zenon DEF Scrolls
  <2> QED BY <2>1, Zenon DEF Scrolls
<1> HIDE DEF after
<1>4. after[0] = screen /\ \A i \in 1 .. n : after[i] = ScrollLine(after[i - 1])
  BY <1>3, ScrollsStep
<1> DEFINE S == {i \in 0 .. n : Shows(after[i])}
<1>5. 0 \in S
  BY <1>4
<1>6. ASSUME NEW i \in 1 .. n, i - 1 \in S PROVE i \in S
  <2>1. PICK scr : scr = after[i - 1]
    OBVIOUS
  <2>2. Shows(scr)
    BY <1>6, <2>1
  <2>3. Shows(ScrollLine(scr))
    BY <2>2, ScrollLineShows
  <2> QED BY <1>4, <2>1, <2>3
<1> HIDE DEF S
<1>7. 0 .. n \subseteq S
  BY <1>5, <1>6, InductionUpTo
<1>8. n \in S
  BY <1>7
<1> QED BY <1>2, <1>8 DEF S

\* A parameter, or its default, is a number.
LEMMA ParamIsNumber ==
  ASSUME ParserOK, NEW i \in {0, 1}, NEW default \in Int
  PROVE  Param(i, default) \in Int
<1>1. i \in 0 .. PARAMETER_COUNT - 1
  BY TerminalAssumption
<1>2. params[i] \in Parameters
  BY <1>1 DEF ParserOK
<1>3. params[i].value \in Int
  BY <1>2, WriterTypes DEF Parameters, ParserOK
<1> QED BY <1>3 DEF Param

\* Clearing part of the screen is one change of its cells.
LEMMA ClearShows ==
  ASSUME NEW x1, NEW y1, NEW x2, NEW y2, Shows(screen)
  PROVE  Shows(clear(x1, y1, x2, y2))
<1> DEFINE new == [p \in Positions |->
                     IF p[1] + p[2] * W \in x1 + y1 * W .. x2 + y2 * W - 1 THEN Blank ELSE screen.cells[p]]
<1>1. DOMAIN new = Positions
  OBVIOUS
<1>2. clear(x1, y1, x2, y2) = SetCells(screen, new)
  BY Zenon DEF clear
<1> HIDE DEF new
<1> QED BY <1>1, <1>2, SetCellsShows

\* Every command keeps the display true to the cells.
LEMMA CommandShows ==
  ASSUME ParserOK, Shows(screen), NEW ch, do_ansi(ch)
  PROVE  Shows(screen')
<1>1. CASE ch \in {"J", "K"}
  <2>1. screen' = Cleared(ch)
    BY <1>1 DEF do_ansi, Movements, Finals
  <2>2. \/ Cleared(ch) = screen
        \/ Cleared(ch) = clear(cursor.x, cursor.y, W - 1, H - 1)
        \/ Cleared(ch) = clear(0, 0, cursor.x, cursor.y)
        \/ Cleared(ch) = clear(0, 0, W - 1, H - 1)
        \/ Cleared(ch) = clear(cursor.x, cursor.y, W - 1, cursor.y)
        \/ Cleared(ch) = clear(0, cursor.y, cursor.x, cursor.y)
        \/ Cleared(ch) = clear(0, cursor.y, W - 1, cursor.y)
    BY DEF Cleared
  <2>3. Shows(Cleared(ch))
    BY <2>2, ClearShows
  <2> QED BY <2>1, <2>3
<1>2. CASE ch \in {"S", "T"}
  <2>1. Param(0, 1) \in Int
    BY ParamIsNumber
  <2>2. PICK k \in Int : k = IF ch = "S" THEN -Param(0, 1) ELSE Param(0, 1)
    BY <2>1
  <2>3. screen' = scroll(k)
    BY <1>2, <2>2 DEF do_ansi, Movements, Finals
  <2>4. Shows(scroll(k))
    BY ScrollShows
  <2> QED BY <2>3, <2>4
<1>3. CASE ch \notin {"J", "K", "S", "T"}
  <2>1. screen' = screen
    BY <1>3, Zenon DEF do_ansi
  <2> QED BY <2>1
<1> QED BY <1>1, <1>2, <1>3

\* So does text.
LEMMA TextShows ==
  ASSUME Shows(screen), NEW ch, append(ch)
  PROVE  Shows(screen')
<1>1. CASE screen' = set_cell(cursor.x, cursor.y, Cell(attribs, ch))
  <2> DEFINE new == [p \in Positions |->
                       IF p = <<cursor.x, cursor.y>> THEN Cell(attribs, ch) ELSE screen.cells[p]]
  <2>1. DOMAIN new = Positions
    OBVIOUS
  <2>2. screen' = SetCells(screen, new)
    BY <1>1, Zenon DEF set_cell
  <2> HIDE DEF new
  <2>3. Shows(SetCells(screen, new))
    BY <2>1, SetCellsShows
  <2> QED BY <2>2, <2>3
<1>2. CASE screen' = screen
  BY <1>2
<1>3. screen' = set_cell(cursor.x, cursor.y, Cell(attribs, ch)) \/ screen' = screen
  BY Zenon DEF append
<1> QED BY <1>1, <1>2, <1>3

\* Every step keeps the display true to the cells.
LEMMA NextShows ==
  ASSUME ParserOK, PlaceTypes, Shows(screen), [TerminalNext]_terminalVars
  PROVE  Shows(screen')
<1>0. NewY \in Int /\ H \in Nat
  BY TerminalAssumption DEF PlaceTypes, NewY
<1>1. CASE MoveStep
  <2>1. \/ screen' = screen
        \/ screen' = scroll(NewY)
        \/ screen' = scroll(NewY - (H - 1))
    BY <1>1, Zenon DEF MoveStep, MoveWrap, MoveAbove, MoveBelow, MoveLand
  <2>2. PICK k \in Int : k = NewY
    BY <1>0
  <2>3. PICK l \in Int : l = NewY - (H - 1)
    BY <1>0
  <2>4. Shows(scroll(k)) /\ Shows(scroll(l))
    BY ScrollShows
  <2> QED BY <2>1, <2>2, <2>3, <2>4
<1>2. ASSUME NEW ch, WriteCommand(ch) PROVE Shows(screen')
  BY <1>2, CommandShows DEF WriteCommand
<1>3. ASSUME NEW ch, WriteText(ch) PROVE Shows(screen')
  BY <1>3, TextShows DEF WriteText
<1>4. CASE \/ WriteEscape \/ WriteBracket \/ WriteReset \/ WriteSeparator \/ WritePastParams
           \/ \E d : WriteDigit(d)
           \/ UNCHANGED terminalVars
  <2>1. screen' = screen
    BY <1>4 DEF WriteEscape, WriteBracket, WriteReset, WriteSeparator, WritePastParams,
                WriteDigit, terminalVars
  <2> QED BY <2>1
<1> QED BY <1>1, <1>2, <1>3, <1>4 DEF TerminalNext, write_codepoint

-----------------------------------------------------------------------------
(* The cursor.                                                             *)

\* A call of move_cursor starts where the cursor is, with the whole way to go.
LEMMA MoveStarts ==
  ASSUME PlaceOK, ~moving, NEW dx \in Int, NEW dy \in Int, move_cursor(dx, dy),
         saved_cursor' = saved_cursor
  PROVE  PlaceOK'
<1>1. cursor \in Cursors /\ PlaceTypes
  BY DEF PlaceOK, PlaceTypes
<1>2. /\ moving' = TRUE /\ delta' = [x |-> dx, y |-> dy] /\ scrolled' = 0
      /\ from' = [x |-> cursor.x, y |-> cursor.y, dx |-> dx, dy |-> dy]
      /\ cursor' = cursor /\ hw_cursor' = hw_cursor /\ restored' = restored
  BY DEF move_cursor
<1>3. cursor.x \in 0 .. W /\ cursor.y \in 0 .. H
  BY <1>1 DEF Cursors
<1>4. delta' \in [x : Int, y : Int] /\ from' \in [x : 0 .. W, y : 0 .. H, dx : Int, dy : Int]
  BY <1>2, <1>3
<1>5. PlaceTypes'
  BY <1>1, <1>2, <1>4 DEF PlaceTypes
<1>6. /\ cursor'.x + delta'.x = from'.x + from'.dx
      /\ cursor'.y + delta'.y = from'.y + from'.dy
  BY <1>2
<1>7. OnTheWay'
  BY <1>2, <1>6 DEF OnTheWay, NewX, NewY
<1> QED BY <1>2, <1>5, <1>7 DEF PlaceOK

\* The numbers a call of move_cursor compares.
LEMMA MoveTypes ==
  ASSUME PlaceTypes
  PROVE  /\ W \in Nat \ {0} /\ H \in Nat \ {0}
         /\ cursor.x \in Int /\ cursor.y \in 0 .. H /\ delta.x \in Int /\ delta.y \in Int
         /\ NewX \in Int /\ NewY \in Int
         /\ from.x + from.dx \in Int /\ from.y + from.dy \in Int
         /\ TargetColumn \in 0 .. W - 1 /\ TargetRow \in Int
<1>0. W \in Nat \ {0} /\ H \in Nat \ {0}
  BY TerminalAssumption
<1>1. cursor.x \in Int /\ cursor.y \in 0 .. H /\ delta.x \in Int /\ delta.y \in Int
  BY <1>0 DEF PlaceTypes
<1>2. from.x \in Int /\ from.dx \in Int /\ from.y \in Int /\ from.dy \in Int
  BY <1>0 DEF PlaceTypes
<1>3. PICK a \in Int : a = from.x + from.dx
  BY <1>2
<1>4. a % W \in 0 .. W - 1 /\ a \div W \in Int
  BY <1>0
<1>5. TargetColumn \in 0 .. W - 1 /\ TargetRow \in Int
  BY <1>2, <1>3, <1>4 DEF TargetColumn, TargetRow
<1> QED BY <1>0, <1>1, <1>2, <1>5 DEF NewX, NewY

\* A column inside the line is the one where the call ends; the row is that of
\* the target, or the one it was brought back to.
LEMMA ColumnReached ==
  ASSUME PlaceOK, moving, NewX \in 0 .. W - 1
  PROVE  /\ NewX = TargetColumn
         /\ \/ NewY = TargetRow /\ scrolled = 0
            \/ AboutToLand
<1>0. PlaceTypes /\ (OnTheWay \/ AboutToLand)
  BY DEF PlaceOK
<1>1. CASE AboutToLand
  BY <1>1 DEF AboutToLand
<1>2. CASE OnTheWay
  <2>1. PICK a \in Int, b \in Int : a = from.x + from.dx /\ b = from.y + from.dy
    BY <1>0, MoveTypes
  <2>2. PICK x \in 0 .. W - 1 : x = NewX
    OBVIOUS
  <2>3. PICK y \in Int : y = NewY
    BY <1>0, MoveTypes
  <2>4. Tape(x, y) = Tape(a, b)
    BY <1>2, <2>1, <2>2, <2>3 DEF OnTheWay
  <2>5. x = a % W /\ y = b + (a \div W)
    BY <2>4, TapePlace
  <2> QED BY <1>2, <2>1, <2>2, <2>3, <2>5 DEF OnTheWay, TargetColumn, TargetRow
<1> QED BY <1>0, <1>1, <1>2

\* Carrying columns into rows stays at the same place of the tape.
LEMMA MoveWrapKeepsPlace ==
  ASSUME PlaceOK, MoveWrap
  PROVE  PlaceOK'
<1>0. PlaceTypes /\ moving
  BY DEF PlaceOK, MoveWrap
<1>1. /\ W \in Nat \ {0} /\ H \in Nat \ {0} /\ cursor.x \in Int /\ cursor.y \in 0 .. H /\ delta.y \in Int
      /\ NewX \in Int /\ NewY \in Int
  BY <1>0, MoveTypes
<1>2. PICK n \in Int : n = NewX
  BY <1>1
<1>3. PICK q \in Int : q = Quotient(n, W)
  BY <1>1, QuotientRemainder
<1>4. PICK r \in (1 - W) .. (W - 1) : r = Remainder(n, W)
  BY <1>1, QuotientRemainder
<1>5. n = r + W * q
  BY <1>1, <1>3, <1>4, QuotientRemainder
<1>6. /\ cursor' = [cursor EXCEPT !.x = r] /\ delta' = [x |-> 0, y |-> delta.y + q]
      /\ moving' = TRUE /\ from' = from /\ scrolled' = scrolled
      /\ hw_cursor' = hw_cursor /\ restored' = restored /\ saved_cursor' = saved_cursor
  BY <1>0, <1>2, <1>3, <1>4 DEF MoveWrap, MoveUnchanged
<1>7. cursor'.x = r /\ cursor'.y = cursor.y /\ delta'.x = 0 /\ delta'.y = delta.y + q
  BY <1>0, <1>6 DEF PlaceTypes
<1>8. PlaceTypes'
  <2>1. r \in (-W) .. W
    BY <1>1
  <2>2. cursor' \in [x : (-W) .. W, y : 0 .. H]
    BY <1>0, <1>6, <2>1 DEF PlaceTypes
  <2>3. delta' \in [x : Int, y : Int]
    BY <1>1, <1>6
  <2> QED BY <1>0, <1>6, <2>2, <2>3 DEF PlaceTypes
<1>9. ~AboutToLand
  <2>1. TargetColumn \in 0 .. W - 1
    BY <1>0, MoveTypes
  <2>2. NewX < 0 \/ NewX >= W
    BY DEF MoveWrap
  <2> QED BY <1>1, <2>1, <2>2 DEF AboutToLand
<1>10. OnTheWay
  BY <1>0, <1>9 DEF PlaceOK
<1>11. Tape(cursor'.x + delta'.x, cursor'.y + delta'.y) = Tape(NewX, NewY)
  <2>1. PICK y \in Int : y = cursor.y
    BY <1>1
  <2>2. PICK e \in Int : e = delta.y
    BY <1>1
  <2>3. W * (y + (e + q)) = W * (y + e) + W * q
    BY <1>1
  <2>4. r + W * (y + (e + q)) = n + W * (y + e)
    BY <1>1, <1>5, <2>3
  <2>5. cursor'.x + delta'.x = r /\ cursor'.y + delta'.y = y + (e + q) /\ NewY = y + e
    BY <1>7, <2>1, <2>2 DEF NewY
  <2> QED BY <1>2, <2>4, <2>5 DEF Tape
<1>12. OnTheWay'
  BY <1>6, <1>10, <1>11 DEF OnTheWay, NewX, NewY
<1> QED BY <1>6, <1>8, <1>12 DEF PlaceOK

\* A row above the screen is brought back to the first one.
LEMMA MoveAboveKeepsPlace ==
  ASSUME PlaceOK, MoveAbove
  PROVE  PlaceOK'
<1>0. PlaceTypes /\ moving /\ NewX \in 0 .. W - 1 /\ NewY < 0
  BY DEF PlaceOK, MoveAbove
<1>1. /\ H \in Nat \ {0} /\ NewY \in Int /\ cursor.x \in Int /\ delta.x \in Int
      /\ TargetRow \in Int
  BY <1>0, MoveTypes
<1>2. /\ cursor' = [cursor EXCEPT !.y = 0] /\ delta' = [delta EXCEPT !.y = 0]
      /\ moving' = TRUE /\ from' = from /\ scrolled' = scrolled
      /\ hw_cursor' = hw_cursor /\ restored' = restored /\ saved_cursor' = saved_cursor
  BY <1>0 DEF MoveAbove, MoveUnchanged
<1>3. cursor'.x = cursor.x /\ cursor'.y = 0 /\ delta'.x = delta.x /\ delta'.y = 0
  BY <1>0, <1>2 DEF PlaceTypes
<1>4. PlaceTypes'
  <2>1. 0 \in 0 .. H
    BY <1>1
  <2>2. cursor' \in [x : (-W) .. W, y : 0 .. H] /\ delta' \in [x : Int, y : Int]
    BY <1>0, <1>2, <2>1 DEF PlaceTypes
  <2> QED BY <1>0, <1>2, <2>2 DEF PlaceTypes
<1>5. NewX = TargetColumn /\ ((NewY = TargetRow /\ scrolled = 0) \/ AboutToLand)
  BY <1>0, ColumnReached
<1>6. ~AboutToLand
  <2>1. Clamp(TargetRow, H - 1) >= 0
    BY <1>1 DEF Clamp
  <2> QED BY <1>0, <1>1, <2>1 DEF AboutToLand
<1>7. TargetRow < 0 /\ scrolled = 0
  BY <1>0, <1>5, <1>6
<1>8. Clamp(TargetRow, H - 1) = 0 /\ Clamp(TargetRow - (H - 1), TargetRow + H) = 0
  BY <1>1, <1>7 DEF Clamp
<1>9. TargetColumn' = TargetColumn /\ TargetRow' = TargetRow
  BY <1>2 DEF TargetColumn, TargetRow
<1>10. NewX' = NewX /\ NewY' = 0
  BY <1>3 DEF NewX, NewY
<1>11. AboutToLand'
  BY <1>2, <1>5, <1>7, <1>8, <1>9, <1>10 DEF AboutToLand
<1> QED BY <1>2, <1>4, <1>11 DEF PlaceOK

\* A row below the screen is brought back to the last one, and the screen has
\* been scrolled by as many lines.
LEMMA MoveBelowKeepsPlace ==
  ASSUME PlaceOK, MoveBelow
  PROVE  PlaceOK'
<1>0. PlaceTypes /\ moving /\ NewX \in 0 .. W - 1 /\ NewY >= H
  BY DEF PlaceOK, MoveBelow
<1>1. /\ H \in Nat \ {0} /\ NewY \in Int /\ cursor.x \in Int /\ delta.x \in Int
      /\ TargetRow \in Int /\ scrolled \in Nat
  BY <1>0, MoveTypes DEF PlaceTypes
<1>2. /\ cursor' = [cursor EXCEPT !.y = H - 1] /\ delta' = [delta EXCEPT !.y = 0]
      /\ moving' = TRUE /\ from' = from /\ scrolled' = scrolled + NewY - (H - 1)
      /\ hw_cursor' = hw_cursor /\ restored' = restored /\ saved_cursor' = saved_cursor
  BY <1>0 DEF MoveBelow, MoveUnchanged
<1>3. cursor'.x = cursor.x /\ cursor'.y = H - 1 /\ delta'.x = delta.x /\ delta'.y = 0
  BY <1>0, <1>2 DEF PlaceTypes
<1>4. PlaceTypes'
  <2>1. H - 1 \in 0 .. H
    BY <1>1
  <2>2. cursor' \in [x : (-W) .. W, y : 0 .. H] /\ delta' \in [x : Int, y : Int]
    BY <1>0, <1>2, <2>1 DEF PlaceTypes
  <2>3. scrolled' \in Nat
    BY <1>0, <1>1, <1>2
  <2> QED BY <1>0, <1>2, <2>2, <2>3 DEF PlaceTypes
<1>5. NewX = TargetColumn /\ ((NewY = TargetRow /\ scrolled = 0) \/ AboutToLand)
  BY <1>0, ColumnReached
<1>6. ~AboutToLand
  <2>1. Clamp(TargetRow, H - 1) <= H - 1
    BY <1>1 DEF Clamp
  <2> QED BY <1>0, <1>1, <2>1 DEF AboutToLand
<1>7. NewY = TargetRow /\ scrolled = 0
  BY <1>5, <1>6
<1>8. Clamp(TargetRow, H - 1) = H - 1 /\ Clamp(TargetRow - (H - 1), TargetRow + H) = TargetRow - (H - 1)
  BY <1>0, <1>1, <1>7 DEF Clamp
<1>9. TargetColumn' = TargetColumn /\ TargetRow' = TargetRow
  BY <1>2 DEF TargetColumn, TargetRow
<1>10. NewX' = NewX /\ NewY' = H - 1
  BY <1>1, <1>3 DEF NewX, NewY
<1>11. scrolled' = TargetRow - (H - 1)
  BY <1>1, <1>2, <1>7
<1>12. AboutToLand'
  BY <1>5, <1>8, <1>9, <1>10, <1>11 DEF AboutToLand
<1> QED BY <1>2, <1>4, <1>12 DEF PlaceOK

\* The call ends at its target, and tells the display.
LEMMA MoveLandKeepsPlace ==
  ASSUME PlaceOK, MoveLand
  PROVE  /\ PlaceOK'
         /\ cursor' = [x |-> TargetColumn, y |-> Clamp(TargetRow, H - 1)]
         /\ scrolled = Clamp(TargetRow - (H - 1), TargetRow + H)
<1>0. PlaceTypes /\ moving /\ NewX \in 0 .. W - 1 /\ NewY \in 0 .. H - 1
  BY DEF PlaceOK, MoveLand
<1>1. W \in Nat \ {0} /\ H \in Nat \ {0} /\ TargetRow \in Int
  BY <1>0, MoveTypes
<1>2. /\ cursor' = [x |-> NewX, y |-> NewY] /\ hw_cursor' = hw_position(cursor')
      /\ restored' = FALSE /\ moving' = FALSE /\ delta' = [x |-> 0, y |-> 0] /\ from' = Nowhere
      /\ scrolled' = 0 /\ saved_cursor' = saved_cursor
  BY DEF MoveLand
<1>3. NewX \in 0 .. W /\ NewX \in (-W) .. W /\ NewY \in 0 .. H
  BY <1>0, <1>1
<1>4. cursor' \in Cursors /\ cursor' \in [x : (-W) .. W, y : 0 .. H]
  BY <1>2, <1>3 DEF Cursors
<1>5. hw_position(cursor') \in 0 .. PositionValues - 1
  <2>1. PICK c : c = cursor'
    OBVIOUS
  <2>2. c.x \in Int /\ c.y \in Int
    BY <1>0, <1>2, <2>1
  <2> QED BY <2>1, <2>2, PositionFits
<1>6. from' \in [x : 0 .. W, y : 0 .. H, dx : Int, dy : Int] /\ delta' \in [x : Int, y : Int]
  BY <1>1, <1>2 DEF Nowhere
<1>7. PlaceOK'
  BY <1>0, <1>2, <1>4, <1>5, <1>6 DEF PlaceOK, PlaceTypes
<1>8. NewX = TargetColumn /\ ((NewY = TargetRow /\ scrolled = 0) \/ AboutToLand)
  BY <1>0, ColumnReached
<1>9. CASE AboutToLand
  BY <1>2, <1>7, <1>8, <1>9 DEF AboutToLand
<1>10. CASE NewY = TargetRow /\ scrolled = 0
  <2>1. Clamp(TargetRow, H - 1) = TargetRow /\ Clamp(TargetRow - (H - 1), TargetRow + H) = 0
    BY <1>0, <1>1, <1>10 DEF Clamp
  <2> QED BY <1>2, <1>7, <1>8, <1>10, <2>1
<1> QED BY <1>8, <1>9, <1>10

\* set_cursor stays where Terminal.cpp may leave the cursor, and tells the display.
LEMMA SetCursorKeepsPlace ==
  ASSUME PlaceOK, ~moving, NEW x \in Int, NEW y \in Int, set_cursor(x, y),
         saved_cursor' = saved_cursor
  PROVE  PlaceOK'
<1>0. W \in Nat \ {0} /\ H \in Nat \ {0} /\ PlaceTypes
  BY TerminalAssumption DEF PlaceOK
<1>1. /\ cursor' = [x |-> Clamp(x, W), y |-> Clamp(y, H)] /\ hw_cursor' = hw_position(cursor')
      /\ restored' = FALSE /\ moving' = moving /\ delta' = delta /\ from' = from
      /\ scrolled' = scrolled
  BY DEF set_cursor, moveVars
<1>2. Clamp(x, W) \in 0 .. W /\ Clamp(x, W) \in (-W) .. W /\ Clamp(y, H) \in 0 .. H
  BY <1>0 DEF Clamp
<1>3. cursor' \in Cursors /\ cursor' \in [x : (-W) .. W, y : 0 .. H]
  BY <1>1, <1>2 DEF Cursors
<1>4. hw_position(cursor') \in 0 .. PositionValues - 1
  <2>1. PICK c : c = cursor'
    OBVIOUS
  <2>2. c.x \in Int /\ c.y \in Int
    BY <1>0, <1>1, <1>2, <2>1
  <2> QED BY <2>1, <2>2, PositionFits
<1> QED BY <1>0, <1>1, <1>3, <1>4 DEF PlaceOK, PlaceTypes

\* What a codepoint that does not move the cursor leaves alone.
LEMMA KeepPlaceKeepsPlace ==
  ASSUME PlaceOK, ~moving, UNCHANGED <<cursor, hw_cursor, restored, moveVars>>,
         saved_cursor' \in Cursors
  PROVE  PlaceOK'
BY DEF PlaceOK, PlaceTypes, moveVars

\* Every way of writing text starts a call of move_cursor.
LEMMA TextKeepsPlace ==
  ASSUME PlaceOK, ~moving, NEW ch, append(ch), saved_cursor' = saved_cursor
  PROVE  PlaceOK'
<1>1. PICK x \in Int : x = cursor.x
  BY MoveTypes DEF PlaceOK
<1>2. PICK mx \in Int : mx = -x
  OBVIOUS
<1>3. PICK tab \in Int : tab = 8 - (x % 8)
  OBVIOUS
<1>4. \/ move_cursor(mx, 1) \/ move_cursor(mx, 0) \/ move_cursor(tab, 0)
      \/ move_cursor(-1, 0) \/ move_cursor(1, 0)
  BY <1>1, <1>2, <1>3, Zenon DEF append
<1>5. -1 \in Int /\ 0 \in Int /\ 1 \in Int
  OBVIOUS
<1> QED BY <1>4, <1>5, MoveStarts

\* Every movement is one by some numbers.
LEMMA MovementIsNumbers ==
  ASSUME ParserOK, PlaceTypes, NEW ch \in Movements
  PROVE  Movement(ch)[1] \in Int /\ Movement(ch)[2] \in Int
<1>1. cursor.x \in Int /\ cursor.y \in Int
  BY MoveTypes
<1>2. Param(0, 1) \in Int /\ Param(0, 0) \in Int
  BY ParamIsNumber
<1>3. params[0].value \in Int
  <2>1. 0 \in 0 .. PARAMETER_COUNT - 1
    BY TerminalAssumption
  <2> QED BY <2>1, WriterTypes DEF ParserOK, Parameters
<1>4. CASE ch = "A"
  <2>1. Movement(ch) = <<0, -Param(0, 1)>>
    BY <1>4 DEF Movement
  <2> QED BY <1>2, <2>1
<1>5. CASE ch = "B"
  <2>1. Movement(ch) = <<0, Param(0, 1)>>
    BY <1>5 DEF Movement
  <2> QED BY <1>2, <2>1
<1>6. CASE ch = "C"
  <2>1. Movement(ch) = <<Param(0, 1), 0>>
    BY <1>6 DEF Movement
  <2> QED BY <1>2, <2>1
<1>7. CASE ch = "D"
  <2>1. Movement(ch) = <<-Param(0, 1), 0>>
    BY <1>7 DEF Movement
  <2> QED BY <1>2, <2>1
<1>8. CASE ch = "E"
  <2>1. Movement(ch) = <<-cursor.x, 1>> \/ Movement(ch) = <<-cursor.x + 1, params[0].value>>
    BY <1>8 DEF Movement
  <2> QED BY <1>1, <1>3, <2>1
<1>9. CASE ch = "F"
  <2>1. Movement(ch) = <<-cursor.x, -Param(0, 1)>>
    BY <1>9 DEF Movement
  <2> QED BY <1>1, <1>2, <2>1
<1>10. CASE ch = "G"
  <2>1. Movement(ch) = <<Param(0, 0), cursor.y>>
    BY <1>10 DEF Movement
  <2> QED BY <1>1, <1>2, <2>1
<1> QED BY <1>4, <1>5, <1>6, <1>7, <1>8, <1>9, <1>10 DEF Movements

\* Every command keeps the cursor where it may be.
LEMMA CommandKeepsPlace ==
  ASSUME ParserOK, PlaceOK, ~moving, NEW ch, do_ansi(ch)
  PROVE  PlaceOK'
<1>0. PlaceTypes /\ cursor \in Cursors /\ saved_cursor \in Cursors
  BY DEF PlaceOK, PlaceTypes
<1>1. CASE ch \in Movements
  <2>1. move_cursor(Movement(ch)[1], Movement(ch)[2]) /\ saved_cursor' = saved_cursor
    BY <1>1 DEF do_ansi, Movements, Finals
  <2>2. PICK dx \in Int, dy \in Int : dx = Movement(ch)[1] /\ dy = Movement(ch)[2]
    BY <1>0, <1>1, MovementIsNumbers
  <2>3. move_cursor(dx, dy)
    BY <2>1, <2>2
  <2> QED BY <2>1, <2>3, MoveStarts
<1>2. CASE ch \in {"f", "H"}
  <2>1. set_cursor(Param(1, 1) - 1, Param(0, 1) - 1) /\ saved_cursor' = saved_cursor
    BY <1>2 DEF do_ansi, Movements, Finals
  <2>2. PICK x \in Int, y \in Int : x = Param(1, 1) - 1 /\ y = Param(0, 1) - 1
    BY ParamIsNumber
  <2>3. set_cursor(x, y)
    BY <2>1, <2>2
  <2> QED BY <2>1, <2>3, SetCursorKeepsPlace
<1>3. CASE ch \in {"J", "K", "S", "T", "m"}
  <2>1. KeepPlace /\ saved_cursor' = saved_cursor
    BY <1>3 DEF do_ansi, Movements, Finals
  <2> QED BY <1>0, <2>1, KeepPlaceKeepsPlace DEF KeepPlace
<1>4. CASE ch = "s"
  <2>1. KeepPlace /\ saved_cursor' = cursor
    BY <1>4 DEF do_ansi, Movements, Finals
  <2> QED BY <1>0, <2>1, KeepPlaceKeepsPlace DEF KeepPlace
<1>5. CASE ch = "u"
  <2>1. /\ cursor' = saved_cursor /\ saved_cursor' = saved_cursor
        /\ hw_cursor' = hw_cursor /\ restored' = TRUE /\ UNCHANGED moveVars
    BY <1>5 DEF do_ansi, Movements, Finals
  <2>2. Cursors \subseteq [x : (-W) .. W, y : 0 .. H]
    <3>1. 0 .. W \subseteq (-W) .. W
      BY TerminalAssumption
    <3> QED BY <3>1 DEF Cursors
  <2> QED BY <1>0, <2>1, <2>2 DEF PlaceOK, PlaceTypes, moveVars
<1>6. CASE ch \notin Finals
  <2>1. KeepPlace /\ saved_cursor' = saved_cursor
    BY <1>6 DEF do_ansi, Movements, Finals
  <2> QED BY <1>0, <2>1, KeepPlaceKeepsPlace DEF KeepPlace
<1> QED BY <1>1, <1>2, <1>3, <1>4, <1>5, <1>6, Zenon DEF do_ansi

\* Every step keeps the cursor, the display's cursor and the call under way.
LEMMA NextKeepsPlace ==
  ASSUME ParserOK, PlaceOK, [TerminalNext]_terminalVars
  PROVE  PlaceOK'
<1>1. CASE MoveStep
  BY <1>1, MoveWrapKeepsPlace, MoveAboveKeepsPlace, MoveBelowKeepsPlace, MoveLandKeepsPlace
     DEF MoveStep
<1>2. CASE write_codepoint
  <2>0. ~moving /\ saved_cursor \in Cursors
    BY <1>2 DEF write_codepoint, PlaceOK, PlaceTypes
  <2>1. ASSUME NEW ch, WriteCommand(ch) PROVE PlaceOK'
    BY <2>0, <2>1, CommandKeepsPlace DEF WriteCommand
  <2>2. ASSUME NEW ch, WriteText(ch) PROVE PlaceOK'
    <3>1. append(ch) /\ saved_cursor' = saved_cursor
      BY <2>2 DEF WriteText
    <3> QED BY <2>0, <3>1, TextKeepsPlace
  <2>3. CASE \/ WriteEscape \/ WriteBracket \/ WriteReset \/ WriteSeparator \/ WritePastParams
             \/ \E d : WriteDigit(d)
    <3>1. KeepPlace /\ saved_cursor' = saved_cursor
      BY <2>3 DEF WriteEscape, WriteBracket, WriteReset, WriteSeparator, WritePastParams, WriteDigit
    <3> QED BY <2>0, <3>1, KeepPlaceKeepsPlace DEF KeepPlace
  <2> QED BY <1>2, <2>1, <2>2, <2>3 DEF write_codepoint
<1>3. CASE UNCHANGED terminalVars
  <2>1. /\ UNCHANGED <<cursor, saved_cursor, hw_cursor, restored, moving, delta, from, scrolled>>
    BY <1>3 DEF terminalVars, moveVars
  <2> QED BY <2>1 DEF PlaceOK, PlaceTypes, OnTheWay, AboutToLand, NewX, NewY, TargetColumn, TargetRow
<1> QED BY <1>1, <1>2, <1>3 DEF TerminalNext

-----------------------------------------------------------------------------
(* The theorems.                                                           *)

\* The constructors leave the terminal in order: the display was painted with
\* other colours than the cells were built with, which Shows excepts.
LEMMA InitTerminalInv ==
  ASSUME TerminalInit
  PROVE  TerminalInv
<1>0. W \in Nat \ {0} /\ H \in Nat \ {0} /\ PARAMETER_COUNT \in Nat
  BY TerminalAssumption
<1>1. ParserOK
  <2>1. writer \in Writers /\ params = [i \in 0 .. PARAMETER_COUNT - 1 |-> NoParam]
        /\ params_top = 0 /\ attribs = DefaultAttributes /\ state = "WAIT_FOR_ESC" /\ corrupt = FALSE
    BY DEF TerminalInit
  <2>2. NoParam \in Parameters /\ MaxSeparators \in Nat
    BY <2>1, FreshParameters, WriterTypes
  <2>3. DefaultAttributes \in AttributeType
    BY DEF DefaultAttributes, AttributeType, Colors
  <2>4. params \in [0 .. PARAMETER_COUNT - 1 -> Parameters] /\ params_top \in 0 .. MaxSeparators
    BY <2>1, <2>2
  <2> QED BY <2>1, <2>3, <2>4 DEF ParserOK
<1>2. Shows(screen)
  <2>1. screen = [cells |-> [p \in Positions |-> BootCell],
                  vga   |-> [p \in Positions |-> Shown(Cell(DefaultAttributes, " "))]]
    BY DEF TerminalInit
  <2>2. screen.cells = [p \in Positions |-> BootCell]
    BY <2>1
  <2>3. screen.vga = [p \in Positions |-> Shown(Cell(DefaultAttributes, " "))]
    BY <2>1
  <2> QED BY <2>2, <2>3 DEF Shows
<1>3. PlaceOK
  <2>1. /\ cursor = [x |-> 0, y |-> 0] /\ saved_cursor = [x |-> 0, y |-> 0] /\ hw_cursor = 0
        /\ moving = FALSE /\ delta = [x |-> 0, y |-> 0] /\ from = Nowhere /\ scrolled = 0
        /\ restored = FALSE
    BY DEF TerminalInit
  <2>2. cursor \in [x : (-W) .. W, y : 0 .. H] /\ cursor \in Cursors /\ saved_cursor \in Cursors
    BY <1>0, <2>1 DEF Cursors
  <2>3. delta \in [x : Int, y : Int] /\ from \in [x : 0 .. W, y : 0 .. H, dx : Int, dy : Int]
    BY <1>0, <2>1 DEF Nowhere
  <2>4. hw_cursor \in 0 .. PositionValues - 1
    BY <2>1 DEF PositionValues
  <2>5. hw_position(cursor) = 0
    <3>1. cursor.y * W + cursor.x = 0
      BY <1>0, <2>1
    <3>2. PositionValues \in Nat \ {0}
      BY DEF PositionValues
    <3>3. 0 = PositionValues * 0 + 0 /\ 0 \in 0 .. PositionValues - 1
      BY <3>2
    <3>4. 0 % PositionValues = 0
      BY <3>2, <3>3, RemainderIsUnique
    <3> QED BY <3>1, <3>4 DEF hw_position
  <2> QED BY <2>1, <2>2, <2>3, <2>4, <2>5 DEF PlaceOK, PlaceTypes
<1> QED BY <1>1, <1>2, <1>3 DEF TerminalInv

\* Every step of the terminal keeps the inductive invariant.
LEMMA NextKeepsTerminalInv ==
  ASSUME TerminalInv, [TerminalNext]_terminalVars
  PROVE  TerminalInv'
<1>1. ParserOK /\ Shows(screen) /\ PlaceOK
  BY DEF TerminalInv
<1>2. ParserOK' /\ PlaceOK'
  BY <1>1, NextKeepsParser, NextKeepsPlace
<1>3. Shows(screen')
  BY <1>1, NextShows DEF PlaceOK
<1>4. (Shows(screen))'
  BY <1>3 DEF Shows
<1> QED BY <1>2, <1>4 DEF TerminalInv

\* The terminal and its display stay in order, whatever is written: the parser of
\* escape sequences, the cells the display shows, the cursor and the place a call
\* of move_cursor has reached (Terminal.cpp, CGATerminal.cpp).
THEOREM TerminalSafety == TerminalSpec => []TerminalInv
<1>1. TerminalInit => TerminalInv
  BY InitTerminalInv
<1>2. TerminalInv /\ [TerminalNext]_terminalVars => TerminalInv'
  BY NextKeepsTerminalInv
<1> QED BY <1>1, <1>2, PTL DEF TerminalSpec

\* The display shows what the array of cells holds, though it hears only of the
\* cells that change, through any printing, clearing and scrolling.
THEOREM DisplayStaysTrue == TerminalSpec => []DisplayShowsCells
<1>1. TerminalInv => DisplayShowsCells
  BY DEF TerminalInv, Shows, DisplayShowsCells
<1> QED BY <1>1, TerminalSafety, PTL

\* The cursor stays where Terminal.cpp may leave it, no parameter is left over
\* from an earlier sequence, and the display's cursor is the terminal's between
\* calls, unless the terminal's was just restored.
THEOREM DisplayFollowsCursor == TerminalSpec => []DisplayCursorFollows
<1>1. TerminalInv => DisplayCursorFollows
  <2> SUFFICES ASSUME TerminalInv PROVE DisplayCursorFollows
    OBVIOUS
  <2>1. TerminalTypeOK
    BY DEF TerminalInv, ParserOK, Shows, PlaceOK, PlaceTypes, TerminalTypeOK, Parameters, AttributeType
  <2> QED BY <2>1 DEF TerminalInv, PlaceOK, DisplayCursorFollows
<1> QED BY <1>1, TerminalSafety, PTL

\* move_cursor ends at its target, having scrolled exactly the lines the target
\* lies below the screen, however the carries in its recursion fall.
THEOREM CallsLandOnTarget == TerminalSpec => MovesLandOnTarget
<1>1. TerminalInv /\ [TerminalNext]_terminalVars
        => [moving /\ ~moving' =>
              /\ cursor' = [x |-> TargetColumn, y |-> Clamp(TargetRow, H - 1)]
              /\ scrolled = Clamp(TargetRow - (H - 1), TargetRow + H)]_terminalVars
  <2> SUFFICES ASSUME TerminalInv, TerminalNext, moving, ~moving'
               PROVE  /\ cursor' = [x |-> TargetColumn, y |-> Clamp(TargetRow, H - 1)]
                      /\ scrolled = Clamp(TargetRow - (H - 1), TargetRow + H)
    OBVIOUS
  <2>1. MoveLand
    BY DEF TerminalNext, write_codepoint, MoveStep, MoveWrap, MoveAbove, MoveBelow
  <2> QED BY <2>1, MoveLandKeepsPlace DEF TerminalInv
<1> QED BY <1>1, TerminalSafety, PTL DEF TerminalSpec, MovesLandOnTarget

-----------------------------------------------------------------------------
(* Texts: sequences, of whatever elements.                                 *)

IsText(s) == \E T : s \in Seq(T)

\* A text and another one behind it are a text, which starts with the first.
LEMMA TextsJoin ==
  ASSUME NEW s, NEW t, IsText(s), IsText(t)
  PROVE  /\ IsText(s \o t) /\ Len(s) \in Nat /\ Len(t) \in Nat
         /\ Len(s \o t) = Len(s) + Len(t)
         /\ \A k \in 1 .. Len(s) : (s \o t)[k] = s[k]
<1>1. PICK S : s \in Seq(S)
  BY DEF IsText
<1>2. PICK T : t \in Seq(T)
  BY DEF IsText
<1>3. PICK U : U = S \cup T
  OBVIOUS
<1>4. s \in Seq(U) /\ t \in Seq(U)
  <2>1. S \subseteq U /\ T \subseteq U
    BY <1>3
  <2> QED BY <1>1, <1>2, <2>1, SeqMonotonic
<1>5. PICK st : st = s \o t
  OBVIOUS
<1>6. /\ st \in Seq(U) /\ Len(st) = Len(s) + Len(t)
      /\ \A k \in 1 .. Len(s) + Len(t) : st[k] = IF k <= Len(s) THEN s[k] ELSE t[k - Len(s)]
  BY <1>4, <1>5, ConcatProperties
<1>7. Len(s) \in Nat /\ Len(t) \in Nat
  BY <1>4, LenProperties
<1>8. \A k \in 1 .. Len(s) : st[k] = s[k]
  BY <1>6, <1>7
<1> QED BY <1>5, <1>6, <1>7, <1>8 DEF IsText

\* The front of a text is one, as long as it is asked to be and can be.
LEMMA PrefixOfText ==
  ASSUME NEW s, IsText(s), NEW n \in Int
  PROVE  /\ IsText(Prefix(s, n)) /\ Len(Prefix(s, n)) \in Nat
         /\ n <= 0 => Len(Prefix(s, n)) = 0
         /\ n >= 0 => Len(Prefix(s, n)) <= n
<1>1. PICK S : s \in Seq(S)
  BY DEF IsText
<1>2. PICK l \in Nat : l = Len(s)
  BY <1>1, LenProperties
<1>3. PICK m \in Int : m = IF n < l THEN n ELSE l
  BY <1>2
<1>4. \A k \in 1 .. m : s[k] \in S
  BY <1>1, <1>2, <1>3, ElementOfSeq
<1>5. PICK p : p = SubSeq(s, 1, m)
  OBVIOUS
<1>6. p \in Seq(S) /\ Len(p) = IF 1 <= m THEN m - 1 + 1 ELSE 0
  BY <1>4, <1>5, SubSeqProperties
<1>7. Prefix(s, n) = p
  BY <1>2, <1>3, <1>5 DEF Prefix
<1>8. Len(p) \in Nat /\ (n <= 0 => Len(p) = 0) /\ (n >= 0 => Len(p) <= n)
  BY <1>2, <1>3, <1>6
<1> QED BY <1>6, <1>7, <1>8 DEF IsText

\* Nothing has no other front.
LEMMA EmptyPrefix ==
  ASSUME NEW s, IsText(s), Len(s) = 0, NEW n \in Int
  PROVE  Len(Prefix(s, n)) = 0
<1>1. PICK S : s \in Seq(S)
  BY DEF IsText
<1>2. PICK m \in Int : m = (IF n < 0 THEN n ELSE 0) /\ m <= 0
  OBVIOUS
<1>3. \A k \in 1 .. m : s[k] \in S
  BY <1>2
<1>4. Len(SubSeq(s, 1, m)) = IF 1 <= m THEN m - 1 + 1 ELSE 0
  BY <1>3, SubSeqProperties
<1>5. Prefix(s, n) = SubSeq(s, 1, m)
  BY <1>2 DEF Prefix
<1> QED BY <1>2, <1>4, <1>5

\* A character repeated is a text.
LEMMA RepeatedIsText ==
  ASSUME NEW c, NEW n \in Nat
  PROVE  IsText([k \in 1 .. n |-> c])
<1>1. [k \in 1 .. n |-> c] \in Seq({c})
  BY IsASeq
<1> QED BY <1>1 DEF IsText

\* So is a text turned round.
LEMMA ReverseOfText ==
  ASSUME NEW s, IsText(s)
  PROVE  IsText(Reverse(s))
<1>1. PICK S : s \in Seq(S)
  BY DEF IsText
<1>2. PICK l \in Nat : l = Len(s)
  BY <1>1, LenProperties
<1>3. \A k \in 1 .. l : s[(l - k) + 1] \in S
  <2>1. ASSUME NEW k \in 1 .. l PROVE s[(l - k) + 1] \in S
    <3>0. (l - k) + 1 \in 1 .. l
      OBVIOUS
    <3>1. PICK j \in 1 .. Len(s) : j = (l - k) + 1
      BY <1>2, <3>0
    <3>2. s[j] \in S
      BY <1>1, <3>1, ElementOfSeq
    <3> QED BY <3>1, <3>2
  <2> QED BY <2>1
<1>4. [k \in 1 .. l |-> s[(l - k) + 1]] \in Seq(S)
  BY <1>3
<1> QED BY <1>2, <1>4 DEF IsText, Reverse

-----------------------------------------------------------------------------
(* The numbers: what they are printed as is a text.                        *)

Bases == {2, 8, 10, 16}

\* SIZE_MAX is a word, and not 0.
LEMMA Words == SIZE_MAX \in Nat \ {0} /\ Modulus = SIZE_MAX + 1
  BY PrintfAssumption DEF SIZE_MAX

\* Every digit has its character.
LEMMA DigitsAreListed ==
  ASSUME NEW base \in Bases, NEW v \in Nat
  PROVE  v % base \in 0 .. 15
  BY DEF Bases

\* The quotient of a word is a word, and smaller but for 0.
LEMMA QuotientIsLess ==
  ASSUME NEW base \in Bases, NEW v \in Nat
  PROVE  v \div base \in 0 .. v /\ (v # 0 => v \div base <= v - 1)
  BY DEF Bases

\* The digits of a word, in every base.
LEMMA UnsignedIsText ==
  ASSUME NEW value \in 0 .. SIZE_MAX, NEW base \in Bases
  PROVE  IsText(format_uint(value, base))
<1> DEFINE D == {Digits[n + 1] : n \in 0 .. 15}
           V == Seq(D)
           N == SIZE_MAX + 1
           digit(v) == <<Digits[(v % base) + 1]>>
           up == [j \in 1 .. N |-> ((j - 1) \div base) + 1]
           G == [p \in (1 .. N) \X V |->
                   digit(p[1] - 1) \o (IF (p[1] - 1) \div base = 0 THEN <<>> ELSE p[2])]
           Is(f) == f = [v \in 0 .. SIZE_MAX |->
                           digit(v) \o (IF v \div base = 0 THEN <<>> ELSE f[v \div base])]
<1>1. N \in Nat \ {0} /\ SIZE_MAX \in Nat
  BY Words
<1>2. ASSUME NEW v \in Nat PROVE digit(v) \in V
  <2>1. v % base \in 0 .. 15
    BY DigitsAreListed
  <2>2. Digits[(v % base) + 1] \in D
    BY <2>1
  <2> HIDE DEF D
  <2> QED BY <2>2
<1> HIDE DEF D
<1>3. IsUp(up, N)
  <2>1. ASSUME NEW j \in 2 .. N PROVE up[j] \in 1 .. j - 1
    <3>1. PICK v \in Nat : v = j - 1 /\ v # 0
      OBVIOUS
    <3>2. v \div base \in 0 .. v /\ v \div base <= v - 1
      BY <3>1, QuotientIsLess
    <3>3. up[j] = (v \div base) + 1
      BY <3>1, <1>1
    <3> HIDE DEF up, N
    <3> QED BY <3>1, <3>2, <3>3
  <2> HIDE DEF up
  <2> QED BY <2>1 DEF IsUp
<1>4. G \in StepFunctions(N, V)
  <2>1. \A p \in (1 .. N) \X V : G[p] \in V
    <3>1. ASSUME NEW p \in (1 .. N) \X V PROVE G[p] \in V
      <4>1. PICK j \in 1 .. N, w \in V : p = <<j, w>>
        OBVIOUS
      <4>2. PICK v \in Nat : v = j - 1
        BY <1>1
      <4>3. PICK t : t = IF v \div base = 0 THEN <<>> ELSE w
        OBVIOUS
      <4>4. t \in V
        BY <4>3
      <4>5. G[p] = digit(v) \o t
        BY <4>1, <4>2, <4>3
      <4>6. digit(v) \in V
        BY <1>2
      <4>7. digit(v) \o t \in V
        <5> HIDE DEF digit
        <5> QED BY <4>4, <4>6, ConcatProperties
      <4> QED BY <4>5, <4>7
    <3> QED BY <3>1
  <2>2. G = [p \in (1 .. N) \X V |-> G[p]]
    OBVIOUS
  <2> HIDE DEF G, N, V
  <2> QED BY <2>1, <2>2 DEF StepFunctions
<1>5. digit(0) \in V
  BY <1>2
<1>6. PICK h : RecursiveUp(h, N, V, digit(0), up, G)
  <2> HIDE DEF N, V, digit, up, G
  <2> QED BY <1>1, <1>3, <1>4, <1>5, RecursionOnParents
<1>7. /\ h \in [1 .. N -> V] /\ h[1] = digit(0)
      /\ \A j \in 2 .. N : h[j] = G[<<j, h[up[j]]>>]
  <2> HIDE DEF N, V, digit, up, G
  <2> QED BY <1>6 DEF RecursiveUp
<1> DEFINE g == [v \in 0 .. SIZE_MAX |-> h[v + 1]]
<1>8. \A v \in 0 .. SIZE_MAX : g[v] \in V /\ g[v] = h[v + 1]
  <2> HIDE DEF V
  <2> QED BY <1>1, <1>7
<1>9. ASSUME NEW v \in 0 .. SIZE_MAX
      PROVE  g[v] = digit(v) \o (IF v \div base = 0 THEN <<>> ELSE g[v \div base])
  <2>1. CASE v = 0
    <3>1. v \div base = 0
      BY <2>1, QuotientIsLess
    <3>2. g[v] = digit(0)
      <4> HIDE DEF digit, g, N
      <4> QED BY <1>7, <1>8, <2>1
    <3>3. digit(0) \o <<>> = digit(0)
      BY <1>5, ConcatEmptySeq
    <3> QED BY <2>1, <3>1, <3>2, <3>3
  <2>2. CASE v # 0
    <3>1. PICK j \in 2 .. N : j = v + 1
      BY <1>1, <2>2
    <3>2. PICK q \in 0 .. SIZE_MAX : q = v \div base
      BY <1>1, QuotientIsLess
    <3>3. up[j] = q + 1 /\ j - 1 = v /\ j \in 1 .. N
      BY <1>1, <3>1, <3>2
    <3>4. PICK w \in V : w = h[q + 1] /\ w = g[q]
      <4> HIDE DEF g, V
      <4> QED BY <1>8
    <3>5. G[<<j, w>>] = digit(v) \o (IF q = 0 THEN <<>> ELSE w)
      <4>1. <<j, w>> \in (1 .. N) \X V
        <5> HIDE DEF N, V
        <5> QED BY <3>3
      <4> HIDE DEF N, V, digit
      <4> QED BY <3>2, <3>3, <4>1
    <3>6. g[v] = G[<<j, w>>]
      <4> HIDE DEF g, V, N, G, up, digit
      <4> QED BY <1>7, <1>8, <3>1, <3>3, <3>4
    <3> HIDE DEF g, V, N, G, up, digit
    <3> QED BY <3>2, <3>4, <3>5, <3>6
  <2> QED BY <2>1, <2>2
<1>10. Is(g)
  <2>1. g = [v \in 0 .. SIZE_MAX |-> g[v]]
    OBVIOUS
  <2> HIDE DEF g, digit
  <2> QED BY <1>9, <2>1
<1>11. PICK f : f = (CHOOSE e : Is(e)) /\ Is(f)
  <2> HIDE DEF Is
  <2> QED BY <1>10
<1>12. ASSUME NEW v \in 0 .. SIZE_MAX
       PROVE  f[v] = digit(v) \o (IF v \div base = 0 THEN <<>> ELSE f[v \div base])
  <2> HIDE DEF digit
  <2> QED BY <1>11
<1> DEFINE S == {n \in 0 .. SIZE_MAX : \A v \in 0 .. n : f[v] \in V}
<1>13. \A n \in 0 .. SIZE_MAX : (\A q \in 0 .. SIZE_MAX : q < n => f[q] \in V) => f[n] \in V
  <2>1. ASSUME NEW n \in 0 .. SIZE_MAX, \A q \in 0 .. SIZE_MAX : q < n => f[q] \in V
        PROVE  f[n] \in V
    <3>1. PICK q \in Nat : q = n \div base /\ q <= n /\ (n # 0 => q <= n - 1) /\ q \in 0 .. n
      BY QuotientIsLess
    <3>2. PICK t : t = IF q = 0 THEN <<>> ELSE f[q]
      OBVIOUS
    <3>3. t \in V
      <4>1. CASE q = 0
        BY <3>2, <4>1
      <4>2. CASE q # 0
        <5>1. q \in 0 .. SIZE_MAX /\ q < n
          BY <1>1, <3>1, <4>2
        <5> HIDE DEF V
        <5> QED BY <2>1, <3>2, <4>2, <5>1
      <4> QED BY <4>1, <4>2
    <3>4. f[n] = digit(n) \o t
      <4> HIDE DEF digit
      <4> QED BY <1>12, <3>1, <3>2
    <3>5. digit(n) \in V
      BY <1>2
    <3>6. digit(n) \o t \in V
      <4> HIDE DEF digit
      <4> QED BY <3>3, <3>5, ConcatProperties
    <3> HIDE DEF digit, V
    <3> QED BY <3>4, <3>6
  <2> HIDE DEF V
  <2> QED BY <2>1
<1>14. 0 .. SIZE_MAX \subseteq S
  <2>1. 0 \in S
    <3>1. f[0] \in V
      <4> HIDE DEF V
      <4> QED BY <1>1, <1>13
    <3> HIDE DEF V
    <3> QED BY <1>1, <3>1
  <2>2. \A n \in 1 .. SIZE_MAX : n - 1 \in S => n \in S
    <3>1. ASSUME NEW n \in 1 .. SIZE_MAX, n - 1 \in S PROVE n \in S
      <4>1. \A q \in 0 .. n - 1 : f[q] \in V
        <5> HIDE DEF V
        <5> QED BY <3>1
      <4>2. f[n] \in V
        <5> HIDE DEF V
        <5> QED BY <1>1, <1>13, <4>1
      <4> HIDE DEF V
      <4> QED BY <1>1, <4>1, <4>2
    <3> QED BY <3>1
  <2> HIDE DEF S
  <2> QED BY <1>1, <2>1, <2>2, InductionUpTo
<1>15. f[value] \in V
  <2> HIDE DEF V
  <2> QED BY <1>1, <1>14
<1>16. format_uint(value, base) = Reverse(f[value])
  <2> HIDE DEF V
  <2> QED BY <1>11 DEF format_uint, strrvs
<1>17. IsText(f[value])
  BY <1>15 DEF IsText
<1> QED BY <1>16, <1>17, ReverseOfText

\* The opposite of a word is a word.
LEMMA SignedIsText ==
  ASSUME NEW word \in 0 .. SIZE_MAX, NEW base \in Bases
  PROVE  IsText(format_int(word, base))
<1>1. PICK v \in 0 .. SIZE_MAX : v = (Modulus - word) % Modulus
  <2>1. PICK M \in Nat \ {0} : M = Modulus
    BY Words
  <2>2. PICK x \in Int : x = M - word
    BY Words, <2>1
  <2>3. x % M \in 0 .. M - 1
    OBVIOUS
  <2> QED BY Words, <2>1, <2>2, <2>3
<1>2. IsText(format_uint(v, base)) /\ IsText(format_uint(word, base))
  BY UnsignedIsText
<1>3. IsText(<<"-">>)
  <2>1. <<"-">> \in Seq({"-"})
    OBVIOUS
  <2> QED BY <2>1 DEF IsText
<1>4. IsText(<<"-">> \o format_uint(v, base))
  BY <1>2, <1>3, TextsJoin
<1> QED BY <1>1, <1>2, <1>4 DEF format_int

-----------------------------------------------------------------------------
(* The buffer.                                                             *)

Fields == {"format", "c", "state", "format_offset", "padding", "align", "length",
           "prefix", "output", "written", "allocated"}

\* A printf_info_t, whose length is a size_t.
IsInfo(i) == i = [f \in Fields |-> i[f]] /\ i.length \in Nat

\* A call writes no further than its buffer.
IsBounded == call.allocated # SIZE_MAX /\ ~WritesIntoNothing

\* What is written and what is counted, in every moment of the call.
BufferFits(i) ==
  /\ IsText(i.output)
  /\ Len(call.held) <= Len(i.output)
  /\ \A k \in 1 .. Len(call.held) : i.output[k] = call.held[k]
  /\ i.allocated = call.allocated
  /\ i.written \in 0 .. call.allocated
  /\ IsBounded => Len(i.output) <= Room

\* The rest of the state machine is where it was.
SameReader(i, j) ==
  \A f \in Fields \ {"output", "written"} : j[f] = i[f]

CallFits ==
  /\ call = [format |-> call.format, held |-> call.held, allocated |-> call.allocated]
  /\ call.format \in Formats
  /\ call.held \in Seq(STRING)
  /\ call.allocated \in 0 .. SIZE_MAX

\* What is added to the output leaves what is there in front, and the part
\* that is let through by the bound fits.
LEMMA AppendFits ==
  ASSUME CallFits, NEW i, IsInfo(i), BufferFits(i), NEW s, IsText(s),
         IsBounded /\ call.allocated = 0 => Len(s) = 0
  PROVE  /\ IsInfo(buf_append(i, s)) /\ BufferFits(buf_append(i, s))
         /\ SameReader(i, buf_append(i, s))
         /\ buf_append(i, s).written = i.written
<1>1. PICK n \in Nat : n = call.allocated /\ n <= SIZE_MAX
  BY Words DEF CallFits
<1>2. PICK o : o = i.output
  OBVIOUS
<1>3. IsText(o) /\ Len(o) \in Nat
  BY <1>2, TextsJoin DEF BufferFits
<1>4. PICK room \in Int : room = ((n - 1) % Modulus) - Len(o)
  BY <1>1, <1>3, Words
<1>5. n # 0 => (n - 1) % Modulus = n - 1
  <2>1. ASSUME n # 0 PROVE (n - 1) % Modulus = n - 1
    <3>1. PICK r \in 0 .. Modulus - 1 : r = n - 1
      BY <1>1, <2>1, Words
    <3>2. Modulus \in Nat \ {0} /\ r = Modulus * 0 + r
      BY Words
    <3>3. r % Modulus = r
      BY <3>2, RemainderIsUnique
    <3> QED BY <3>1, <3>3
  <2> QED BY <2>1
<1>6. PICK t : t = IF n = SIZE_MAX THEN s ELSE Prefix(s, room)
  OBVIOUS
<1>7. /\ IsText(t) /\ Len(t) \in Nat
      /\ IsBounded => Len(o) + Len(t) <= Room
  <2>1. CASE n = SIZE_MAX
    BY <1>1, <1>6, <2>1, TextsJoin DEF IsBounded
  <2>2. CASE n # SIZE_MAX
    <3>1. t = Prefix(s, room)
      BY <1>6, <2>2
    <3>2. /\ IsText(t) /\ Len(t) \in Nat /\ (room <= 0 => Len(t) = 0) /\ (room >= 0 => Len(t) <= room)
      BY <3>1, PrefixOfText
    <3>3. ASSUME IsBounded PROVE Len(o) + Len(t) <= Room
      <4>1. Len(o) <= Room
        BY <1>2, <3>3 DEF BufferFits
      <4>2. CASE n = 0
        <5>1. Len(s) = 0
          BY <1>1, <3>3, <4>2
        <5>2. Len(t) = 0
          BY <3>1, <5>1, EmptyPrefix
        <5> QED BY <1>3, <4>1, <5>2
      <4>3. CASE n # 0
        <5>1. Room = n - 1 /\ room = (n - 1) - Len(o)
          BY <1>1, <1>4, <1>5, <4>3 DEF Room
        <5> QED BY <1>3, <3>2, <4>1, <5>1
      <4> QED BY <4>2, <4>3
    <3> QED BY <3>2, <3>3
  <2> QED BY <2>1, <2>2
<1>8. PICK ot : ot = o \o t
  OBVIOUS
<1>9. /\ IsText(ot) /\ Len(ot) = Len(o) + Len(t)
      /\ \A k \in 1 .. Len(o) : ot[k] = o[k]
  BY <1>3, <1>7, <1>8, TextsJoin
<1>10. PICK j : j = buf_append(i, s)
  OBVIOUS
<1>11. j = [i EXCEPT !.output = ot]
  <2>1. i.allocated = n
    BY <1>1 DEF BufferFits
  <2>2. ot = IF n = SIZE_MAX THEN o \o s ELSE o \o Prefix(s, room)
    BY <1>6, <1>8
  <2> QED BY <1>2, <1>4, <1>10, <2>1, <2>2 DEF buf_append, strapd, strnapd
<1>12. IsInfo(j) /\ SameReader(i, j) /\ j.output = ot /\ j.written = i.written /\ j.allocated = i.allocated
  BY <1>11 DEF IsInfo, SameReader, Fields
<1>13. BufferFits(j)
  <2>1. Len(call.held) <= Len(ot) /\ \A k \in 1 .. Len(call.held) : ot[k] = call.held[k]
    <3>1. PICK h \in Nat : h = Len(call.held)
      BY LenProperties DEF CallFits
    <3>2. h <= Len(o) /\ \A k \in 1 .. h : o[k] = call.held[k]
      BY <1>2, <3>1 DEF BufferFits
    <3>3. \A k \in 1 .. h : k \in 1 .. Len(o)
      BY <1>3, <3>2
    <3>4. h <= Len(ot)
      BY <1>3, <1>7, <1>9, <3>2
    <3> QED BY <1>9, <3>1, <3>2, <3>3, <3>4
  <2>2. i.allocated = call.allocated /\ i.written \in 0 .. call.allocated
    BY DEF BufferFits
  <2> QED BY <1>7, <1>9, <1>12, <2>1, <2>2 DEF BufferFits
<1> QED BY <1>10, <1>12, <1>13

\* So does what PRINTF_APPEND adds, which counts it too.
LEMMA PrintfAppendFits ==
  ASSUME CallFits, NEW i, IsInfo(i), BufferFits(i), NEW s, IsText(s)
  PROVE  /\ IsInfo(PRINTF_APPEND(i, s)) /\ BufferFits(PRINTF_APPEND(i, s))
         /\ SameReader(i, PRINTF_APPEND(i, s))
<1>1. PICK n \in Nat : n = call.allocated /\ i.allocated = n
  BY Words DEF CallFits, BufferFits
<1>2. PICK w \in 0 .. n : w = i.written
  BY <1>1 DEF BufferFits
<1>3. PICK passed : passed = Prefix(s, n - w)
  OBVIOUS
<1>4. n - w \in Int /\ n - w >= 0
  BY <1>2
<1>5. IsText(passed) /\ Len(passed) \in Nat /\ Len(passed) <= n - w
  BY <1>3, <1>4, PrefixOfText
<1>6. n = 0 => Len(passed) = 0
  BY <1>2, <1>5
<1>7. PICK a : a = buf_append(i, passed)
  OBVIOUS
<1>8. IsInfo(a) /\ BufferFits(a) /\ SameReader(i, a) /\ a.written = w
  BY <1>1, <1>2, <1>5, <1>6, <1>7, AppendFits
<1>9. PICK j : j = PRINTF_APPEND(i, s)
  OBVIOUS
<1>10. j = [a EXCEPT !.written = w + Len(passed)]
  BY <1>1, <1>2, <1>3, <1>7, <1>8, <1>9 DEF PRINTF_APPEND
<1>11. IsInfo(j) /\ SameReader(i, j) /\ j.output = a.output /\ j.written = w + Len(passed) /\ j.allocated = a.allocated
  BY <1>8, <1>10 DEF IsInfo, SameReader, Fields
<1>12. w + Len(passed) \in 0 .. n
  BY <1>2, <1>5
<1>13. BufferFits(j)
  BY <1>1, <1>8, <1>11, <1>12 DEF BufferFits
<1> QED BY <1>9, <1>11, <1>13

\* Being the same machine but for the output is passed on.
LEMMA SameReaders ==
  ASSUME NEW i, NEW j, NEW k, SameReader(i, j), SameReader(j, k)
  PROVE  SameReader(i, k)
  BY DEF SameReader

\* The padding is added by PRINTF_APPEND.
LEMMA PaddingFits ==
  ASSUME CallFits, NEW i, IsInfo(i), BufferFits(i), NEW s, IsText(s), NEW align
  PROVE  /\ IsInfo(PRINTF_PADDING(i, s, align)) /\ BufferFits(PRINTF_PADDING(i, s, align))
         /\ SameReader(i, PRINTF_PADDING(i, s, align))
<1>1. PICK l \in Nat : l = Len(s)
  BY TextsJoin
<1>2. PICK n \in Nat : n = i.length
  BY DEF IsInfo
<1>3. CASE i.align = align /\ l < n
  <2>1. PICK m \in Nat : m = n - l
    BY <1>3
  <2>2. PICK t : t = [k \in 1 .. m |-> i.padding]
    OBVIOUS
  <2>3. IsText(t)
    BY <2>2, RepeatedIsText
  <2>4. PRINTF_PADDING(i, s, align) = PRINTF_APPEND(i, t)
    BY <1>1, <1>2, <1>3, <2>1, <2>2 DEF PRINTF_PADDING
  <2> QED BY <2>3, <2>4, PrintfAppendFits
<1>4. CASE ~(i.align = align /\ l < n)
  <2>1. PRINTF_PADDING(i, s, align) = i
    BY <1>1, <1>2, <1>4 DEF PRINTF_PADDING
  <2> QED BY <2>1 DEF SameReader
<1> QED BY <1>3, <1>4

\* The end of every formatter.
LEMMA PaddedFits ==
  ASSUME CallFits, NEW i, IsInfo(i), BufferFits(i), NEW s, IsText(s)
  PROVE  /\ IsInfo(Padded(i, s)) /\ BufferFits(Padded(i, s)) /\ SameReader(i, Padded(i, s))
<1>1. PICK a : a = PRINTF_PADDING(i, s, "right")
  OBVIOUS
<1>2. IsInfo(a) /\ BufferFits(a) /\ SameReader(i, a)
  BY <1>1, PaddingFits
<1>3. PICK b : b = PRINTF_APPEND(a, s)
  OBVIOUS
<1>4. IsInfo(b) /\ BufferFits(b) /\ SameReader(a, b)
  BY <1>2, <1>3, PrintfAppendFits
<1>5. PICK c : c = PRINTF_PADDING(b, s, "left")
  OBVIOUS
<1>6. IsInfo(c) /\ BufferFits(c) /\ SameReader(b, c)
  BY <1>4, <1>5, PaddingFits
<1>7. SameReader(i, c)
  BY <1>2, <1>4, <1>6, SameReaders
<1> QED BY <1>1, <1>3, <1>5, <1>6, <1>7 DEF Padded

\* The short texts of printf.
LEMMA ShortTexts ==
  /\ \A c, d : IsText(<<c, d>>) /\ IsText(<<c>>)
  /\ IsText(NullText)
<1>1. \A c, d : <<c, d>> \in Seq({c, d}) /\ <<c>> \in Seq({c})
  OBVIOUS
<1>2. NullText \in Seq({"(", "n", "u", "l", ")"})
  BY DEF NullText
<1> QED BY <1>1, <1>2 DEF IsText

\* Hexadecimal numbers, with and without their prefix.
LEMMA HexadecimalFits ==
  ASSUME CallFits, NEW i, IsInfo(i), BufferFits(i), NEW word \in 0 .. SIZE_MAX
  PROVE  /\ IsInfo(Hexadecimal(i, word)) /\ BufferFits(Hexadecimal(i, word))
         /\ SameReader(i, Hexadecimal(i, word))
<1>1. PICK number : number = format_uint(word, 16)
  OBVIOUS
<1>2. IsText(number)
  BY <1>1, UnsignedIsText DEF Bases
<1>3. PICK zero : zero = <<"0", "x">>
  OBVIOUS
<1>4. IsText(zero)
  BY <1>3, ShortTexts
<1>5. PICK buffer : buffer = zero \o number
  OBVIOUS
<1>6. IsText(buffer)
  BY <1>2, <1>4, <1>5, TextsJoin
<1>7. PICK a : a = PRINTF_APPEND(i, zero)
  OBVIOUS
<1>8. IsInfo(a) /\ BufferFits(a) /\ SameReader(i, a)
  BY <1>4, <1>7, PrintfAppendFits
<1>9. PICK b : b = PRINTF_PADDING(a, buffer, "right")
  OBVIOUS
<1>10. IsInfo(b) /\ BufferFits(b) /\ SameReader(a, b)
  BY <1>6, <1>8, <1>9, PaddingFits
<1>11. PICK c : c = PRINTF_APPEND(b, number)
  OBVIOUS
<1>12. IsInfo(c) /\ BufferFits(c) /\ SameReader(b, c)
  BY <1>2, <1>10, <1>11, PrintfAppendFits
<1>13. SameReader(i, c)
  BY <1>8, <1>10, <1>12, SameReaders
<1>14. Hexadecimal(i, word) \in {Padded(i, number), Padded(i, buffer), c}
  BY <1>1, <1>3, <1>5, <1>7, <1>9, <1>11 DEF Hexadecimal
<1>15. /\ IsInfo(Padded(i, number)) /\ BufferFits(Padded(i, number)) /\ SameReader(i, Padded(i, number))
       /\ IsInfo(Padded(i, buffer)) /\ BufferFits(Padded(i, buffer)) /\ SameReader(i, Padded(i, buffer))
  BY <1>2, <1>6, PaddedFits
<1> QED BY <1>12, <1>13, <1>14, <1>15

\* Every formatter, of whatever argument.
LEMMA FormattedFits ==
  ASSUME CallFits, NEW i, IsInfo(i), BufferFits(i), NEW arg \in ArgumentType, i.c \in Known
  PROVE  /\ IsInfo(Formatted(i, arg)) /\ BufferFits(Formatted(i, arg))
         /\ SameReader(i, Formatted(i, arg))
<1>1. PICK word \in 0 .. SIZE_MAX : word = arg.word
  BY DEF ArgumentType
<1>2. i.c \in {"b", "o", "d", "i", "u", "x", "X", "s"}
  BY DEF Known, BaseOf
<1>3. CASE i.c \in {"x", "X"}
  <2>1. Formatted(i, arg) = Hexadecimal(i, word)
    BY <1>1, <1>3 DEF Formatted
  <2> QED BY <2>1, HexadecimalFits
<1>4. ASSUME i.c \notin {"x", "X"}
      PROVE  \E t : IsText(t) /\ Formatted(i, arg) = Padded(i, t)
  <2>1. CASE i.c \in {"d", "i"}
    <3>1. Formatted(i, arg) = Padded(i, format_int(word, 10))
      BY <1>1, <2>1 DEF Formatted
    <3>2. IsText(format_int(word, 10))
      BY SignedIsText DEF Bases
    <3> QED BY <3>1, <3>2
  <2>2. CASE i.c \in {"b", "o", "u"}
    <3>1. PICK base \in Bases : base = BaseOf[i.c]
      BY <2>2 DEF Bases, BaseOf
    <3>2. Formatted(i, arg) = Padded(i, format_uint(word, base))
      BY <1>1, <2>2, <3>1 DEF Formatted
    <3>3. IsText(format_uint(word, base))
      BY UnsignedIsText
    <3> QED BY <3>2, <3>3
  <2>3. CASE i.c = "s"
    <3>1. PICK t : t = IF arg.text = Null THEN NullText ELSE arg.text
      OBVIOUS
    <3>2. IsText(t)
      <4>1. arg.text # Null => arg.text \in Seq(STRING)
        BY DEF ArgumentType, Texts
      <4> QED BY <3>1, <4>1, ShortTexts DEF IsText
    <3>3. Formatted(i, arg) = Padded(i, t)
      BY <2>3, <3>1 DEF Formatted
    <3> QED BY <3>2, <3>3
  <2> QED BY <1>2, <1>4, <2>1, <2>2, <2>3
<1>5. CASE i.c \notin {"x", "X"}
  <2>1. PICK t : IsText(t) /\ Formatted(i, arg) = Padded(i, t)
    BY <1>4, <1>5
  <2> QED BY <2>1, PaddedFits
<1> QED BY <1>3, <1>5

\* And the letters that have none, unless the call has no room at all.
LEMMA PrintfFormatFits ==
  ASSUME CallFits, NEW i, IsInfo(i), BufferFits(i), NEW arg \in ArgumentType,
         i.c \notin Known /\ call.allocated = 0 => WritesIntoNothing
  PROVE  /\ IsInfo(PrintfFormat(i, arg)) /\ BufferFits(PrintfFormat(i, arg))
         /\ SameReader(i, PrintfFormat(i, arg))
<1>1. CASE i.c \in Known
  BY <1>1, FormattedFits DEF PrintfFormat
<1>2. CASE i.c \notin Known
  <2>1. PICK s : s = <<"%", i.c>>
    OBVIOUS
  <2>2. IsText(s)
    BY <2>1, ShortTexts
  <2>3. ~(IsBounded /\ call.allocated = 0)
    BY <1>2 DEF IsBounded
  <2>4. PrintfFormat(i, arg) = buf_append(i, s)
    BY <1>2, <2>1 DEF PrintfFormat
  <2> QED BY <2>2, <2>3, <2>4, AppendFits
<1> QED BY <1>1, <1>2

\* What is not about the buffer changes nothing of it.
LEMMA BufferStays ==
  ASSUME NEW i, BufferFits(i), NEW j,
         j.output = i.output, j.written = i.written, j.allocated = i.allocated
  PROVE  BufferFits(j)
  BY DEF BufferFits

-----------------------------------------------------------------------------
(* The reader of the format.                                               *)

Cases == {"ESC", "PARSE", "FORMAT_LENGTH"}

\* A format is read from its start, a character at a time.
ReadingFits(s, r) ==
  /\ r[0].state = "ESC" /\ r[0].ended = 0
  /\ \A k \in 0 .. Len(s) : r[k].state \in Cases /\ r[k].ended \in Nat
  /\ \A k \in 1 .. Len(s) :
       /\ r[k].state = CaseAfter(r[k - 1].state, s[k])
       /\ r[k].ended = r[k - 1].ended + (IF Ends(r[k - 1].state, s[k]) THEN 1 ELSE 0)

\* The recursive definition of the reading is one.
LEMMA ReadingIs ==
  ASSUME NEW s \in Seq(STRING)
  PROVE  ReadingFits(s, Reading(s))
<1> DEFINE V == [state : Cases, ended : Nat]
           first == [state |-> "ESC", ended |-> 0]
           next(p, c) == [state |-> CaseAfter(p.state, c),
                          ended |-> p.ended + (IF Ends(p.state, c) THEN 1 ELSE 0)]
           N == Len(s)
           G == [q \in (1 .. N) \X V |-> next(q[2], s[q[1]])]
           Is(f) == f = [k \in 0 .. N |-> IF k = 0 THEN first ELSE next(f[k - 1], s[k])]
<1>1. N \in Nat
  BY LenProperties
<1>2. first \in V
  BY DEF Cases
<1>3. ASSUME NEW p \in V, NEW c PROVE next(p, c) \in V
  <2>1. CaseAfter(p.state, c) \in Cases
    BY DEF CaseAfter, Cases
  <2>2. p.ended + (IF Ends(p.state, c) THEN 1 ELSE 0) \in Nat
    OBVIOUS
  <2> QED BY <2>1, <2>2
<1>4. G \in StepFunctions(N, V)
  <2>1. \A q \in (1 .. N) \X V : G[q] \in V
    <3>1. ASSUME NEW q \in (1 .. N) \X V PROVE G[q] \in V
      <4>1. q[2] \in V /\ G[q] = next(q[2], s[q[1]])
        <5> HIDE DEF V, next, N
        <5> QED OBVIOUS
      <4> HIDE DEF V, next, G
      <4> QED BY <1>3, <4>1
    <3> QED BY <3>1
  <2>2. G = [q \in (1 .. N) \X V |-> G[q]]
    OBVIOUS
  <2> HIDE DEF G, N, V
  <2> QED BY <2>1, <2>2 DEF StepFunctions
<1>5. PICK h : Recursive(h, N, V, first, G)
  <2> HIDE DEF N, V, first, G
  <2> QED BY <1>1, <1>2, <1>4, RecursionUpTo
<1>6. h \in [0 .. N -> V] /\ h[0] = first /\ \A k \in 1 .. N : h[k] = G[<<k, h[k - 1]>>]
  <2> HIDE DEF N, V, first, G
  <2> QED BY <1>5 DEF Recursive
<1>7. ASSUME NEW k \in 0 .. N PROVE h[k] = IF k = 0 THEN first ELSE next(h[k - 1], s[k])
  <2>1. CASE k = 0
    BY <1>6, <2>1
  <2>2. CASE k # 0
    <3>1. k \in 1 .. N /\ k - 1 \in 0 .. N
      BY <1>1, <2>2
    <3>2. PICK p \in V : p = h[k - 1]
      <4> HIDE DEF V, N
      <4> QED BY <1>6, <3>1
    <3>3. <<k, p>> \in (1 .. N) \X V
      BY <3>1
    <3>4. G[<<k, p>>] = next(p, s[k])
      <4> HIDE DEF V, N, next
      <4> QED BY <3>3
    <3> HIDE DEF V, N, next, G, first
    <3> QED BY <1>6, <2>2, <3>1, <3>2, <3>4
  <2> QED BY <2>1, <2>2
<1>8. Is(h)
  <2>1. h = [k \in 0 .. N |-> h[k]]
    <3> HIDE DEF V, N
    <3> QED BY <1>6
  <2> HIDE DEF N, first, next
  <2> QED BY <1>7, <2>1
<1>9. PICK r : r = Reading(s) /\ Is(r)
  <2>1. Reading(s) = CHOOSE f : Is(f)
    BY DEF Reading
  <2> HIDE DEF Is
  <2> QED BY <1>8, <2>1
<1>10. r[0] = first /\ \A k \in 1 .. N : r[k] = next(r[k - 1], s[k])
  <2>1. \A k \in 0 .. N : r[k] = IF k = 0 THEN first ELSE next(r[k - 1], s[k])
    <3> HIDE DEF first, next, N
    <3> QED BY <1>9
  <2> HIDE DEF first, next, N
  <2> QED BY <1>1, <2>1
<1>11. \A k \in 0 .. N : r[k] \in V
  <2> DEFINE S == {k \in 0 .. N : r[k] \in V}
  <2>1. 0 \in S
    <3> HIDE DEF V, first
    <3> QED BY <1>1, <1>2, <1>10
  <2>2. \A k \in 1 .. N : k - 1 \in S => k \in S
    <3>1. ASSUME NEW k \in 1 .. N, k - 1 \in S PROVE k \in S
      <4>1. r[k - 1] \in V
        <5> HIDE DEF V
        <5> QED BY <3>1
      <4>2. r[k] \in V
        <5> HIDE DEF V, next, N
        <5> QED BY <1>3, <1>10, <4>1
      <4> HIDE DEF V
      <4> QED BY <1>1, <4>2
    <3> QED BY <3>1
  <2> HIDE DEF S, N
  <2>3. 0 .. N \subseteq S
    BY <1>1, <2>1, <2>2, InductionUpTo
  <2> QED BY <2>3 DEF S
<1>12. ReadingFits(s, r)
  <2>1. \A k \in 0 .. N : r[k].state \in Cases /\ r[k].ended \in Nat
    BY <1>11
  <2>2. r[0].state = "ESC" /\ r[0].ended = 0
    BY <1>10
  <2>3. \A k \in 1 .. N :
          /\ r[k].state = CaseAfter(r[k - 1].state, s[k])
          /\ r[k].ended = r[k - 1].ended + (IF Ends(r[k - 1].state, s[k]) THEN 1 ELSE 0)
    <3>1. ASSUME NEW k \in 1 .. N
          PROVE  /\ r[k].state = CaseAfter(r[k - 1].state, s[k])
                 /\ r[k].ended = r[k - 1].ended + (IF Ends(r[k - 1].state, s[k]) THEN 1 ELSE 0)
      <4>1. PICK p : p = r[k - 1]
        OBVIOUS
      <4>2. r[k] = next(p, s[k])
        <5> HIDE DEF next, N
        <5> QED BY <1>10, <4>1
      <4> QED BY <4>1, <4>2
    <3> QED BY <3>1
  <2> QED BY <2>1, <2>2, <2>3 DEF ReadingFits
<1> QED BY <1>9, <1>12

\* The arguments that are not yet read, behind the n read for the conversions
\* that have ended.
ArgumentsLeft(args, n) ==
  args \in Seq(ArgumentType) /\ Len(args) + n = Len(Arguments(call.format))

\* The machine has read its last character to the end.
Behind(i, args) ==
  LET s == Chars(call.format)
      k == i.format_offset
  IN  /\ i.format = s /\ k \in 0 .. Len(s)
      /\ i.state = Reading(s)[k].state
      /\ ArgumentsLeft(args, Reading(s)[k].ended)

\* The machine is at a character, in a case of the switch in which it is
\* read as in the case it was met in.
ReadAs(here, before, c) ==
  IF here = "FINALIZE" THEN Ends(before, c)
  ELSE /\ here \in Cases
       /\ CaseAfter(here, c) = CaseAfter(before, c)
       /\ Ends(here, c) = Ends(before, c)

IsReading(i, args) ==
  LET s == Chars(call.format)
      k == i.format_offset
  IN  /\ i.format = s /\ k \in 1 .. Len(s) /\ i.c = s[k]
      /\ ReadAs(i.state, Reading(s)[k - 1].state, i.c)
      /\ ArgumentsLeft(args, Reading(s)[k - 1].ended)

\* The machine and what is returned, at every moment behind the entry.
Continues(i, args, r) ==
  /\ IsInfo(i) /\ BufferFits(i)
  /\ r = Running => i.state # "ENTRY" /\ IsReading(i, args)

\* What PRINTF_PEEK makes.
Peeked(i, j, r) ==
  LET next == [i EXCEPT !.format_offset = @ + 1]
  IN  IF i.format_offset < Len(i.format)
      THEN j = [next EXCEPT !.c = i.format[i.format_offset + 1]] /\ r = Running
      ELSE j = [next EXCEPT !.c = Nul] /\ r = i.written

\* A format that is not null has characters and arguments to be read.
FormatGiven == CallFits /\ call.format # Null

\* It is the reading of its characters that tells what is read.
LEMMA FormatFits ==
  ASSUME FormatGiven
  PROVE  LET s == Chars(call.format)
         IN  /\ s \in Seq(STRING) /\ Len(s) \in Nat /\ ReadingFits(s, Reading(s))
             /\ Arguments(call.format) \in Seq(ArgumentType)
             /\ PassesArguments(call.format)
<1>1. PICK f \in Formats \ {Null} : f = call.format
  BY DEF FormatGiven, CallFits
<1>2. /\ Chars(f) \in Seq(STRING) /\ Arguments(f) \in Seq(ArgumentType)
      /\ PassesArguments(f)
  BY FormatsAssumption DEF Texts
<1>3. ReadingFits(Chars(f), Reading(Chars(f))) /\ Len(Chars(f)) \in Nat
  BY <1>2, ReadingIs, LenProperties
<1> QED BY <1>1, <1>2, <1>3

\* A peek reads the next character in the case the last one was left in, or
\* returns behind the last one.
LEMMA PeekContinues ==
  ASSUME FormatGiven, NEW i, NEW args, IsInfo(i), BufferFits(i), Behind(i, args),
         NEW j, NEW r, Peeked(i, j, r)
  PROVE  Continues(j, args, r)
<1>1. PICK s : s = Chars(call.format)
  OBVIOUS
<1>2. /\ s \in Seq(STRING) /\ Len(s) \in Nat
      /\ ReadingFits(s, Reading(s))
  BY <1>1, FormatFits
<1>3. PICK n \in Nat : n = Len(s)
  BY <1>2
<1>4. PICK k \in 0 .. n : k = i.format_offset
  BY <1>1, <1>3 DEF Behind
<1>5. PICK p : p = Reading(s)[k]
  OBVIOUS
<1>6. p.state \in Cases
  BY <1>2, <1>3, <1>5 DEF ReadingFits
<1>7. i.format = s /\ i.state = p.state /\ ArgumentsLeft(args, p.ended)
  BY <1>1, <1>4, <1>5 DEF Behind
<1>8. CASE k < n
  <2>1. PICK c : c = s[k + 1]
    OBVIOUS
  <2>2. j = [[i EXCEPT !.format_offset = k + 1] EXCEPT !.c = c]
    BY <1>3, <1>4, <1>7, <1>8, <2>1 DEF Peeked
  <2>3. /\ IsInfo(j) /\ j.c = c /\ j.format_offset = k + 1 /\ j.format = s /\ j.state = p.state
        /\ j.output = i.output /\ j.written = i.written /\ j.allocated = i.allocated
    BY <1>7, <2>2 DEF IsInfo, Fields
  <2>4. BufferFits(j)
    BY <2>3, BufferStays
  <2>5. PICK m \in 1 .. n : m = k + 1 /\ m - 1 = k
    BY <1>8
  <2>6. ReadAs(j.state, Reading(s)[m - 1].state, j.c)
    BY <1>5, <1>6, <2>3, <2>5 DEF ReadAs, Cases
  <2>7. ArgumentsLeft(args, Reading(s)[m - 1].ended)
    BY <1>5, <1>7, <2>5
  <2>8. IsReading(j, args)
    BY <1>1, <1>3, <2>1, <2>3, <2>5, <2>6, <2>7 DEF IsReading
  <2>9. j.state # "ENTRY"
    BY <1>6, <2>3 DEF Cases
  <2> QED BY <2>3, <2>4, <2>8, <2>9 DEF Continues
<1>9. CASE ~(k < n)
  <2>1. j = [[i EXCEPT !.format_offset = k + 1] EXCEPT !.c = Nul] /\ r = i.written
    BY <1>3, <1>4, <1>7, <1>9 DEF Peeked
  <2>2. IsInfo(j) /\ j.output = i.output /\ j.written = i.written /\ j.allocated = i.allocated
    BY <2>1 DEF IsInfo, Fields
  <2>3. BufferFits(j)
    BY <2>2, BufferStays
  <2>4. i.written \in Nat
    BY Words DEF BufferFits, FormatGiven, CallFits
  <2>5. r # Running
    BY <2>1, <2>4, PrintfAssumption
  <2> QED BY <2>2, <2>3, <2>5 DEF Continues
<1> QED BY <1>8, <1>9

\* A character that ends no conversion is behind when its case is entered.
LEMMA ReadsOn ==
  ASSUME FormatGiven, NEW i, NEW args, IsReading(i, args), i.state # "FINALIZE",
         NEW j, j.format = i.format, j.format_offset = i.format_offset,
         j.state = CaseAfter(i.state, i.c), ~Ends(i.state, i.c)
  PROVE  Behind(j, args)
<1>1. PICK s : s = Chars(call.format)
  OBVIOUS
<1>2. /\ s \in Seq(STRING) /\ Len(s) \in Nat
      /\ ReadingFits(s, Reading(s))
  BY <1>1, FormatFits
<1>3. PICK n \in Nat : n = Len(s)
  BY <1>2
<1>4. PICK k \in 1 .. n : k = i.format_offset
  BY <1>1, <1>3 DEF IsReading
<1>5. PICK p : p = Reading(s)[k - 1]
  OBVIOUS
<1>6. p.ended \in Nat
  BY <1>2, <1>3, <1>5 DEF ReadingFits
<1>7. /\ i.format = s /\ i.c = s[k] /\ ReadAs(i.state, p.state, i.c)
      /\ ArgumentsLeft(args, p.ended)
  BY <1>1, <1>4, <1>5 DEF IsReading
<1>8. j.state = CaseAfter(p.state, s[k]) /\ ~Ends(p.state, s[k])
  BY <1>7 DEF ReadAs
<1>9. Reading(s)[k].state = CaseAfter(p.state, s[k]) /\ Reading(s)[k].ended = p.ended
  BY <1>2, <1>3, <1>5, <1>6, <1>8 DEF ReadingFits
<1>10. k \in 0 .. n
  OBVIOUS
<1> QED BY <1>1, <1>3, <1>4, <1>7, <1>8, <1>9, <1>10 DEF Behind

\* A conversion that ends has an argument, which is read; a letter without a
\* formatter is one of the call's conversions.
LEMMA ReadsArgument ==
  ASSUME FormatGiven, NEW i, NEW args, IsReading(i, args), i.state = "FINALIZE"
  PROVE  /\ Head(args) \in ArgumentType
         /\ i.c \notin Known /\ call.allocated = 0 => WritesIntoNothing
         /\ \A j : j.format = i.format /\ j.format_offset = i.format_offset /\ j.state = "ESC"
                  => Behind(j, Tail(args))
<1>1. PICK s : s = Chars(call.format)
  OBVIOUS
<1>2. /\ s \in Seq(STRING) /\ Len(s) \in Nat
      /\ ReadingFits(s, Reading(s)) /\ PassesArguments(call.format)
      /\ Arguments(call.format) \in Seq(ArgumentType)
  BY <1>1, FormatFits
<1>3. PICK n \in Nat : n = Len(s)
  BY <1>2
<1>4. PICK k \in 1 .. n : k = i.format_offset
  BY <1>1, <1>3 DEF IsReading
<1>5. PICK p : p = Reading(s)[k - 1]
  OBVIOUS
<1>6. p.ended \in Nat /\ p.state \in Cases
  BY <1>2, <1>3, <1>5 DEF ReadingFits
<1>7. /\ i.format = s /\ i.c = s[k] /\ Ends(p.state, s[k])
      /\ ArgumentsLeft(args, p.ended)
  BY <1>1, <1>4, <1>5 DEF IsReading, ReadAs
<1>8. CaseAfter(p.state, s[k]) = "ESC"
  <2>1. s[k] \in Letters /\ s[k] # "%" /\ ~isdigit(s[k]) /\ p.state # "ESC"
    BY <1>7, PrintfAssumption DEF Ends, isalpha
  <2> QED BY <1>6, <2>1 DEF CaseAfter, isalpha, Cases
<1>9. Reading(s)[k].state = "ESC" /\ Reading(s)[k].ended = p.ended + 1
  BY <1>2, <1>3, <1>5, <1>7, <1>8 DEF ReadingFits
<1>10. PICK l \in Nat : l = Len(Arguments(call.format))
  BY <1>2, LenProperties
<1>11. /\ p.ended + 1 \in 1 .. l
       /\ \E d \in DOMAIN call.format :
            TakesArgument(call.format[d]) /\ call.format[d].conv = s[k]
  BY <1>1, <1>2, <1>3, <1>5, <1>7, <1>9, <1>10 DEF PassesArguments
<1>12. PICK m \in Nat : m = Len(args) /\ m + p.ended = l
  BY <1>7, <1>10, LenProperties DEF ArgumentsLeft
<1>13. args \in Seq(ArgumentType) /\ args # <<>>
  <2>1. args \in Seq(ArgumentType) /\ m # 0
    BY <1>6, <1>7, <1>11, <1>12 DEF ArgumentsLeft
  <2> QED BY <1>12, <2>1, EmptySeq
<1>14. /\ Head(args) \in ArgumentType /\ Tail(args) \in Seq(ArgumentType)
       /\ Len(Tail(args)) = m - 1
  BY <1>12, <1>13, HeadTailProperties
<1>15. ArgumentsLeft(Tail(args), p.ended + 1)
  BY <1>6, <1>10, <1>12, <1>14 DEF ArgumentsLeft
<1>16. ASSUME i.c \notin Known, call.allocated = 0 PROVE WritesIntoNothing
  <2>1. PICK d \in DOMAIN call.format : TakesArgument(call.format[d]) /\ call.format[d].conv = s[k]
    BY <1>11
  <2>2. ~Counts(call.format[d])
    BY <1>7, <1>16, <2>1 DEF Counts, TakesArgument
  <2> QED BY <1>16, <2>2 DEF WritesIntoNothing, FormatGiven
<1>17. ASSUME NEW j, j.format = i.format, j.format_offset = i.format_offset, j.state = "ESC"
       PROVE  Behind(j, Tail(args))
  <2>1. k \in 0 .. n
    OBVIOUS
  <2> QED BY <1>1, <1>3, <1>4, <1>7, <1>9, <1>15, <1>17, <2>1 DEF Behind
<1> QED BY <1>14, <1>16, <1>17

\* What a PRINTF_APPEND and a PRINTF_PEEK make.
AppendedAndPeeked(i, j, r) ==
  IF Full(i) THEN j = i /\ r = i.written ELSE Peeked(PRINTF_APPEND(i, <<i.c>>), j, r)

\* Either of them may end the call.
LEMMA AppendContinues ==
  ASSUME FormatGiven, NEW i, NEW args, IsInfo(i), BufferFits(i), Behind(i, args),
         NEW j, NEW r, AppendedAndPeeked(i, j, r)
  PROVE  Continues(j, args, r)
<1>1. CASE Full(i)
  <2>1. j = i /\ r = i.written
    BY <1>1 DEF AppendedAndPeeked
  <2>2. i.written \in Nat
    BY Words DEF BufferFits, FormatGiven, CallFits
  <2>3. r # Running
    BY <2>1, <2>2, PrintfAssumption
  <2> QED BY <2>1, <2>3 DEF Continues
<1>2. CASE ~Full(i)
  <2>1. PICK a : a = PRINTF_APPEND(i, <<i.c>>)
    OBVIOUS
  <2>2. IsText(<<i.c>>)
    BY ShortTexts
  <2>3. IsInfo(a) /\ BufferFits(a) /\ SameReader(i, a)
    BY <2>1, <2>2, PrintfAppendFits DEF FormatGiven
  <2>4. a.format = i.format /\ a.format_offset = i.format_offset /\ a.state = i.state
    BY <2>3 DEF SameReader, Fields
  <2>5. Behind(a, args)
    BY <2>4 DEF Behind
  <2>6. Peeked(a, j, r)
    BY <1>2, <2>1 DEF AppendedAndPeeked
  <2> QED BY <2>3, <2>5, <2>6, PeekContinues
<1> QED BY <1>1, <1>2

\* A machine that is reset has its format and its buffer still.
LEMMA FreshFits ==
  ASSUME NEW i, IsInfo(i), BufferFits(i)
  PROVE  /\ IsInfo(Fresh(i)) /\ BufferFits(Fresh(i))
         /\ Fresh(i).format = i.format /\ Fresh(i).format_offset = i.format_offset
         /\ Fresh(i).state = "ESC"
<1>1. PICK j : j = Fresh(i)
  OBVIOUS
<1>2. /\ IsInfo(j) /\ j.format = i.format /\ j.format_offset = i.format_offset /\ j.state = "ESC"
      /\ j.output = i.output /\ j.written = i.written /\ j.allocated = i.allocated
  BY <1>1 DEF Fresh, IsInfo, Fields
<1>3. BufferFits(j)
  BY <1>2, BufferStays
<1> QED BY <1>1, <1>2, <1>3

\* A change of how a conversion is printed, and of the case: what follows is
\* read on.
Rereads(i, j) ==
  \A f \in {"format", "c", "format_offset", "output", "written", "allocated"} : j[f] = i[f]

\* It has the buffer it had.
LEMMA RereadFits ==
  ASSUME NEW i, BufferFits(i), NEW j, Rereads(i, j)
  PROVE  /\ BufferFits(j)
         /\ j.format = i.format /\ j.format_offset = i.format_offset /\ j.c = i.c
<1>1. /\ j.output = i.output /\ j.written = i.written /\ j.allocated = i.allocated
      /\ j.format = i.format /\ j.format_offset = i.format_offset /\ j.c = i.c
  BY DEF Rereads
<1> QED BY <1>1, BufferStays

-----------------------------------------------------------------------------
(* The inductive invariant and its theorem.                                *)

\* The call is at its entry: nothing is read.
Entering ==
  /\ IsInfo(info) /\ BufferFits(info) /\ info.state = "ENTRY" /\ info.format_offset = 0
  /\ info.format # Null =>
       /\ call.format # Null /\ info.format = Chars(call.format)
       /\ va = Arguments(call.format)

PrintfInv ==
  /\ CallFits
  /\ \/ Entering
     \/ Continues(info, va, result) /\ (result = Running => call.format # Null)

\* A call starts at its entry, with what it holds.
LEMMA PrintfStarts == PrintfInit => PrintfInv
<1> SUFFICES ASSUME PrintfInit PROVE PrintfInv
  OBVIOUS
<1>1. /\ call \in [format : Formats, held : Helds, allocated : Capacities]
      /\ Len(call.held) <= (call.allocated - 1) % Modulus
      /\ call.allocated = 0 => call.held = <<>>
      /\ info = [format |-> IF call.format = Null THEN Null ELSE Chars(call.format),
             c |-> Nul, state |-> "ENTRY", format_offset |-> 0,
             padding |-> Nul, align |-> "left", length |-> 0,
             prefix |-> FALSE, output |-> call.held, written |-> 0,
             allocated |-> call.allocated]
      /\ va = IF call.format = Null THEN <<>> ELSE Arguments(call.format)
  BY DEF PrintfInit
<1>2. CallFits
  BY <1>1, PrintfAssumption DEF CallFits
<1>3. PICK n \in Nat : n = call.allocated /\ n <= SIZE_MAX
  BY <1>2, Words DEF CallFits
<1>4. call.held \in Seq(STRING) /\ Len(call.held) \in Nat
  BY <1>2, LenProperties DEF CallFits
<1>5. Len(call.held) <= Room
  <2>1. CASE n = 0
    BY <1>1, <1>3, <1>4, <2>1, EmptySeq DEF Room
  <2>2. CASE n # 0
    <3>1. PICK r \in 0 .. Modulus - 1 : r = n - 1
      BY <1>3, <2>2, Words
    <3>2. Modulus \in Nat \ {0} /\ r = Modulus * 0 + r
      BY Words
    <3>3. r % Modulus = r
      BY <3>2, RemainderIsUnique
    <3>4. (call.allocated - 1) % Modulus = r
      BY <1>3, <3>1, <3>3
    <3>5. Room = r
      BY <1>3, <2>2, <3>1 DEF Room
    <3> QED BY <1>1, <3>4, <3>5
  <2> QED BY <2>1, <2>2
<1>6. /\ info.output = call.held /\ info.written = 0 /\ info.allocated = call.allocated
      /\ info.state = "ENTRY" /\ info.format_offset = 0
      /\ info.format = IF call.format = Null THEN Null ELSE Chars(call.format)
  BY <1>1
<1>7. IsInfo(info)
  BY <1>1 DEF IsInfo, Fields
<1>8. BufferFits(info)
  <2>1. IsText(call.held)
    BY <1>4 DEF IsText
  <2>2. Len(call.held) <= Len(call.held) /\ 0 \in 0 .. call.allocated
    BY <1>3, <1>4
  <2> QED BY <1>5, <1>6, <2>1, <2>2 DEF BufferFits
<1>9. Entering
  BY <1>1, <1>6, <1>7, <1>8 DEF Entering
<1> QED BY <1>2, <1>9 DEF PrintfInv

\* A step that leaves the call alone keeps what is known of it.
LEMMA StepContinues ==
  ASSUME FormatGiven, UNCHANGED call, Continues(info', va', result')
  PROVE  PrintfInv'
<1>1. CallFits'
  BY DEF FormatGiven, CallFits
<1>2. Continues(info, va, result)'
  BY DEF Continues, BufferFits, IsBounded, WritesIntoNothing, Room, IsReading, ArgumentsLeft
<1> QED BY <1>1, <1>2 DEF PrintfInv, FormatGiven

\* __printf enters: the text of a null format is written, or the first
\* character is read.
LEMMA EnterKeeps == PrintfInv /\ Enter => PrintfInv'
<1> SUFFICES ASSUME PrintfInv, Enter PROVE PrintfInv'
  OBVIOUS
<1>1. result = Running /\ info.state = "ENTRY" /\ UNCHANGED call /\ UNCHANGED va
  BY DEF Enter, At
<1>2. Entering /\ CallFits
  BY <1>1 DEF PrintfInv, Continues
<1>3. CASE info.format = Null
  <2>1. PICK j : j = PRINTF_APPEND(info, NullText)
    OBVIOUS
  <2>2. IsInfo(j) /\ BufferFits(j)
    BY <1>2, <2>1, ShortTexts, PrintfAppendFits DEF Entering
  <2>3. info' = j /\ result' = IF j.written < Len(NullText) THEN j.written ELSE 0
    BY <1>3, <2>1 DEF Enter, Return
  <2>4. j.written \in Nat
    BY <1>2, <2>2, Words DEF BufferFits, CallFits
  <2>5. result' # Running
    BY <2>3, <2>4, PrintfAssumption
  <2>6. (IsInfo(info) /\ BufferFits(info))'
    BY <1>1, <2>2, <2>3 DEF BufferFits, IsBounded, WritesIntoNothing, Room
  <2>7. CallFits'
    BY <1>1, <1>2 DEF CallFits
  <2> QED BY <2>5, <2>6, <2>7 DEF PrintfInv, Continues
<1>4. CASE info.format # Null
  <2>1. FormatGiven /\ info.format = Chars(call.format) /\ va = Arguments(call.format)
    BY <1>2, <1>4 DEF Entering, FormatGiven
  <2>2. PICK j : j = Fresh(info)
    OBVIOUS
  <2>3. /\ IsInfo(j) /\ BufferFits(j) /\ j.format = info.format
        /\ j.format_offset = info.format_offset /\ j.state = "ESC"
    BY <1>2, <2>2, FreshFits DEF Entering
  <2>4. Behind(j, va)
    <3>1. PICK s : s = Chars(call.format)
      OBVIOUS
    <3>2. /\ Len(s) \in Nat /\ ReadingFits(s, Reading(s)) /\ va \in Seq(ArgumentType)
      BY <2>1, <3>1, FormatFits
    <3>3. Reading(s)[0].state = "ESC" /\ Reading(s)[0].ended = 0 /\ 0 \in 0 .. Len(s)
      BY <3>2 DEF ReadingFits
    <3>4. ArgumentsLeft(va, 0)
      BY <2>1, <3>2, LenProperties DEF ArgumentsLeft
    <3>5. j.format_offset = 0
      BY <1>2, <2>3 DEF Entering
    <3> QED BY <2>1, <2>3, <3>1, <3>3, <3>4, <3>5 DEF Behind
  <2>5. Peeked(j, info', result')
    BY <1>1, <1>4, <2>2 DEF Enter, PRINTF_PEEK, Return, Peeked
  <2>6. Continues(info', va', result')
    BY <1>1, <2>1, <2>3, <2>4, <2>5, PeekContinues
  <2> QED BY <1>1, <2>1, <2>6, StepContinues
<1> QED BY <1>3, <1>4

\* What is known when a character is read.
LEMMA AtCharacter ==
  ASSUME PrintfInv, result = Running, info.state # "ENTRY"
  PROVE  FormatGiven /\ IsInfo(info) /\ BufferFits(info) /\ IsReading(info, va)
  BY DEF PrintfInv, Entering, Continues, FormatGiven

\* A character outside of a conversion is written, and a '%' starts one.
LEMMA EscapeKeeps == PrintfInv /\ Escape => PrintfInv'
<1> SUFFICES ASSUME PrintfInv, Escape PROVE PrintfInv'
  OBVIOUS
<1>1. result = Running /\ info.state = "ESC" /\ UNCHANGED call /\ UNCHANGED va
  BY DEF Escape, At
<1>2. FormatGiven /\ IsInfo(info) /\ BufferFits(info) /\ IsReading(info, va)
  BY <1>1, AtCharacter
<1>3. ~Ends(info.state, info.c)
  BY <1>1 DEF Ends
<1>4. CASE info.c = "%"
  <2>1. PICK j : j = [info EXCEPT !.state = "PARSE"]
    OBVIOUS
  <2>2. IsInfo(j) /\ Rereads(info, j) /\ j.state = CaseAfter(info.state, info.c)
    BY <1>1, <1>2, <1>4, <2>1 DEF IsInfo, Rereads, Fields, CaseAfter
  <2>3. BufferFits(j) /\ j.format = info.format /\ j.format_offset = info.format_offset
    BY <1>2, <2>2, RereadFits
  <2>4. Behind(j, va)
    BY <1>1, <1>2, <1>3, <2>2, <2>3, ReadsOn
  <2>5. Peeked(j, info', result')
    BY <1>1, <1>4, <2>1 DEF Escape, PRINTF_PEEK, Return, Peeked
  <2>6. Continues(info', va', result')
    BY <1>1, <1>2, <2>2, <2>3, <2>4, <2>5, PeekContinues
  <2> QED BY <1>1, <1>2, <2>6, StepContinues
<1>5. CASE info.c # "%"
  <2>1. info.state = CaseAfter(info.state, info.c)
    BY <1>1, <1>5 DEF CaseAfter
  <2>2. Behind(info, va)
    BY <1>1, <1>2, <1>3, <2>1, ReadsOn
  <2>3. AppendedAndPeeked(info, info', result')
    BY <1>1, <1>5 DEF Escape, AppendAndPeek, PRINTF_PEEK, Return, Peeked, AppendedAndPeeked
  <2>4. Continues(info', va', result')
    BY <1>1, <1>2, <2>2, <2>3, AppendContinues
  <2> QED BY <1>1, <1>2, <2>4, StepContinues
<1> QED BY <1>4, <1>5

\* The flags are read, each with the peek behind it, until a digit or a
\* letter leaves the case; a second '%' is written.
LEMMA ParseKeeps == PrintfInv /\ Parse => PrintfInv'
<1> SUFFICES ASSUME PrintfInv, Parse PROVE PrintfInv'
  OBVIOUS
<1>1. result = Running /\ info.state = "PARSE" /\ UNCHANGED call /\ UNCHANGED va
  BY DEF Parse, At
<1>2. FormatGiven /\ IsInfo(info) /\ BufferFits(info) /\ IsReading(info, va)
  BY <1>1, AtCharacter
<1>3. \A c \in Letters : c # "%" /\ c # "#" /\ c # "-" /\ ~isdigit(c)
  BY PrintfAssumption
<1>4. isdigit("0") /\ ~isdigit("%") /\ ~isdigit("#") /\ ~isdigit("-")
  BY DEF isdigit, Digits
<1>5. CASE info.c = "%"
  <2>1. PICK j : j = [info EXCEPT !.state = "ESC"]
    OBVIOUS
  <2>2. /\ IsInfo(j) /\ Rereads(info, j) /\ j.state = CaseAfter(info.state, info.c)
        /\ ~Ends(info.state, info.c)
    BY <1>1, <1>2, <1>3, <1>5, <2>1 DEF IsInfo, Rereads, Fields, CaseAfter, Ends, isalpha
  <2>3. BufferFits(j) /\ j.format = info.format /\ j.format_offset = info.format_offset
    BY <1>2, <2>2, RereadFits
  <2>4. Behind(j, va)
    BY <1>1, <1>2, <2>2, <2>3, ReadsOn
  <2>5. AppendAndPeek(j)
    BY <1>3, <1>4, <1>5, <2>1 DEF Parse, isalpha
  <2>6. AppendedAndPeeked(j, info', result')
    BY <1>1, <2>5 DEF AppendAndPeek, PRINTF_PEEK, Return, Peeked, AppendedAndPeeked
  <2>7. Continues(info', va', result')
    BY <1>1, <1>2, <2>2, <2>3, <2>4, <2>6, AppendContinues
  <2> QED BY <1>1, <1>2, <2>7, StepContinues
<1>6. CASE info.c # "%" /\ isdigit(info.c) /\ info.c # "0"
  <2>1. PICK j : j = [info EXCEPT !.state = "FORMAT_LENGTH"]
    OBVIOUS
  <2>2. info' = j
    BY <1>3, <1>4, <1>6, <2>1 DEF Parse, Return, isalpha
  <2>3. IsInfo(j) /\ Rereads(info, j) /\ j.state = "FORMAT_LENGTH"
    BY <1>2, <2>1 DEF IsInfo, Rereads, Fields
  <2>4. BufferFits(j) /\ j.format = info.format /\ j.format_offset = info.format_offset /\ j.c = info.c
    BY <1>2, <2>3, RereadFits
  <2>5. \A before : ReadAs(info.state, before, info.c) => ReadAs(j.state, before, j.c)
    BY <1>1, <1>3, <1>6, <2>3, <2>4 DEF ReadAs, CaseAfter, Ends, isalpha, Cases
  <2>6. IsReading(j, va)
    BY <1>2, <2>4, <2>5 DEF IsReading
  <2>7. Continues(info', va', result')
    BY <1>1, <2>2, <2>3, <2>4, <2>6 DEF Continues
  <2> QED BY <1>1, <1>2, <2>7, StepContinues
<1>7. CASE isalpha(info.c)
  <2>1. PICK j : j = [info EXCEPT !.state = "FINALIZE"]
    OBVIOUS
  <2>2. info' = j
    BY <1>3, <1>4, <1>7, <2>1 DEF Parse, Return, isalpha
  <2>3. IsInfo(j) /\ Rereads(info, j) /\ j.state = "FINALIZE"
    BY <1>2, <2>1 DEF IsInfo, Rereads, Fields
  <2>4. BufferFits(j) /\ j.format = info.format /\ j.format_offset = info.format_offset /\ j.c = info.c
    BY <1>2, <2>3, RereadFits
  <2>5. \A before : ReadAs(info.state, before, info.c) => ReadAs(j.state, before, j.c)
    BY <1>1, <1>7, <2>3, <2>4 DEF ReadAs, Ends
  <2>6. IsReading(j, va)
    BY <1>2, <2>4, <2>5 DEF IsReading
  <2>7. Continues(info', va', result')
    BY <1>1, <2>2, <2>3, <2>4, <2>6 DEF Continues
  <2> QED BY <1>1, <1>2, <2>7, StepContinues
<1>8. CASE info.c # "%" /\ ~(isdigit(info.c) /\ info.c # "0") /\ ~isalpha(info.c)
  <2>1. PICK j : /\ j \in {info, [info EXCEPT !.prefix = TRUE],
                           [info EXCEPT !.padding = "0"], [info EXCEPT !.align = "left"]}
                 /\ PRINTF_PEEK(j)
    BY <1>8 DEF Parse
  <2>2. IsInfo(j) /\ Rereads(info, j) /\ j.state = info.state
    BY <1>2, <2>1 DEF IsInfo, Rereads, Fields
  <2>3. BufferFits(j) /\ j.format = info.format /\ j.format_offset = info.format_offset
    BY <1>2, <2>2, RereadFits
  <2>4. j.state = CaseAfter(info.state, info.c) /\ ~Ends(info.state, info.c)
    BY <1>1, <1>8, <2>2 DEF CaseAfter, Ends
  <2>5. Behind(j, va)
    BY <1>1, <1>2, <2>3, <2>4, ReadsOn
  <2>6. Peeked(j, info', result')
    BY <2>1 DEF PRINTF_PEEK, Return, Peeked
  <2>7. Continues(info', va', result')
    BY <1>1, <1>2, <2>2, <2>3, <2>5, <2>6, PeekContinues
  <2> QED BY <1>1, <1>2, <2>7, StepContinues
<1> QED BY <1>5, <1>6, <1>7, <1>8

\* The digits of the length are read; a letter ends the conversion, and what
\* is neither leaves it and is read again.
LEMMA FormatLengthKeeps == PrintfInv /\ FormatLength => PrintfInv'
<1> SUFFICES ASSUME PrintfInv, FormatLength PROVE PrintfInv'
  OBVIOUS
<1>1. result = Running /\ info.state = "FORMAT_LENGTH" /\ UNCHANGED call /\ UNCHANGED va
  BY DEF FormatLength, At
<1>2. FormatGiven /\ IsInfo(info) /\ BufferFits(info) /\ IsReading(info, va)
  BY <1>1, AtCharacter
<1>3. \A c \in Letters : c # "%" /\ ~isdigit(c)
  BY PrintfAssumption
<1>4. CASE isdigit(info.c)
  <2>1. PICK n \in Nat : n = (info.length * 10 + ValueOf(info.c)) % Modulus
    <3>1. PICK v \in Int : v = ValueOf(info.c)
      <4>1. \E k \in 1 .. 10 : Digits[k] = info.c
        BY <1>4 DEF isdigit
      <4>2. PICK d \in 1 .. 10 : d = CHOOSE k \in 1 .. 10 : Digits[k] = info.c
        BY <4>1
      <4>3. ValueOf(info.c) = d - 1
        BY <4>2, Zenon DEF ValueOf
      <4> QED BY <4>3
    <3>2. PICK l \in Nat : l = info.length
      BY <1>2 DEF IsInfo
    <3>3. PICK x \in Int : x = l * 10 + v
      OBVIOUS
    <3>4. PICK M \in Nat \ {0} : M = Modulus
      BY Words
    <3>5. x % M \in Nat
      OBVIOUS
    <3> QED BY <3>1, <3>2, <3>3, <3>4, <3>5
  <2>2. PICK j : j = [info EXCEPT !.length = n]
    OBVIOUS
  <2>3. IsInfo(j) /\ Rereads(info, j) /\ j.state = info.state
    BY <1>2, <2>2 DEF IsInfo, Rereads, Fields
  <2>4. BufferFits(j) /\ j.format = info.format /\ j.format_offset = info.format_offset
    BY <1>2, <2>3, RereadFits
  <2>5. j.state = CaseAfter(info.state, info.c) /\ ~Ends(info.state, info.c)
    BY <1>1, <1>3, <1>4, <2>3 DEF CaseAfter, Ends, isalpha
  <2>6. Behind(j, va)
    BY <1>1, <1>2, <2>4, <2>5, ReadsOn
  <2>7. PRINTF_PEEK(j)
    BY <1>3, <1>4, <2>1, <2>2 DEF FormatLength, isalpha
  <2>8. Peeked(j, info', result')
    BY <2>7 DEF PRINTF_PEEK, Return, Peeked
  <2>9. Continues(info', va', result')
    BY <1>1, <1>2, <2>3, <2>4, <2>6, <2>8, PeekContinues
  <2> QED BY <1>1, <1>2, <2>9, StepContinues
<1>5. CASE isalpha(info.c)
  <2>1. PICK j : j = [info EXCEPT !.state = "FINALIZE"]
    OBVIOUS
  <2>2. info' = j
    BY <1>3, <1>5, <2>1 DEF FormatLength, Return, isalpha
  <2>3. IsInfo(j) /\ Rereads(info, j) /\ j.state = "FINALIZE"
    BY <1>2, <2>1 DEF IsInfo, Rereads, Fields
  <2>4. BufferFits(j) /\ j.format = info.format /\ j.format_offset = info.format_offset /\ j.c = info.c
    BY <1>2, <2>3, RereadFits
  <2>5. \A before : ReadAs(info.state, before, info.c) => ReadAs(j.state, before, j.c)
    BY <1>1, <1>5, <2>3, <2>4 DEF ReadAs, Ends
  <2>6. IsReading(j, va)
    BY <1>2, <2>4, <2>5 DEF IsReading
  <2>7. Continues(info', va', result')
    BY <1>1, <2>2, <2>3, <2>4, <2>6 DEF Continues
  <2> QED BY <1>1, <1>2, <2>7, StepContinues
<1>6. CASE ~isdigit(info.c) /\ ~isalpha(info.c)
  <2>1. PICK j : j = [info EXCEPT !.state = "ESC"]
    OBVIOUS
  <2>2. info' = j
    BY <1>6, <2>1 DEF FormatLength, AfterLength, Return
  <2>3. IsInfo(j) /\ Rereads(info, j) /\ j.state = "ESC"
    BY <1>2, <2>1 DEF IsInfo, Rereads, Fields
  <2>4. BufferFits(j) /\ j.format = info.format /\ j.format_offset = info.format_offset /\ j.c = info.c
    BY <1>2, <2>3, RereadFits
  <2>5. \A before : ReadAs(info.state, before, info.c) => ReadAs(j.state, before, j.c)
    BY <1>1, <1>6, <2>3, <2>4 DEF ReadAs, CaseAfter, Ends, Cases
  <2>6. IsReading(j, va)
    BY <1>2, <2>4, <2>5 DEF IsReading
  <2>7. Continues(info', va', result')
    BY <1>1, <2>2, <2>3, <2>4, <2>6 DEF Continues
  <2> QED BY <1>1, <1>2, <2>7, StepContinues
<1> QED BY <1>4, <1>5, <1>6

\* The letter of a conversion takes its argument, which its formatter prints
\* in the buffer, and the machine is reset unless the count is reached.
LEMMA FinalizeKeeps == PrintfInv /\ Finalize => PrintfInv'
<1> SUFFICES ASSUME PrintfInv, Finalize PROVE PrintfInv'
  OBVIOUS
<1>1. result = Running /\ info.state = "FINALIZE" /\ UNCHANGED call /\ va' = Tail(va)
  BY DEF Finalize, At
<1>2. FormatGiven /\ IsInfo(info) /\ BufferFits(info) /\ IsReading(info, va)
  BY <1>1, AtCharacter
<1>3. /\ Head(va) \in ArgumentType
      /\ info.c \notin Known /\ call.allocated = 0 => WritesIntoNothing
      /\ \A j : j.format = info.format /\ j.format_offset = info.format_offset /\ j.state = "ESC"
               => Behind(j, Tail(va))
  BY <1>1, <1>2, ReadsArgument
<1>4. PICK i : i = PrintfFormat(info, Head(va))
  OBVIOUS
<1>5. IsInfo(i) /\ BufferFits(i) /\ SameReader(info, i)
  BY <1>2, <1>3, <1>4, PrintfFormatFits DEF FormatGiven
<1>6. i.format = info.format /\ i.format_offset = info.format_offset
  BY <1>5 DEF SameReader, Fields
<1>7. IF i.written = i.allocated THEN info' = i /\ result' = i.written ELSE PRINTF_PEEK(Fresh(i))
  BY <1>4 DEF Finalize, Return
<1>8. CASE i.written = i.allocated
  <2>1. i.written \in Nat
    BY <1>2, <1>5, Words DEF BufferFits, FormatGiven, CallFits
  <2>2. result' # Running
    BY <1>7, <1>8, <2>1, PrintfAssumption
  <2>3. Continues(info', va', result')
    BY <1>5, <1>7, <1>8, <2>2 DEF Continues
  <2> QED BY <1>1, <1>2, <2>3, StepContinues
<1>9. CASE i.written # i.allocated
  <2>1. PICK j : j = Fresh(i)
    OBVIOUS
  <2>2. /\ IsInfo(j) /\ BufferFits(j) /\ j.format = info.format
        /\ j.format_offset = info.format_offset /\ j.state = "ESC"
    BY <1>5, <1>6, <2>1, FreshFits
  <2>3. Behind(j, va')
    BY <1>1, <1>3, <2>2
  <2>4. Peeked(j, info', result')
    BY <1>7, <1>9, <2>1 DEF PRINTF_PEEK, Return, Peeked
  <2>5. Continues(info', va', result')
    BY <1>2, <2>2, <2>3, <2>4, PeekContinues
  <2> QED BY <1>1, <1>2, <2>5, StepContinues
<1> QED BY <1>8, <1>9

\* The invariant gives the property.
LEMMA BufferIsKept == PrintfInv => OutputStaysInTheBuffer
<1> SUFFICES ASSUME PrintfInv PROVE OutputStaysInTheBuffer
  OBVIOUS
<1>1. CallFits /\ BufferFits(info)
  BY DEF PrintfInv, Entering, Continues
<1>2. PICK h \in Nat : h = Len(call.held)
  BY <1>1, LenProperties DEF CallFits
<1>3. PICK T : info.output \in Seq(T)
  BY <1>1 DEF BufferFits, IsText
<1>4. PICK l \in Nat : l = Len(info.output) /\ h <= l
  BY <1>1, <1>2, <1>3, LenProperties DEF BufferFits
<1>5. SubSeq(call.held, 1, h) = SubSeq(info.output, 1, h)
  BY <1>1, <1>2 DEF BufferFits
<1>6. IsPrefix(call.held, info.output)
  BY <1>2, <1>4, <1>5 DEF IsPrefix
<1>7. info.written <= call.allocated
  BY <1>1, Words DEF BufferFits, CallFits
<1>8. IsBounded => Len(info.output) <= Room
  BY <1>1 DEF BufferFits
<1> QED BY <1>6, <1>7, <1>8 DEF OutputStaysInTheBuffer, IsBounded

\* However a format is put together and whatever the arguments are, the
\* output of a call stays in its buffer, behind what the buffer held.
THEOREM OutputStaysInItsBuffer == PrintfSpec => []OutputStaysInTheBuffer
<1>1. PrintfInv /\ [PrintfNext]_vars => PrintfInv'
  <2> SUFFICES ASSUME PrintfInv, [PrintfNext]_vars PROVE PrintfInv'
    OBVIOUS
  <2>1. CASE UNCHANGED vars
    BY <2>1 DEF vars, PrintfInv, CallFits, Entering, Continues, BufferFits, IsBounded,
                WritesIntoNothing, Room, IsReading, ArgumentsLeft
  <2>2. CASE PrintfNext
    BY <2>2, EnterKeeps, EscapeKeeps, ParseKeeps, FormatLengthKeeps, FinalizeKeeps DEF PrintfNext
  <2> QED BY <2>1, <2>2
<1> QED BY <1>1, PrintfStarts, BufferIsKept, PTL DEF PrintfSpec
=============================================================================
