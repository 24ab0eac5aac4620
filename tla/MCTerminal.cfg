\* Cursor movement, and the screen: printing, clearing, scrolling, colours.
SPECIFICATION TerminalSpec
CONSTANTS
  W = 2
  H = 2
  PARAMETER_COUNT = 2
  Writers <- MoverAndPainter
INVARIANTS
  DisplayCursorFollows
  DisplayShowsCells
PROPERTIES
  MovesLandOnTarget
  WritesReturn
CHECK_DEADLOCK FALSE
