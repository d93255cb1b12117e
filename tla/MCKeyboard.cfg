SPECIFICATION Spec
CONSTANTS
  Width = 3
  Height = 2
  ByteSize = 4
  Blank = Blank
  Glyphs = {Blank, a, b}
  Backspace = Backspace
  Enter = Enter
  Ignored = Ignored
INVARIANTS
  BlankAhead
  CursorShown
PROPERTIES
  ImplementsTextWindow
