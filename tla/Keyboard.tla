------------------------------ MODULE Keyboard ------------------------------
(***************************************************************************)
(* The console of keyboard.c: keyboard_handler turns a scan code into a    *)
(* change of the screen at cursor_pos.                                     *)
(*                                                                         *)
(* A scan code is abstracted to what the handler's table makes of it: the  *)
(* glyph of a key, Backspace, Enter, or Ignored, which stands for the      *)
(* codes without an entry and for the release of any key.                  *)
(***************************************************************************)
EXTENDS Screen

CONSTANTS
  Backspace, Enter,   \* the scan codes of these keys
  Ignored             \* a scan code that types nothing

ScanCodes == Glyphs \cup {Backspace, Enter, Ignored}

ASSUME KeyboardAssumption ==
  /\ {Backspace, Enter, Ignored} \cap Glyphs = {}
  /\ Backspace # Enter /\ Backspace # Ignored /\ Enter # Ignored

VARIABLE cursor_pos   \* where the next character goes; FB_SIZE when the screen is full

consoleVars == <<cells, crtc, cursor_pos>>

LastLine == (Height - 1) * Width
-----------------------------------------------------------------------------
(* keyboard_handler *)

IgnoreKey(sc) == sc = Ignored /\ UNCHANGED consoleVars

(* Mutant: the character stays on the screen. *)
EraseKeyUnwritten(sc) ==
  /\ sc = Backspace
  /\ \/ /\ cursor_pos > 0
        /\ cursor_pos' = cursor_pos - 1
        /\ cells' = cells
        /\ fb_move_cursor(cursor_pos')
     \/ cursor_pos = 0 /\ UNCHANGED consoleVars

EraseKey(sc) ==
  /\ sc = Backspace
  /\ \/ /\ cursor_pos > 0
        /\ cursor_pos' = cursor_pos - 1
        /\ cells' = WriteCell(cells, cursor_pos', Blank)
        /\ fb_move_cursor(cursor_pos')
     \/ cursor_pos = 0 /\ UNCHANGED consoleVars

NextLine == cursor_pos \div Width + 1

(* Mutant: the last line of the screen does not scroll. *)
EnterKeyLate(sc) ==
  /\ sc = Enter
  /\ \/ NextLine > Height /\ cells' = Scrolled(cells) /\ cursor_pos' = LastLine
     \/ NextLine <= Height /\ cells' = cells /\ cursor_pos' = NextLine * Width
  /\ fb_move_cursor(cursor_pos')

EnterKey(sc) ==
  /\ sc = Enter
  /\ \/ NextLine >= Height /\ cells' = Scrolled(cells) /\ cursor_pos' = LastLine
     \/ NextLine < Height /\ cells' = cells /\ cursor_pos' = NextLine * Width
  /\ fb_move_cursor(cursor_pos')

Put(scr, pos, c) ==
  /\ cells' = WriteCell(scr, pos, c)
  /\ cursor_pos' = pos + 1
  /\ fb_move_cursor(cursor_pos')

GlyphKey(sc) ==
  /\ sc \in Glyphs
  /\ \/ cursor_pos >= FB_SIZE /\ Put(Scrolled(cells), LastLine, sc)
     \/ cursor_pos < FB_SIZE /\ Put(cells, cursor_pos, sc)

keyboard_handler(sc) ==
  IgnoreKey(sc) \/ EraseKey(sc) \/ EnterKey(sc) \/ GlyphKey(sc)
-----------------------------------------------------------------------------
(* A cleared screen with the cursor at its start (fb_clear). *)
Init == cells = Cleared /\ crtc = [index |-> "low", high |-> 0, low |-> 0] /\ cursor_pos = 0

Next == \E sc \in ScanCodes : keyboard_handler(sc)

Spec == Init /\ [][Next]_consoleVars
-----------------------------------------------------------------------------
(* The variables hold values of their types. *)
TypeOK == ScreenTypeOK /\ cursor_pos \in 0 .. FB_SIZE

(* There is nothing on the screen from the cursor on, so that typing never *)
(* runs into older text and what backspace uncovers is blank.              *)
BlankAhead == \A i \in Cells : i >= cursor_pos => cells[i] = Blank

(* Between two keys the visible cursor is where the next character goes    *)
(* (keyboard.c calls fb_move_cursor on every path that moves cursor_pos).  *)
CursorShown == HwCursor = cursor_pos

(* keyboard.c and framebuffer.c implement TextWindow: the cells before the *)
(* cursor are the last lines of what was typed.                            *)
TW == INSTANCE TextWindow WITH text <- [i \in 1 .. cursor_pos |-> cells[i - 1]]

ImplementsTextWindow == TW!Spec
=============================================================================
