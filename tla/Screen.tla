------------------------------- MODULE Screen -------------------------------
(***************************************************************************)
(* The text screen of framebuffer.c: a row of character cells that the VGA *)
(* shows as Height lines of Width, and the two CRT controller registers    *)
(* that hold the place of the visible cursor, reached one byte at a time   *)
(* through an index register.  Colours are left out: no decision of the    *)
(* code reads them.                                                        *)
(***************************************************************************)
EXTENDS Naturals, Sequences

CONSTANTS
  Width,      \* FB_WIDTH (80)
  Height,     \* FB_HEIGHT (25)
  ByteSize,   \* values of a CRT controller register (256)
  Blank,      \* the character ' '
  Glyphs      \* the characters that get on the screen, Blank among them

FB_SIZE == Width * Height

Cells == 0 .. FB_SIZE - 1

ASSUME ScreenAssumption ==
  /\ Width \in Nat \ {0}
  /\ Height \in Nat \ {0}
  /\ ByteSize \in Nat \ {0}
  /\ FB_SIZE < ByteSize * ByteSize
  /\ Blank \in Glyphs

VARIABLES
  cells,   \* the characters in video memory
  crtc     \* the CRT controller: index register, cursor high and low byte

screenVars == <<cells, crtc>>
-----------------------------------------------------------------------------
(* What the functions of framebuffer.c leave in video memory. *)

WriteCell(scr, i, c) == IF i >= FB_SIZE THEN scr ELSE [scr EXCEPT ![i] = c]

Cleared == [i \in Cells |-> Blank]

(* fb_write_at with a text that fits in len: cut off at the screen's end. *)
WriteAt(scr, text, pos) ==
  [i \in Cells |-> IF i >= pos /\ i < pos + Len(text) THEN text[i - pos + 1]
                   ELSE scr[i]]

(* fb_write, which starts at the first cell. *)
Write(scr, text) == WriteAt(scr, text, 0)

OnScreen(x, y) == x < Width /\ y < Height

CellAt(x, y) == y * Width + x

PutCharAtXY(scr, x, y, c) == IF OnScreen(x, y) THEN WriteCell(scr, CellAt(x, y), c) ELSE scr

FillLine(scr, y, c) ==
  [i \in Cells |-> IF y < Height /\ i \div Width = y THEN c ELSE scr[i]]

(* The columns x1 .. x2 - 1 of the lines y1 .. y2 - 1, if they are there.  *)
FillArea(scr, x1, y1, x2, y2, c) ==
  IF ~OnScreen(x1, y1) \/ x2 > Width \/ y2 > Height THEN scr
  ELSE [i \in Cells |-> IF i % Width \in x1 .. x2 - 1 /\ i \div Width \in y1 .. y2 - 1
                        THEN c ELSE scr[i]]

(* fb_scroll_up; its callers move the cursor again after it. *)
Scrolled(scr) ==
  [i \in Cells |-> IF i < FB_SIZE - Width THEN scr[i + Width] ELSE Blank]
-----------------------------------------------------------------------------
(* fb_move_cursor: four writes to ports, two that choose a register and    *)
(* two that fill it.                                                       *)
HighByte(pos) == (pos \div ByteSize) % ByteSize

LowByte(pos) == pos % ByteSize

WriteIndex(reg) == crtc' = [crtc EXCEPT !.index = reg]

WriteData(byte) == crtc' = [crtc EXCEPT ![crtc.index] = byte]

(* The k-th of the four writes, for a caller that can be interrupted.      *)
MoveCursorOutb(k, pos) ==
  \/ k = 1 /\ WriteIndex("high")
  \/ k = 2 /\ WriteData(HighByte(pos))
  \/ k = 3 /\ WriteIndex("low")
  \/ k = 4 /\ WriteData(LowByte(pos))

(* Mutant: the high byte of the place is never written. *)
fb_move_cursorLow(pos) ==
  crtc' = [crtc EXCEPT !.index = "low", !.low = LowByte(pos)]

(* All four of them, for a caller that cannot. *)
fb_move_cursor(pos) ==
  crtc' = [index |-> "low", high |-> HighByte(pos), low |-> LowByte(pos)]

HwCursor == crtc.high * ByteSize + crtc.low

ScreenTypeOK ==
  /\ cells \in [Cells -> Glyphs]
  /\ crtc \in [index : {"high", "low"}, high : 0 .. ByteSize - 1, low : 0 .. ByteSize - 1]
=============================================================================
