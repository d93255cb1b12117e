--------------------------- MODULE KeyboardProofs ---------------------------
(***************************************************************************)
(* Theorems about Keyboard, for a screen of any size.                      *)
(*                                                                         *)
(* The three facts that hold between two keys are inductive together: the  *)
(* cursor stays on the screen or just behind it only because a full screen *)
(* scrolls, and what a scroll uncovers is blank.  The same facts make      *)
(* every key a step of TextWindow.                                         *)
(***************************************************************************)
EXTENDS Keyboard, TLAPS

ConsoleInv == TypeOK /\ BlankAhead /\ CursorShown
-----------------------------------------------------------------------------
(* Sizes, as the solvers need them. *)
LEMMA SizeFacts ==
  /\ Width \in Nat \ {0} /\ Height \in Nat \ {0} /\ ByteSize \in Nat \ {0}
  /\ FB_SIZE \in Nat /\ FB_SIZE < ByteSize * ByteSize
  /\ LastLine \in Nat /\ LastLine + Width = FB_SIZE
  /\ Blank \in Glyphs
<1>1. /\ Width \in Nat \ {0} /\ Height \in Nat \ {0} /\ ByteSize \in Nat \ {0}
      /\ FB_SIZE < ByteSize * ByteSize /\ Blank \in Glyphs
  BY ScreenAssumption
<1>2. \A w, h \in Nat \ {0} : w * h \in Nat /\ (h - 1) * w \in Nat /\ (h - 1) * w + w = w * h
  BY Z3
<1> QED BY <1>1, <1>2 DEF FB_SIZE, LastLine

(* The bytes of a place, and the place they make. *)
LEMMA BytesOfPlace ==
  ASSUME NEW pos \in 0 .. FB_SIZE
  PROVE  /\ HighByte(pos) \in 0 .. ByteSize - 1
         /\ LowByte(pos) \in 0 .. ByteSize - 1
         /\ HighByte(pos) * ByteSize + LowByte(pos) = pos
<1>1. \A b \in Nat \ {0} : \A x \in Nat :
        x < b * b => /\ x \div b \in 0 .. b - 1
                     /\ x % b \in 0 .. b - 1
                     /\ (x \div b) * b + (x % b) = x
  BY Z3
<1>2. \A b \in Nat \ {0} : \A x \in 0 .. b - 1 : x % b = x
  BY Z3
<1>3. /\ pos \div ByteSize \in 0 .. ByteSize - 1
      /\ pos % ByteSize \in 0 .. ByteSize - 1
      /\ (pos \div ByteSize) * ByteSize + (pos % ByteSize) = pos
  <2>1. ByteSize \in Nat \ {0} /\ pos \in Nat /\ pos < ByteSize * ByteSize
    <3>1. \A s, x, q \in Nat : x <= s /\ s < q => x < q
      BY Z3
    <3>2. pos \in Nat /\ pos <= FB_SIZE /\ ByteSize * ByteSize \in Nat
      BY SizeFacts
    <3> QED BY <3>1, <3>2, SizeFacts
  <2> QED BY <1>1, <2>1
<1>4. HighByte(pos) = pos \div ByteSize
  BY <1>2, <1>3, SizeFacts DEF HighByte
<1> QED BY <1>3, <1>4 DEF LowByte

(* fb_move_cursor shows the place it is given. *)
LEMMA MoveCursorShows ==
  ASSUME NEW pos \in 0 .. FB_SIZE, fb_move_cursor(pos), cursor_pos' = pos
  PROVE  /\ crtc' \in [index : {"high", "low"}, high : 0 .. ByteSize - 1, low : 0 .. ByteSize - 1]
         /\ CursorShown'
  BY BytesOfPlace DEF fb_move_cursor, CursorShown, HwCursor

(* What the operators of framebuffer.c do to a screen that is blank from  *)
(* some place on.                                                          *)
BlankFrom(scr, pos) == \A i \in Cells : i >= pos => scr[i] = Blank

LEMMA WriteCellKeeps ==
  ASSUME NEW scr \in [Cells -> Glyphs], NEW i \in Nat, NEW c \in Glyphs,
         NEW pos \in Nat, BlankFrom(scr, pos)
  PROVE  /\ WriteCell(scr, i, c) \in [Cells -> Glyphs]
         /\ i < pos \/ c = Blank => BlankFrom(WriteCell(scr, i, c), pos)
         /\ i = pos => BlankFrom(WriteCell(scr, i, c), pos + 1)
         /\ i + 1 = pos /\ c = Blank => BlankFrom(WriteCell(scr, i, c), i)
  BY SizeFacts DEF WriteCell, BlankFrom, Cells

LEMMA ScrolledKeeps ==
  ASSUME NEW scr \in [Cells -> Glyphs]
  PROVE  Scrolled(scr) \in [Cells -> Glyphs] /\ BlankFrom(Scrolled(scr), LastLine)
<1>1. FB_SIZE - Width = LastLine
  BY SizeFacts
<1>2. \A i \in Cells : i < FB_SIZE - Width => i + Width \in Cells
  BY SizeFacts DEF Cells
<1> QED BY <1>1, <1>2, SizeFacts DEF Scrolled, BlankFrom, Cells
-----------------------------------------------------------------------------
LEMMA ErasePreserves ==
  ASSUME ConsoleInv, NEW sc, EraseKey(sc)
  PROVE  ConsoleInv'
<1> USE SizeFacts
<1>1. CASE cursor_pos = 0 /\ UNCHANGED consoleVars
  BY <1>1 DEF ConsoleInv, TypeOK, ScreenTypeOK, BlankAhead, CursorShown, HwCursor, consoleVars
<1>2. CASE /\ cursor_pos > 0
           /\ cursor_pos' = cursor_pos - 1
           /\ cells' = WriteCell(cells, cursor_pos', Blank)
           /\ fb_move_cursor(cursor_pos')
  <2>1. cells \in [Cells -> Glyphs] /\ cursor_pos \in 0 .. FB_SIZE /\ BlankFrom(cells, cursor_pos)
    BY DEF ConsoleInv, TypeOK, ScreenTypeOK, BlankAhead, BlankFrom
  <2>2. cursor_pos' \in 0 .. FB_SIZE /\ cursor_pos' \in Nat /\ cursor_pos' + 1 = cursor_pos
    BY <1>2, <2>1
  <2>3. cells' \in [Cells -> Glyphs] /\ BlankFrom(cells', cursor_pos')
    BY <1>2, <2>1, <2>2, WriteCellKeeps
  <2> QED BY <1>2, <2>2, <2>3, MoveCursorShows
          DEF ConsoleInv, TypeOK, ScreenTypeOK, BlankAhead, BlankFrom
<1> QED BY <1>1, <1>2 DEF EraseKey

LEMMA EnterPreserves ==
  ASSUME ConsoleInv, NEW sc, EnterKey(sc)
  PROVE  ConsoleInv'
<1> USE SizeFacts
<1>1. cells \in [Cells -> Glyphs] /\ cursor_pos \in 0 .. FB_SIZE /\ BlankFrom(cells, cursor_pos)
  BY DEF ConsoleInv, TypeOK, ScreenTypeOK, BlankAhead, BlankFrom
<1>2. /\ cursor_pos' \in 0 .. FB_SIZE
      /\ cells' \in [Cells -> Glyphs] /\ BlankFrom(cells', cursor_pos')
  <2>1. CASE NextLine >= Height /\ cells' = Scrolled(cells) /\ cursor_pos' = LastLine
    BY <1>1, <2>1, ScrolledKeeps
  <2>2. CASE NextLine < Height /\ cells' = cells /\ cursor_pos' = NextLine * Width
    <3>1. \A x \in Nat : \A w, h \in Nat \ {0} :
            x \div w + 1 < h => /\ (x \div w + 1) * w \in 0 .. w * h
                                /\ x <= (x \div w + 1) * w
      BY Z3
    <3>2. cursor_pos \in Nat /\ cursor_pos' = (cursor_pos \div Width + 1) * Width
          /\ cursor_pos \div Width + 1 < Height
      BY <1>1, <2>2 DEF NextLine
    <3>3. cursor_pos' \in 0 .. Width * Height /\ cursor_pos <= cursor_pos'
      BY <3>1, <3>2, ScreenAssumption
    <3>4. cursor_pos' \in 0 .. FB_SIZE /\ cursor_pos <= cursor_pos'
      BY <3>3 DEF FB_SIZE
    <3> QED BY <1>1, <2>2, <3>4 DEF BlankFrom, Cells
  <2> QED BY <2>1, <2>2 DEF EnterKey
<1>3. fb_move_cursor(cursor_pos')
  BY DEF EnterKey
<1> QED BY <1>2, <1>3, MoveCursorShows
        DEF ConsoleInv, TypeOK, ScreenTypeOK, BlankAhead, BlankFrom

LEMMA GlyphPreserves ==
  ASSUME ConsoleInv, NEW sc, GlyphKey(sc)
  PROVE  ConsoleInv'
<1> USE SizeFacts
<1>1. cells \in [Cells -> Glyphs] /\ cursor_pos \in 0 .. FB_SIZE /\ BlankFrom(cells, cursor_pos)
  BY DEF ConsoleInv, TypeOK, ScreenTypeOK, BlankAhead, BlankFrom
<1>2. ASSUME NEW scr \in [Cells -> Glyphs], NEW pos \in 0 .. FB_SIZE - 1, BlankFrom(scr, pos),
             sc \in Glyphs, Put(scr, pos, sc)
      PROVE  ConsoleInv'
  <2>1. cursor_pos' \in 0 .. FB_SIZE
    BY <1>2 DEF Put
  <2>2. cells' \in [Cells -> Glyphs] /\ BlankFrom(cells', cursor_pos')
    BY <1>2, WriteCellKeeps DEF Put
  <2> QED BY <1>2, <2>1, <2>2, MoveCursorShows
          DEF Put, ConsoleInv, TypeOK, ScreenTypeOK, BlankAhead, BlankFrom
<1>3. LastLine \in 0 .. FB_SIZE - 1
  OBVIOUS
<1>4. sc \in Glyphs
  BY DEF GlyphKey
<1>5. CASE cursor_pos >= FB_SIZE /\ Put(Scrolled(cells), LastLine, sc)
  BY <1>1, <1>2, <1>3, <1>4, <1>5, ScrolledKeeps
<1>6. CASE cursor_pos < FB_SIZE /\ Put(cells, cursor_pos, sc)
  BY <1>1, <1>2, <1>4, <1>6
<1> QED BY <1>5, <1>6 DEF GlyphKey

LEMMA InitEstablishes == Init => ConsoleInv
<1> SUFFICES ASSUME Init PROVE ConsoleInv
  OBVIOUS
<1>1. cells \in [Cells -> Glyphs] /\ BlankAhead
  BY SizeFacts DEF Init, Cleared, BlankAhead
<1>2. 0 * ByteSize + 0 = 0
  BY SizeFacts
<1> QED BY <1>1, <1>2, SizeFacts DEF Init, ConsoleInv, TypeOK, ScreenTypeOK, CursorShown, HwCursor

LEMMA NextPreserves == ConsoleInv /\ [Next]_consoleVars => ConsoleInv'
<1> SUFFICES ASSUME ConsoleInv, [Next]_consoleVars PROVE ConsoleInv'
  OBVIOUS
<1>1. CASE UNCHANGED consoleVars
  BY <1>1 DEF ConsoleInv, TypeOK, ScreenTypeOK, BlankAhead, CursorShown, HwCursor, consoleVars
<1>2. ASSUME NEW sc \in ScanCodes, IgnoreKey(sc) PROVE ConsoleInv'
  BY <1>1, <1>2 DEF IgnoreKey
<1>3. ASSUME NEW sc \in ScanCodes, EraseKey(sc) PROVE ConsoleInv'
  BY <1>3, ErasePreserves
<1>4. ASSUME NEW sc \in ScanCodes, EnterKey(sc) PROVE ConsoleInv'
  BY <1>4, EnterPreserves
<1>5. ASSUME NEW sc \in ScanCodes, GlyphKey(sc) PROVE ConsoleInv'
  BY <1>5, GlyphPreserves
<1> QED BY <1>1, <1>2, <1>3, <1>4, <1>5 DEF Next, keyboard_handler

(* Types, blank cells ahead and the visible cursor, together. *)
THEOREM Invariance == Spec => []ConsoleInv
<1>1. Init => ConsoleInv
  BY InitEstablishes
<1>2. ConsoleInv /\ [Next]_consoleVars => ConsoleInv'
  BY NextPreserves
<1> QED BY <1>1, <1>2, PTL DEF Spec

(* cursor_pos never leaves the screen by more than the place behind it,    *)
(* and video memory and the cursor registers hold what they can hold.      *)
THEOREM TypeCorrect == Spec => []TypeOK
<1>1. ConsoleInv => TypeOK
  BY DEF ConsoleInv
<1> QED BY <1>1, Invariance, PTL

(* Typing never runs into older text (keyboard_handler, fb_scroll_up). *)
THEOREM Ahead == Spec => []BlankAhead
<1>1. ConsoleInv => BlankAhead
  BY DEF ConsoleInv
<1> QED BY <1>1, Invariance, PTL

(* The visible cursor is where the next character goes, for every screen   *)
(* whose places fit the two registers.                                     *)
THEOREM Shown == Spec => []CursorShown
<1>1. ConsoleInv => CursorShown
  BY DEF ConsoleInv
<1> QED BY <1>1, Invariance, PTL
-----------------------------------------------------------------------------
(* The refinement.  Text is what TextWindow sees of a state. *)
TextOf(scr, pos) == [i \in 1 .. pos |-> scr[i - 1]]

Text == TextOf(cells, cursor_pos)

LEMMA IsSequence ==
  ASSUME NEW S, NEW n \in Nat, NEW s \in [1 .. n -> S]
  PROVE  s \in Seq(S) /\ Len(s) = n /\ DOMAIN s = 1 .. n
  OBVIOUS

LEMMA SameSequence ==
  ASSUME NEW S, NEW s \in Seq(S), NEW t \in Seq(S), Len(s) = Len(t),
         \A i \in 1 .. Len(s) : s[i] = t[i]
  PROVE  s = t
  OBVIOUS

LEMMA TextFacts ==
  ASSUME NEW scr \in [Cells -> Glyphs], NEW pos \in 0 .. FB_SIZE
  PROVE  /\ TextOf(scr, pos) \in Seq(Glyphs) /\ Len(TextOf(scr, pos)) = pos
         /\ \A i \in 1 .. pos : TextOf(scr, pos)[i] = scr[i - 1]
<1>1. pos \in Nat
  BY SizeFacts
<1>2. TextOf(scr, pos) \in [1 .. pos -> Glyphs]
  BY SizeFacts DEF TextOf, Cells
<1> QED BY <1>1, <1>2, IsSequence DEF TextOf

(* What the window shows now and after the step. *)
LEMMA BothTexts ==
  ASSUME ConsoleInv, ConsoleInv'
  PROVE  /\ cursor_pos \in 0 .. FB_SIZE /\ cells \in [Cells -> Glyphs]
         /\ Text \in Seq(Glyphs) /\ Len(Text) = cursor_pos
         /\ \A i \in 1 .. cursor_pos : Text[i] = cells[i - 1]
         /\ BlankFrom(cells, cursor_pos)
         /\ cursor_pos' \in 0 .. FB_SIZE /\ cells' \in [Cells -> Glyphs]
         /\ Text' \in Seq(Glyphs) /\ Len(Text') = cursor_pos'
         /\ \A i \in 1 .. cursor_pos' : Text'[i] = cells'[i - 1]
<1>1. /\ cursor_pos \in 0 .. FB_SIZE /\ cells \in [Cells -> Glyphs] /\ BlankFrom(cells, cursor_pos)
      /\ cursor_pos' \in 0 .. FB_SIZE /\ cells' \in [Cells -> Glyphs]
  BY DEF ConsoleInv, TypeOK, ScreenTypeOK, BlankAhead, BlankFrom
<1> QED BY <1>1, TextFacts DEF Text

(* The window's first line goes. *)
LEMMA FirstLineLost ==
  ASSUME NEW t \in Seq(Glyphs), Len(t) = FB_SIZE
  PROVE  /\ TW!WithoutFirstLine(t) \in Seq(Glyphs) /\ Len(TW!WithoutFirstLine(t)) = LastLine
         /\ \A i \in 1 .. LastLine : TW!WithoutFirstLine(t)[i] = t[i + Width]
  BY SizeFacts DEF TW!WithoutFirstLine

LEMMA ScrolledCells ==
  ASSUME NEW scr, NEW i \in 1 .. LastLine
  PROVE  Scrolled(scr)[i - 1] = scr[i + Width - 1]
<1>1. i - 1 \in Cells /\ i - 1 < FB_SIZE - Width /\ i - 1 + Width = i + Width - 1
  BY SizeFacts DEF Cells
<1> QED BY <1>1 DEF Scrolled

LEMMA EraseRefines ==
  ASSUME ConsoleInv, ConsoleInv', NEW sc, EraseKey(sc)
  PROVE  TW!Erase \/ Text' = Text
<1> USE SizeFacts
<1>1. CASE cursor_pos = 0 /\ UNCHANGED consoleVars
  BY <1>1 DEF Text, consoleVars
<1>2. CASE cursor_pos > 0 /\ cursor_pos' = cursor_pos - 1
           /\ cells' = WriteCell(cells, cursor_pos', Blank)
  <2>1. Text # <<>>
    BY <1>2, BothTexts
  <2>2. \A i \in 1 .. cursor_pos - 1 : cells'[i - 1] = cells[i - 1]
    BY <1>2, BothTexts DEF WriteCell, Cells
  <2>3. Text' = SubSeq(Text, 1, Len(Text) - 1)
    <3>1. /\ SubSeq(Text, 1, Len(Text) - 1) \in Seq(Glyphs)
          /\ Len(SubSeq(Text, 1, Len(Text) - 1)) = cursor_pos - 1
          /\ \A i \in 1 .. cursor_pos - 1 : SubSeq(Text, 1, Len(Text) - 1)[i] = cells[i - 1]
      BY <1>2, BothTexts
    <3> QED BY <1>2, <2>2, <3>1, BothTexts, SameSequence
  <2> QED BY <2>1, <2>3 DEF TW!Erase, Text, TextOf
<1> QED BY <1>1, <1>2 DEF EraseKey

LEMMA GlyphRefines ==
  ASSUME ConsoleInv, ConsoleInv', NEW sc, GlyphKey(sc)
  PROVE  TW!Type(sc)
<1> USE SizeFacts
<1> DEFINE kept == IF Len(Text) = FB_SIZE THEN TW!WithoutFirstLine(Text) ELSE Text
<1>1. ASSUME NEW scr \in [Cells -> Glyphs], NEW pos \in 0 .. FB_SIZE - 1, Put(scr, pos, sc),
             NEW t \in Seq(Glyphs), Len(t) = pos, \A i \in 1 .. pos : t[i] = scr[i - 1]
      PROVE  Text' = Append(t, sc)
  <2>1. sc \in Glyphs /\ cursor_pos' = pos + 1
    BY <1>1 DEF GlyphKey, Put
  <2>2. cells'[pos] = sc /\ \A i \in 1 .. pos : cells'[i - 1] = scr[i - 1]
    BY <1>1 DEF Put, WriteCell, Cells
  <2>3. /\ Append(t, sc) \in Seq(Glyphs) /\ Len(Append(t, sc)) = pos + 1
        /\ Append(t, sc)[pos + 1] = sc /\ \A i \in 1 .. pos : Append(t, sc)[i] = t[i]
    BY <1>1, <2>1
  <2>4. \A i \in 1 .. pos + 1 : Text'[i] = Append(t, sc)[i]
    <3>1. Text'[pos + 1] = cells'[pos]
      <4>1. pos + 1 \in 1 .. cursor_pos' /\ pos + 1 - 1 = pos
        BY <2>1
      <4> QED BY <4>1, BothTexts
    <3>2. \A i \in 1 .. pos : Text'[i] = scr[i - 1]
      BY <2>1, <2>2, BothTexts
    <3> QED BY <1>1, <2>2, <2>3, <3>1, <3>2
  <2> QED BY <2>1, <2>3, <2>4, BothTexts, SameSequence
<1>2. Text' = Append(kept, sc)
  <2>1. CASE cursor_pos >= FB_SIZE /\ Put(Scrolled(cells), LastLine, sc)
    <3>1. Len(Text) = FB_SIZE /\ kept = TW!WithoutFirstLine(Text)
      BY <2>1, BothTexts
    <3>2. \A i \in 1 .. LastLine : Text[i + Width] = cells[i + Width - 1]
      BY <3>1, BothTexts
    <3>3. LastLine \in 0 .. FB_SIZE - 1 /\ Scrolled(cells) \in [Cells -> Glyphs]
      BY BothTexts, ScrolledKeeps
    <3>4. /\ TW!WithoutFirstLine(Text) \in Seq(Glyphs)
          /\ Len(TW!WithoutFirstLine(Text)) = LastLine
          /\ \A i \in 1 .. LastLine : TW!WithoutFirstLine(Text)[i] = Text[i + Width]
      BY <3>1, BothTexts, FirstLineLost
    <3>5. \A i \in 1 .. LastLine : TW!WithoutFirstLine(Text)[i] = Scrolled(cells)[i - 1]
      BY <3>2, <3>4, ScrolledCells
    <3>6. Text' = Append(TW!WithoutFirstLine(Text), sc)
      BY <1>1, <2>1, <3>3, <3>4, <3>5
    <3> QED BY <3>1, <3>6
  <2>2. CASE cursor_pos < FB_SIZE /\ Put(cells, cursor_pos, sc)
    <3>1. kept = Text /\ cursor_pos \in 0 .. FB_SIZE - 1
      BY <2>2, BothTexts
    <3> QED BY <1>1, <2>2, <3>1, BothTexts
  <2> QED BY <2>1, <2>2 DEF GlyphKey
<1> QED BY <1>2 DEF TW!Type, TW!Size, FB_SIZE, Text, TextOf

LEMMA EnterRefines ==
  ASSUME ConsoleInv, ConsoleInv', NEW sc, EnterKey(sc)
  PROVE  TW!NewLine
<1> USE SizeFacts
<1> DEFINE full == TW!FilledUp(Text)
           t == IF Len(Text) = FB_SIZE THEN Text ELSE full
<1>1. /\ NextLine \in Nat /\ NextLine * Width \in Nat /\ cursor_pos < NextLine * Width
      /\ cursor_pos < FB_SIZE => NextLine <= Height
      /\ NextLine = Height => NextLine * Width = FB_SIZE
      /\ NextLine < Height => NextLine * Width < FB_SIZE /\ cursor_pos < FB_SIZE
  <2>1. \A x \in Nat : \A w, h \in Nat \ {0} :
          /\ x \div w + 1 \in Nat /\ (x \div w + 1) * w \in Nat /\ x < (x \div w + 1) * w
          /\ x < w * h => x \div w + 1 <= h
          /\ x \div w + 1 = h => (x \div w + 1) * w = w * h
          /\ x \div w + 1 < h => (x \div w + 1) * w < w * h /\ x < w * h
    BY Z3
  <2>2. cursor_pos \in Nat
    BY BothTexts
  <2> QED BY <2>1, <2>2 DEF NextLine, FB_SIZE
<1>2. /\ full \in Seq(Glyphs) /\ Len(full) = NextLine * Width
      /\ \A i \in 1 .. NextLine * Width : full[i] = IF i <= cursor_pos THEN Text[i] ELSE Blank
  <2>1. full = [i \in 1 .. NextLine * Width |-> IF i <= cursor_pos THEN Text[i] ELSE Blank]
    BY BothTexts DEF TW!FilledUp, NextLine
  <2>2. full \in [1 .. NextLine * Width -> Glyphs]
    BY <1>1, <2>1, BothTexts
  <2> QED BY <1>1, <2>1, <2>2, IsSequence
<1> HIDE DEF full
<1>3. \A i \in 1 .. FB_SIZE : i > cursor_pos => cells[i - 1] = Blank
  BY BothTexts DEF BlankFrom, Cells
<1>4. CASE NextLine >= Height /\ cells' = Scrolled(cells) /\ cursor_pos' = LastLine
  <2>1. t \in Seq(Glyphs) /\ Len(t) = FB_SIZE /\ \A i \in 1 .. FB_SIZE : t[i] = cells[i - 1]
    <3>1. CASE cursor_pos = FB_SIZE
      BY <3>1, BothTexts
    <3>2. CASE cursor_pos < FB_SIZE
      <4>1. t = full /\ NextLine = Height
        BY <1>1, <1>4, <3>2, BothTexts
      <4>2. full \in Seq(Glyphs) /\ Len(full) = FB_SIZE
        BY <1>1, <1>2, <4>1
      <4>3. ASSUME NEW i \in 1 .. FB_SIZE PROVE full[i] = cells[i - 1]
        <5>1. full[i] = IF i <= cursor_pos THEN Text[i] ELSE Blank
          BY <1>1, <1>2, <4>1
        <5> QED BY <1>3, <5>1, BothTexts
      <4> QED BY <4>1, <4>2, <4>3
    <3> QED BY <3>1, <3>2, BothTexts
  <2> HIDE DEF t
  <2>2. \A i \in 1 .. LastLine : Text'[i] = TW!WithoutFirstLine(t)[i]
    <3>1. \A i \in 1 .. LastLine : t[i + Width] = cells[i + Width - 1]
      BY <2>1
    <3>2. \A i \in 1 .. LastLine : Text'[i] = cells[i + Width - 1]
      BY <1>4, BothTexts, ScrolledCells
    <3> QED BY <2>1, <3>1, <3>2, FirstLineLost
  <2>3. Text' = TW!WithoutFirstLine(t)
    BY <1>4, <2>1, <2>2, BothTexts, FirstLineLost, SameSequence
  <2> QED BY <2>1, <2>3 DEF TW!NewLine, TW!Size, FB_SIZE, Text, TextOf, t, full
<1>5. CASE NextLine < Height /\ cells' = cells /\ cursor_pos' = NextLine * Width
  <2>1. t = full /\ Len(full) # FB_SIZE
    BY <1>1, <1>2, <1>5, BothTexts
  <2>2. \A i \in 1 .. cursor_pos' : Text'[i] = full[i]
    BY <1>2, <1>3, <1>5, BothTexts
  <2>3. Text' = full
    BY <1>2, <1>5, <2>2, BothTexts, SameSequence
  <2> QED BY <2>1, <2>3 DEF TW!NewLine, TW!Size, FB_SIZE, Text, TextOf, full
<1> QED BY <1>4, <1>5 DEF EnterKey

(* Whatever is typed, the screen shows the last lines of it: keyboard.c    *)
(* implements the window of somebody who types.                            *)
THEOREM Implements == Spec => ImplementsTextWindow
<1>1. Init => TW!Init
  <2>1. ASSUME Init PROVE Text = <<>>
    BY <2>1 DEF Init, Text, TextOf
  <2> QED BY <2>1 DEF TW!Init, Text, TextOf
<1>2. ConsoleInv /\ ConsoleInv' /\ [Next]_consoleVars => TW!Next \/ Text' = Text
  <2>1. ASSUME UNCHANGED consoleVars PROVE Text' = Text
    BY <2>1 DEF Text, consoleVars
  <2>2. ASSUME ConsoleInv, ConsoleInv', NEW sc \in ScanCodes, keyboard_handler(sc)
        PROVE  TW!Next \/ Text' = Text
    <3>1. sc \in Glyphs /\ TW!Type(sc) => TW!Next
      BY DEF TW!Next
    <3> QED BY <2>1, <2>2, <3>1, EraseRefines, EnterRefines, GlyphRefines
            DEF keyboard_handler, IgnoreKey, GlyphKey, TW!Next
  <2> QED BY <2>1, <2>2 DEF Next
<1>3. ConsoleInv /\ ConsoleInv' /\ [Next]_consoleVars =>
        [TW!Next]_([i \in 1 .. cursor_pos |-> cells[i - 1]])
  BY <1>2 DEF Text, TextOf
<1> QED BY <1>1, <1>3, Invariance, PTL DEF Spec, ImplementsTextWindow, TW!Spec
=============================================================================
