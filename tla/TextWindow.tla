----------------------------- MODULE TextWindow -----------------------------
(***************************************************************************)
(* What somebody who types sees: the last lines of a text, up to the       *)
(* cursor.  A character is put at the end, backspace takes the last one    *)
(* away, enter starts a new line; when the window is full its first line   *)
(* is lost.  A full window has its cursor at the end of the last line, and *)
(* enter then starts the next line, the one that scrolls in.               *)
(***************************************************************************)
EXTENDS Naturals, Sequences

CONSTANTS Width, Height, Blank, Glyphs

VARIABLE text

Size == Width * Height

WithoutFirstLine(t) == SubSeq(t, Width + 1, Len(t))

(* t filled with blanks up to the start of the next line. *)
FilledUp(t) ==
  LET next == (Len(t) \div Width + 1) * Width
  IN  [i \in 1 .. next |-> IF i <= Len(t) THEN t[i] ELSE Blank]

Type(c) ==
  text' = Append(IF Len(text) = Size THEN WithoutFirstLine(text) ELSE text, c)

Erase == text # <<>> /\ text' = SubSeq(text, 1, Len(text) - 1)

NewLine ==
  LET lines == IF Len(text) = Size THEN text ELSE FilledUp(text)
  IN  text' = IF Len(lines) = Size THEN WithoutFirstLine(lines) ELSE lines

Init == text = <<>>

Next == (\E c \in Glyphs : Type(c)) \/ Erase \/ NewLine

Spec == Init /\ [][Next]_text
=============================================================================
