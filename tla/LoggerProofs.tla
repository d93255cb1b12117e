---------------------------- MODULE LoggerProofs ----------------------------
(***************************************************************************)
(* Theorems about Logger, for a screen of any size, any messages and any   *)
(* prefixes, title and limits.                                             *)
(*                                                                         *)
(* What a message shows is followed turn by turn: the last line of a text  *)
(* that stands before the logger's place still does when the text has one  *)
(* character more, over the edge of a line and over a scroll, provided the *)
(* place was not past the edge already.  A prefix may push it there, and   *)
(* then nothing of the text is written yet (Fits).                         *)
(***************************************************************************)
EXTENDS Logger, TLAPS

Characters == Glyphs \cup {Newline}

PageOK(p) ==
  p \in [scr : [Cells -> Glyphs], cursor : Nat, x : Nat, y : 0 .. Height - 1, scrolled : BOOLEAN]

End(p) == CellAt(p.x, p.y)

(* Once a character of the text is written, the place is on its line. *)
Fits == turn # None /\ (turn > 1 \/ whole) => logger_x <= Width

(* What has gone through the loop stands there, and the prefix before it. *)
Sinks ==
  Steady /\ whole =>
    IF turn = None THEN StandsBefore(cells, Place, Unended(line))
    ELSE Len(said) <= MaxSerial /\ StandsBefore(cells, Place, line \o Written)

Status == intact => logger_y >= 1 /\ StatusLineStands

LoggerInv == TypeOK /\ Fits /\ MessageStands /\ Sinks /\ Status
-----------------------------------------------------------------------------
(* Sizes and places, as the solvers need them. *)

LEMMA SizeFacts ==
  /\ Width \in Nat \ {0} /\ Height \in Nat \ {0} /\ Height > 1 /\ ByteSize \in Nat \ {0}
  /\ FB_SIZE \in Nat /\ FB_SIZE - Width \in Nat /\ Width <= FB_SIZE
  /\ MaxColumn \in Nat /\ Width <= MaxColumn
  /\ Blank \in Glyphs /\ Bar \in Glyphs /\ Newline \notin Glyphs
<1>1. \A w, h \in Nat \ {0} : w * h \in Nat /\ w * h - w \in Nat /\ w <= w * h
  BY Z3
<1> QED BY <1>1, ScreenAssumption, LoggerAssumption DEF FB_SIZE

LEMMA PlaceFacts ==
  ASSUME NEW x \in Nat, NEW y \in 0 .. Height - 1
  PROVE  /\ CellAt(x, y) \in Nat /\ CellAt(x + 1, y) = CellAt(x, y) + 1
         /\ y >= 1 => CellAt(x, y) >= Width
         /\ x <= Width => CellAt(x, y) <= FB_SIZE
         /\ x < Width => CellAt(x, y) \in Cells
         /\ CellAt(0, y + 1) = CellAt(Width, y)
         /\ CellAt(Width, Height - 1) = FB_SIZE /\ CellAt(0, Height - 1) = FB_SIZE - Width
<1>1. \A w, h \in Nat \ {0} : \A a \in Nat : \A b \in 0 .. h - 1 :
        /\ b * w + a \in Nat /\ b * w + (a + 1) = (b * w + a) + 1
        /\ b >= 1 => b * w + a >= w
        /\ (b + 1) * w + 0 = b * w + w
        /\ (h - 1) * w + w = w * h /\ (h - 1) * w + 0 = w * h - w
  BY Z3
<1>2. \A w, h \in Nat \ {0} : \A a \in Nat : \A b \in 0 .. h - 1 :
        /\ a <= w => b * w + a <= w * h
        /\ a < w => b * w + a \in 0 .. w * h - 1
  BY Z3
<1> QED BY <1>1, <1>2, ScreenAssumption DEF CellAt, FB_SIZE, Cells

(* A page and what it is made of. *)
LEMMA PageFields ==
  ASSUME NEW p, PageOK(p)
  PROVE  /\ p.scr \in [Cells -> Glyphs] /\ p.cursor \in Nat /\ p.x \in Nat
         /\ p.y \in 0 .. Height - 1 /\ p.scrolled \in BOOLEAN
  BY DEF PageOK

LEMMA AppendFacts ==
  ASSUME NEW S, NEW s \in Seq(S), NEW c \in S
  PROVE  /\ Append(s, c) \in Seq(S) /\ Len(Append(s, c)) = Len(s) + 1
         /\ Append(s, c)[Len(s) + 1] = c
         /\ \A i \in 1 .. Len(s) : Append(s, c)[i] = s[i]
  OBVIOUS

LEMMA OneMore ==
  ASSUME NEW S, NEW s \in Seq(S), NEW t \in Seq(S), NEW c \in S
  PROVE  s \o Append(t, c) = Append(s \o t, c)
  OBVIOUS

(* One turn of the loop takes one character more. *)
LEMMA UpTo ==
  ASSUME NEW S, NEW s \in Seq(S), NEW i \in 1 .. Len(s)
  PROVE  /\ SubSeq(s, 1, i) = Append(SubSeq(s, 1, i - 1), s[i])
         /\ SubSeq(s, 1, i - 1) \in Seq(S) /\ Len(SubSeq(s, 1, i - 1)) = i - 1 /\ s[i] \in S
<1> DEFINE a == SubSeq(s, 1, i)
           b == SubSeq(s, 1, i - 1)
<1>1. /\ a \in Seq(S) /\ Len(a) = i /\ \A k \in 1 .. i : a[k] = s[k]
      /\ b \in Seq(S) /\ Len(b) = i - 1 /\ \A k \in 1 .. i - 1 : b[k] = s[k]
      /\ s[i] \in S
  OBVIOUS
<1> HIDE DEF a, b
<1>2. /\ Append(b, s[i]) \in Seq(S) /\ Len(Append(b, s[i])) = i
      /\ \A k \in 1 .. i : Append(b, s[i])[k] = s[k]
  BY <1>1, AppendFacts
<1>3. a = Append(b, s[i])
  BY <1>1, <1>2
<1> QED BY <1>1, <1>3 DEF a, b
-----------------------------------------------------------------------------
(* What a turn of the loop does to the page. *)

(* The place is on a line. *)
LEMMA PutFacts ==
  ASSUME NEW p, PageOK(p), p.x < Width, NEW c \in Glyphs
  PROVE  LET q == [p EXCEPT !.scr = PutCharAtXY(@, p.x, p.y, c), !.x = @ + 1] IN
         /\ PageOK(q) /\ q.x = p.x + 1 /\ q.y = p.y /\ q.scrolled = p.scrolled
         /\ q.scr = [p.scr EXCEPT ![End(p)] = c] /\ End(p) \in Cells /\ End(q) = End(p) + 1
<1> DEFINE q == [p EXCEPT !.scr = PutCharAtXY(@, p.x, p.y, c), !.x = @ + 1]
<1>1. /\ p.x \in Nat /\ p.y \in 0 .. Height - 1 /\ p.scr \in [Cells -> Glyphs]
      /\ p.cursor \in Nat /\ p.scrolled \in BOOLEAN
  BY DEF PageOK
<1>2. End(p) \in Cells
  BY <1>1, PlaceFacts DEF End
<1>3. PutCharAtXY(p.scr, p.x, p.y, c) = [p.scr EXCEPT ![End(p)] = c]
  <2>1. OnScreen(p.x, p.y)
    BY <1>1, SizeFacts DEF OnScreen
  <2>2. ~(End(p) >= FB_SIZE)
    BY <1>2, SizeFacts DEF Cells
  <2> QED BY <2>1, <2>2 DEF PutCharAtXY, WriteCell, End
<1>4. [p.scr EXCEPT ![End(p)] = c] \in [Cells -> Glyphs]
  BY <1>1, <1>2
<1>5. q = [p EXCEPT !.scr = [p.scr EXCEPT ![End(p)] = c], !.x = p.x + 1]
  BY <1>3 DEF PageOK
<1>6. /\ PageOK(q) /\ q.scr = [p.scr EXCEPT ![End(p)] = c] /\ q.x = p.x + 1 /\ q.y = p.y
      /\ q.scrolled = p.scrolled
  <2> DEFINE d == [p.scr EXCEPT ![End(p)] = c]
             a == p.x + 1
  <2>1. d \in [Cells -> Glyphs] /\ a \in Nat /\ q = [p EXCEPT !.scr = d, !.x = a]
    BY <1>1, <1>4, <1>5
  <2> HIDE DEF d, a, q
  <2>2. PageOK(q) /\ q.scr = d /\ q.x = a /\ q.y = p.y /\ q.scrolled = p.scrolled
    BY <1>1, <2>1 DEF PageOK
  <2> QED BY <2>2 DEF d, a
<1> HIDE DEF q
<1>7. End(q) = End(p) + 1
  BY <1>1, <1>6, PlaceFacts DEF End
<1> QED BY <1>2, <1>6, <1>7 DEF q

LEMMA NewlineFacts ==
  ASSUME NEW p, PageOK(p)
  PROVE  LET q == logger_newline(p) IN
         /\ PageOK(q) /\ q.x = 0
         /\ \/ q.y = p.y + 1 /\ q.scr = p.scr /\ q.scrolled = p.scrolled
            \/ /\ p.y = Height - 1 /\ q.y = Height - 1
               /\ q.scr = Scrolled(p.scr) /\ q.scrolled = TRUE
<1>1. /\ p.y \in 0 .. Height - 1 /\ p.scr \in [Cells -> Glyphs]
      /\ p.cursor \in Nat /\ p.scrolled \in BOOLEAN
  BY DEF PageOK
<1>2. CASE p.y + 1 < Height
  <2>1. logger_newline(p) = [p EXCEPT !.x = 0, !.y = p.y + 1]
    BY <1>2 DEF logger_newline, PageOK
  <2>2. p.y + 1 \in 0 .. Height - 1
    BY <1>1, <1>2, SizeFacts
  <2> DEFINE q == logger_newline(p)
             b == p.y + 1
  <2>3. b \in 0 .. Height - 1 /\ q = [p EXCEPT !.x = 0, !.y = b]
    BY <2>1, <2>2
  <2> HIDE DEF q, b
  <2>4. PageOK(q) /\ q.x = 0 /\ q.y = b /\ q.scr = p.scr /\ q.scrolled = p.scrolled
    BY <1>1, <2>3 DEF PageOK
  <2> QED BY <2>4 DEF q, b
<1>3. CASE ~(p.y + 1 < Height)
  <2>1. logger_newline(p) = [scr |-> Scrolled(p.scr), cursor |-> FB_SIZE - Width,
                             x |-> 0, y |-> Height - 1, scrolled |-> TRUE]
    BY <1>3 DEF logger_newline
  <2>2. p.y = Height - 1 /\ Height - 1 \in 0 .. Height - 1
    BY <1>1, <1>3, SizeFacts
  <2>3. Scrolled(p.scr) \in [Cells -> Glyphs]
    <3>1. \A i \in Cells : i < FB_SIZE - Width => i + Width \in Cells
      BY SizeFacts DEF Cells
    <3> QED BY <1>1, <3>1, SizeFacts DEF Scrolled
  <2> QED BY <2>1, <2>2, <2>3, SizeFacts DEF PageOK
<1> QED BY <1>2, <1>3

(* A line that is full goes on in the next one. *)
LEMMA NewlineKeeps ==
  ASSUME NEW p, PageOK(p), p.x = Width,
         NEW text \in Seq(Characters), StandsBefore(p.scr, End(p), text)
  PROVE  LET q == logger_newline(p) IN StandsBefore(q.scr, End(q), text)
<1> DEFINE q == logger_newline(p)
<1>1. p.y \in 0 .. Height - 1 /\ p.scr \in [Cells -> Glyphs]
  BY DEF PageOK
<1>2. PageOK(q) /\ q.x = 0
  BY NewlineFacts
<1>3. CASE q.y = p.y + 1 /\ q.scr = p.scr
  <2>1. End(q) = End(p)
    BY <1>1, <1>2, <1>3, PlaceFacts DEF End
  <2> QED BY <1>3, <2>1
<1>4. CASE p.y = Height - 1 /\ q.y = Height - 1 /\ q.scr = Scrolled(p.scr)
  <2>1. End(p) = FB_SIZE /\ End(q) = FB_SIZE - Width
    BY <1>1, <1>2, <1>4, PlaceFacts DEF End
  <2>2. ASSUME NEW k \in Nat, k < FB_SIZE - Width
        PROVE  k < FB_SIZE /\ q.scr[(FB_SIZE - Width) - 1 - k] = p.scr[FB_SIZE - 1 - k]
    <3>1. /\ k < FB_SIZE /\ (FB_SIZE - Width) - 1 - k \in Cells
          /\ (FB_SIZE - Width) - 1 - k < FB_SIZE - Width
          /\ ((FB_SIZE - Width) - 1 - k) + Width = FB_SIZE - 1 - k
      BY <2>2, SizeFacts DEF Cells
    <3> QED BY <1>4, <3>1 DEF Scrolled
  <2>3. Len(text) \in Nat
    OBVIOUS
  <2>4. StandsBefore(p.scr, FB_SIZE, text)
    BY <2>1
  <2> HIDE DEF q
  <2>5. StandsBefore(q.scr, FB_SIZE - Width, text)
    <3>1. SUFFICES ASSUME NEW k \in 0 .. Len(text) - 1, k < FB_SIZE - Width,
                          \A j \in Len(text) - k .. Len(text) : text[j] # Newline
                   PROVE  q.scr[(FB_SIZE - Width) - 1 - k] = text[Len(text) - k]
      BY DEF StandsBefore
    <3>2. k \in Nat
      BY <2>3
    <3>3. k < FB_SIZE /\ q.scr[(FB_SIZE - Width) - 1 - k] = p.scr[FB_SIZE - 1 - k]
      BY <2>2, <3>1, <3>2
    <3>4. p.scr[FB_SIZE - 1 - k] = text[Len(text) - k]
      BY <2>4, <3>1, <3>3 DEF StandsBefore
    <3> QED BY <3>3, <3>4
  <2> QED BY <2>1, <2>5 DEF q
<1> QED BY <1>3, <1>4, NewlineFacts

(* One character more, and it stands. *)
LEMMA PutKeeps ==
  ASSUME NEW scr \in [Cells -> Glyphs], NEW e \in Cells, NEW c \in Glyphs,
         NEW text \in Seq(Characters), StandsBefore(scr, e, text)
  PROVE  StandsBefore([scr EXCEPT ![e] = c], e + 1, Append(text, c))
<1> DEFINE n == Len(text)
           t == Append(text, c)
           s == [scr EXCEPT ![e] = c]
           f == e + 1
<1>1. n \in Nat /\ Len(t) = n + 1 /\ t[n + 1] = c /\ \A i \in 1 .. n : t[i] = text[i]
  BY AppendFacts DEF Characters
<1>2. e \in Nat /\ s[e] = c /\ (\A i \in Cells : i # e => s[i] = scr[i]) /\ f = e + 1
  BY DEF Cells
<1> HIDE DEF n, t, s, f
<1> SUFFICES StandsBefore(s, f, t)
  BY DEF s, t, f
<1>3. SUFFICES ASSUME NEW k \in 0 .. Len(t) - 1, k < f,
                      \A j \in Len(t) - k .. Len(t) : t[j] # Newline
               PROVE  s[f - 1 - k] = t[Len(t) - k]
  BY DEF StandsBefore
<1>4. k \in 0 .. n /\ Len(t) - k = n + 1 - k /\ \A j \in n + 1 - k .. n + 1 : t[j] # Newline
  BY <1>1, <1>3
<1>5. CASE k = 0
  BY <1>1, <1>2, <1>4, <1>5
<1>6. CASE k # 0
  <2> DEFINE i == k - 1
  <2>1. k \in Nat /\ k <= n /\ k < e + 1 /\ k # 0 /\ n \in Nat /\ e \in Nat
    BY <1>1, <1>2, <1>3, <1>4, <1>6
  <2>2. i \in 0 .. n - 1 /\ i < e /\ e - 1 - i = f - 1 - k /\ n - i = n + 1 - k
    BY <1>2, <2>1
  <2> HIDE DEF i
  <2>3. \A j \in n - i .. n : text[j] # Newline
    <3>1. \A j \in n - i .. n : j \in n + 1 - k .. n + 1 /\ j \in 1 .. n
      BY <2>1, <2>2
    <3> QED BY <1>1, <1>4, <3>1
  <2>4. scr[e - 1 - i] = text[n - i]
    BY <2>2, <2>3 DEF StandsBefore, n
  <2>5. e - 1 - i \in Cells /\ e - 1 - i # e /\ n - i \in 1 .. n
    BY <2>1, <2>2, SizeFacts DEF Cells
  <2> QED BY <1>1, <1>2, <1>4, <2>2, <2>4, <2>5
<1> QED BY <1>5, <1>6

(* Nothing, and after a newline nothing of the line before it, has to     *)
(* stand anywhere.                                                         *)
LEMMA NothingStands ==
  ASSUME NEW scr, NEW e
  PROVE  StandsBefore(scr, e, <<>>)
  BY DEF StandsBefore

LEMMA BreakStands ==
  ASSUME NEW scr, NEW e, NEW text \in Seq(Characters)
  PROVE  StandsBefore(scr, e, Append(text, Newline))
<1> DEFINE t == Append(text, Newline)
<1>1. Len(t) \in Nat /\ Len(t) >= 1 /\ t[Len(t)] = Newline
  BY AppendFacts DEF Characters
<1> HIDE DEF t
<1>2. \A k \in 0 .. Len(t) - 1 : Len(t) \in Len(t) - k .. Len(t)
  BY <1>1
<1>3. StandsBefore(scr, e, t)
  BY <1>1, <1>2 DEF StandsBefore
<1> QED BY <1>3 DEF t

(* Where the next character goes: a full line is left first. *)
Room(p) == IF p.x >= Width THEN logger_newline(p) ELSE p

LEMMA RoomFacts ==
  ASSUME NEW p, PageOK(p)
  PROVE  LET q == Room(p) IN
         /\ PageOK(q) /\ q.x < Width
         /\ p.y >= 1 => q.y >= 1
         /\ ~q.scrolled => q.scr = p.scr
<1>1. p.x \in Nat /\ p.y \in 0 .. Height - 1
  BY PageFields
<1>2. CASE p.x >= Width
  <2> DEFINE q == logger_newline(p)
  <2>1. /\ PageOK(q) /\ q.x = 0
        /\ \/ q.y = p.y + 1 /\ q.scr = p.scr
           \/ q.y = Height - 1 /\ q.scrolled = TRUE
    BY NewlineFacts
  <2>2. Room(p) = q
    BY <1>2 DEF Room
  <2> HIDE DEF q
  <2> QED BY <1>1, <2>1, <2>2, SizeFacts
<1>3. CASE ~(p.x >= Width)
  BY <1>1, <1>3, SizeFacts DEF Room
<1> QED BY <1>2, <1>3

LEMMA LogCharFacts ==
  ASSUME NEW p, PageOK(p), NEW c \in Glyphs
  PROVE  LET q == LogChar(p, c)
             r == Room(p) IN
         /\ PageOK(q) /\ q.x = r.x + 1 /\ q.y = r.y /\ q.scrolled = r.scrolled
         /\ q.scr = [r.scr EXCEPT ![End(r)] = c] /\ End(r) \in Cells /\ End(q) = End(r) + 1
<1> DEFINE r == Room(p)
<1>1. PageOK(r) /\ r.x < Width
  BY RoomFacts
<1>2. LogChar(p, c) = [r EXCEPT !.scr = PutCharAtXY(@, r.x, r.y, c), !.x = @ + 1]
  BY SizeFacts DEF LogChar, Room
<1> HIDE DEF r
<1> DEFINE q == [r EXCEPT !.scr = PutCharAtXY(@, r.x, r.y, c), !.x = @ + 1]
<1>3. /\ PageOK(q) /\ q.x = r.x + 1 /\ q.y = r.y /\ q.scrolled = r.scrolled
      /\ q.scr = [r.scr EXCEPT ![End(r)] = c] /\ End(r) \in Cells /\ End(q) = End(r) + 1
  BY <1>1, PutFacts
<1> HIDE DEF q
<1>4. LogChar(p, c) = q
  BY <1>2 DEF q
<1> QED BY <1>3, <1>4 DEF r

(* A turn of the loop ends on a line and, unless it scrolls, leaves line 0 *)
(* alone when it starts below it.                                          *)
LEMMA TurnFacts ==
  ASSUME NEW p, PageOK(p), NEW c \in Characters
  PROVE  LET q == LogChar(p, c) IN
         /\ PageOK(q) /\ q.x <= Width
         /\ p.y >= 1 => q.y >= 1
         /\ p.y >= 1 /\ ~q.scrolled => \A i \in 0 .. Width - 1 : q.scr[i] = p.scr[i]
<1> DEFINE q == LogChar(p, c)
<1>1. /\ p.y \in 0 .. Height - 1 /\ p.scr \in [Cells -> Glyphs]
  BY PageFields
<1>2. CASE c = Newline
  <2> DEFINE o == logger_newline(p)
  <2>1. /\ PageOK(o) /\ o.x = 0
        /\ \/ o.y = p.y + 1 /\ o.scr = p.scr
           \/ o.y = Height - 1 /\ o.scrolled = TRUE
    BY NewlineFacts
  <2>2. q = o
    BY <1>2 DEF LogChar
  <2> HIDE DEF q, o
  <2>3. /\ PageOK(q) /\ q.x <= Width
        /\ p.y >= 1 => q.y >= 1
        /\ p.y >= 1 /\ ~q.scrolled => \A i \in 0 .. Width - 1 : q.scr[i] = p.scr[i]
    BY <1>1, <2>1, <2>2, SizeFacts
  <2> QED BY <2>3 DEF q
<1>3. CASE c # Newline
  <2> DEFINE r == Room(p)
  <2>1. c \in Glyphs
    BY <1>3 DEF Characters
  <2>2. PageOK(r) /\ r.x < Width /\ (p.y >= 1 => r.y >= 1) /\ (~r.scrolled => r.scr = p.scr)
    BY RoomFacts
  <2>3. /\ PageOK(q) /\ q.x = r.x + 1 /\ q.y = r.y /\ q.scrolled = r.scrolled
        /\ q.scr = [r.scr EXCEPT ![End(r)] = c] /\ End(r) \in Cells
    BY <2>1, LogCharFacts
  <2> HIDE DEF q, r
  <2>4. r.x \in Nat /\ r.y \in 0 .. Height - 1 /\ r.scr \in [Cells -> Glyphs]
    BY <2>2, PageFields
  <2>5. q.x <= Width
    BY <2>2, <2>3, <2>4, SizeFacts
  <2>6. ASSUME p.y >= 1, ~q.scrolled, NEW i \in 0 .. Width - 1
        PROVE  q.scr[i] = p.scr[i]
    <3>1. r.scr = p.scr
      BY <2>2, <2>3, <2>6
    <3>2. End(r) >= Width
      BY <2>2, <2>4, <2>6, PlaceFacts DEF End
    <3>3. i \in Cells /\ i # End(r)
      BY <3>2, SizeFacts DEF Cells
    <3> QED BY <2>3, <2>4, <3>1, <3>3
  <2> QED BY <2>2, <2>3, <2>5, <2>6 DEF q
<1> QED BY <1>2, <1>3

LEMMA TurnKeeps ==
  ASSUME NEW p, PageOK(p), NEW c \in Characters, NEW text \in Seq(Characters),
         StandsBefore(p.scr, End(p), text), p.x <= Width \/ text = <<>>
  PROVE  LET q == LogChar(p, c) IN StandsBefore(q.scr, End(q), Append(text, c))
<1> DEFINE q == LogChar(p, c)
<1>1. CASE c = Newline
  <2> HIDE DEF q
  <2>1. StandsBefore(q.scr, End(q), Append(text, c))
    BY <1>1, BreakStands
  <2> QED BY <2>1 DEF q
<1>2. CASE c # Newline
  <2> DEFINE r == Room(p)
  <2>1. c \in Glyphs
    BY <1>2 DEF Characters
  <2>2. PageOK(r)
    BY RoomFacts
  <2>3. q.scr = [r.scr EXCEPT ![End(r)] = c] /\ End(r) \in Cells /\ End(q) = End(r) + 1
    BY <2>1, LogCharFacts
  <2>4. p.x \in Nat /\ r.scr \in [Cells -> Glyphs]
    BY <2>2, PageFields
  <2>5. StandsBefore(r.scr, End(r), text)
    <3>1. CASE p.x < Width
      <4>1. r = p
        BY <2>4, <3>1, SizeFacts DEF Room
      <4> HIDE DEF r
      <4> QED BY <4>1
    <3>2. CASE p.x = Width
      <4>1. r = logger_newline(p)
        BY <3>2, SizeFacts DEF Room
      <4> DEFINE o == logger_newline(p)
      <4>2. StandsBefore(o.scr, End(o), text)
        BY <3>2, NewlineKeeps
      <4> HIDE DEF r, o
      <4>3. r = o
        BY <4>1 DEF o
      <4> QED BY <4>2, <4>3
    <3>3. CASE p.x > Width
      <4>1. text = <<>>
        BY <2>4, <3>3, SizeFacts
      <4> HIDE DEF r
      <4> QED BY <4>1, NothingStands
    <3> QED BY <2>4, <3>1, <3>2, <3>3, SizeFacts
  <2> HIDE DEF q, r
  <2>6. StandsBefore([r.scr EXCEPT ![End(r)] = c], End(r) + 1, Append(text, c))
    BY <2>1, <2>3, <2>4, <2>5, PutKeeps
  <2>7. StandsBefore(q.scr, End(q), Append(text, c))
    BY <2>3, <2>6
  <2> QED BY <2>7 DEF q
<1> QED BY <1>1, <1>2
-----------------------------------------------------------------------------
(* What a prefix does to the page. *)

LEMMA WriteAtFacts ==
  ASSUME NEW scr \in [Cells -> Glyphs], NEW text \in Seq(Glyphs), NEW pos \in Nat
  PROVE  /\ WriteAt(scr, text, pos) \in [Cells -> Glyphs]
         /\ \A i \in Cells : i < pos => WriteAt(scr, text, pos)[i] = scr[i]
         /\ pos + Len(text) <= FB_SIZE
              => StandsBefore(WriteAt(scr, text, pos), pos + Len(text), text)
<1> DEFINE n == Len(text)
           s == WriteAt(scr, text, pos)
           e == pos + n
<1>1. n \in Nat /\ e = pos + n /\ \A i \in 1 .. n : text[i] \in Glyphs
  OBVIOUS
<1>2. s = [i \in Cells |-> IF i >= pos /\ i < e THEN text[i - pos + 1] ELSE scr[i]]
  BY DEF WriteAt
<1> HIDE DEF n, s, e
<1>3. \A i \in Cells : i \in Nat /\ (i >= pos /\ i < e => i - pos + 1 \in 1 .. n)
  BY <1>1 DEF Cells
<1>4. s \in [Cells -> Glyphs]
  BY <1>1, <1>2, <1>3
<1>5. \A i \in Cells : i < pos => s[i] = scr[i]
  BY <1>2, <1>3
<1>6. ASSUME e <= FB_SIZE
      PROVE  StandsBefore(s, e, text)
  <2>1. SUFFICES ASSUME NEW k \in 0 .. Len(text) - 1, k < e,
                        \A j \in Len(text) - k .. Len(text) : text[j] # Newline
                 PROVE  s[e - 1 - k] = text[Len(text) - k]
    BY DEF StandsBefore
  <2> DEFINE i == e - 1 - k
  <2>2. k \in 0 .. n - 1 /\ Len(text) - k = n - k
    BY <1>1, <2>1 DEF n
  <2>3. i \in Cells /\ i >= pos /\ i < e /\ i - pos + 1 = n - k
    BY <1>1, <1>6, <2>2, SizeFacts DEF Cells
  <2> HIDE DEF i
  <2>4. s[i] = text[i - pos + 1]
    BY <1>2, <2>3
  <2> QED BY <2>2, <2>3, <2>4 DEF i
<1> QED BY <1>4, <1>5, <1>6 DEF s, e, n

LEMMA PrefixedFacts ==
  ASSUME NEW p, PageOK(p), NEW prefix \in Seq(Glyphs)
  PROVE  LET q == Prefixed(p, prefix) IN
         /\ PageOK(q) /\ q.x = p.x + Len(prefix) /\ q.y = p.y /\ q.scrolled = p.scrolled
         /\ p.y >= 1 => \A i \in 0 .. Width - 1 : q.scr[i] = p.scr[i]
         /\ q.x <= Width => StandsBefore(q.scr, End(q), prefix)
<1> DEFINE q == Prefixed(p, prefix)
           n == Len(prefix)
           pos == CellAt(p.x, p.y)
           a == p.x + n
<1>1. /\ p.scr \in [Cells -> Glyphs] /\ p.cursor \in Nat /\ p.x \in Nat
      /\ p.y \in 0 .. Height - 1 /\ p.scrolled \in BOOLEAN
  BY PageFields
<1>2. n \in Nat /\ a \in Nat /\ a = p.x + n /\ (prefix # <<>> => n >= 1)
  BY <1>1
<1>3. pos \in Nat /\ (p.y >= 1 => pos >= Width)
  BY <1>1, PlaceFacts
<1>4. CASE prefix = <<>> \/ ~OnScreen(p.x, p.y)
  <2>1. q = [p EXCEPT !.x = a]
    BY <1>4 DEF Prefixed, WriteStringAtXY, PageOK
  <2> HIDE DEF q, a, n
  <2>2. PageOK(q) /\ q.x = a /\ q.y = p.y /\ q.scrolled = p.scrolled /\ q.scr = p.scr
    BY <1>1, <1>2, <2>1 DEF PageOK
  <2>3. a <= Width => prefix = <<>>
    <3>1. prefix # <<>> => p.x >= Width
      BY <1>1, <1>4, SizeFacts DEF OnScreen
    <3> QED BY <1>1, <1>2, <3>1, SizeFacts
  <2>4. StandsBefore(q.scr, End(q), <<>>)
    BY NothingStands
  <2> QED BY <1>2, <2>2, <2>3, <2>4 DEF q, a, n
<1>5. CASE ~(prefix = <<>> \/ ~OnScreen(p.x, p.y))
  <2> DEFINE s == WriteAt(p.scr, prefix, pos)
             e == pos + n
             cursor == IF e > FB_SIZE THEN FB_SIZE ELSE e
  <2>1. q = [p EXCEPT !.scr = s, !.cursor = cursor, !.x = a]
    BY <1>5 DEF Prefixed, WriteStringAtXY, PageOK
  <2>2. /\ s \in [Cells -> Glyphs] /\ \A i \in Cells : i < pos => s[i] = p.scr[i]
        /\ e <= FB_SIZE => StandsBefore(s, e, prefix)
    BY <1>1, <1>3, WriteAtFacts
  <2>3. cursor \in Nat /\ e = pos + n
    BY <1>2, <1>3, SizeFacts
  <2> HIDE DEF q, s, cursor, a, n, pos, e
  <2>4. PageOK(q) /\ q.x = a /\ q.y = p.y /\ q.scrolled = p.scrolled /\ q.scr = s
    BY <1>1, <1>2, <2>1, <2>2, <2>3 DEF PageOK
  <2>5. End(q) = e
    <3>1. \A x, y, w, d \in Nat : y * w + (x + d) = (y * w + x) + d
      BY Z3
    <3> QED BY <1>1, <1>2, <2>3, <2>4, <3>1, ScreenAssumption DEF End, CellAt, pos
  <2>6. a <= Width => e <= FB_SIZE
    BY <1>1, <1>2, <2>4, <2>5, PlaceFacts DEF End
  <2>7. p.y >= 1 => \A i \in 0 .. Width - 1 : s[i] = p.scr[i]
    <3>1. \A i \in 0 .. Width - 1 : i \in Cells /\ i \in Nat /\ i < Width
      BY SizeFacts DEF Cells
    <3>2. p.y >= 1 => \A i \in 0 .. Width - 1 : i < pos
      BY <1>3, <3>1, SizeFacts
    <3> QED BY <2>2, <3>1, <3>2
  <2>8. q.x <= Width => StandsBefore(q.scr, End(q), prefix)
    BY <2>2, <2>4, <2>5, <2>6
  <2> QED BY <1>2, <2>4, <2>7, <2>8 DEF q, a, n
<1> QED BY <1>4, <1>5
-----------------------------------------------------------------------------
(* The page and the state. *)

LEMMA MoveFacts ==
  ASSUME NEW pos \in Nat, fb_move_cursor(pos)
  PROVE  crtc' \in [index : {"high", "low"}, high : 0 .. ByteSize - 1, low : 0 .. ByteSize - 1]
<1>1. \A b \in Nat \ {0} : \A i \in Nat : i % b \in 0 .. b - 1 /\ (i \div b) \in Nat
  BY Z3
<1>2. HighByte(pos) \in 0 .. ByteSize - 1 /\ LowByte(pos) \in 0 .. ByteSize - 1
  BY <1>1, SizeFacts DEF HighByte, LowByte
<1> QED BY <1>2 DEF fb_move_cursor

LEMMA PageFacts ==
  ASSUME TypeOK
  PROVE  /\ PageOK(Page) /\ End(Page) = Place
         /\ Page.scr = cells /\ Page.x = logger_x /\ Page.y = logger_y /\ Page.scrolled = FALSE
<1>1. HwCursor \in Nat
  <2>1. crtc.high \in Nat /\ crtc.low \in Nat
    BY SizeFacts DEF TypeOK, ScreenTypeOK
  <2>2. \A h, b, l \in Nat : h * b + l \in Nat
    BY Z3
  <2> QED BY <2>1, <2>2, SizeFacts DEF HwCursor
<1>2. cells \in [Cells -> Glyphs] /\ logger_x \in Nat /\ logger_y \in 0 .. Height - 1
  BY SizeFacts DEF TypeOK, ScreenTypeOK
<1>3. Page.scr = cells /\ Page.x = logger_x /\ Page.y = logger_y /\ Page.scrolled = FALSE
  BY DEF Page
<1> QED BY <1>1, <1>2, <1>3 DEF Page, PageOK, End, Place

LEMMA ShowFacts ==
  ASSUME NEW p, PageOK(p), p.x <= MaxColumn, ShowPage(p)
  PROVE  /\ ScreenTypeOK' /\ logger_x' \in 0 .. MaxColumn /\ logger_y' \in 0 .. Height - 1
         /\ cells' = p.scr /\ logger_x' = p.x /\ logger_y' = p.y /\ Place' = End(p)
<1>1. /\ p.scr \in [Cells -> Glyphs] /\ p.cursor \in Nat /\ p.x \in Nat
      /\ p.y \in 0 .. Height - 1
  BY PageFields
<1>2. cells' = p.scr /\ fb_move_cursor(p.cursor) /\ logger_x' = p.x /\ logger_y' = p.y
  BY DEF ShowPage
<1>3. crtc' \in [index : {"high", "low"}, high : 0 .. ByteSize - 1, low : 0 .. ByteSize - 1]
  BY <1>1, <1>2, MoveFacts
<1>4. ScreenTypeOK'
  BY <1>1, <1>2, <1>3 DEF ScreenTypeOK
<1>5. p.x \in 0 .. MaxColumn
  BY <1>1, SizeFacts
<1>6. Place' = End(p)
  BY <1>2 DEF Place, End
<1> QED BY <1>1, <1>2, <1>4, <1>5, <1>6

LEMMA UnendedFacts ==
  /\ \A s \in Seq(Characters) : Unended(s \o <<Newline>>) = s
  /\ \A s \in Seq(Glyphs) : Unended(s) = s
<1>1. ASSUME NEW s \in Seq(Characters)
      PROVE  Unended(s \o <<Newline>>) = s
  <2> DEFINE t == s \o <<Newline>>
             n == Len(s)
  <2>1. n \in Nat /\ Len(t) = n + 1 /\ t[n + 1] = Newline /\ SubSeq(t, 1, n) = s
    BY DEF Characters
  <2> HIDE DEF t, n
  <2>2. Len(t) > 0 /\ t[Len(t)] = Newline /\ Len(t) - 1 = n
    BY <2>1
  <2>3. Unended(t) = SubSeq(t, 1, n)
    BY <2>2 DEF Unended
  <2> QED BY <2>1, <2>3 DEF t
<1>2. ASSUME NEW s \in Seq(Glyphs)
      PROVE  Unended(s) = s
  <2>1. Len(s) > 0 => s[Len(s)] \in Glyphs
    OBVIOUS
  <2> QED BY <2>1, SizeFacts DEF Unended
<1> QED BY <1>1, <1>2
-----------------------------------------------------------------------------
(* The actions keep the invariant. *)

LEMMA SaidFacts ==
  ASSUME TypeOK
  PROVE  said \in Seq(Characters) /\ line \in Seq(Characters) /\ turn \in Nat
<1>1. said \in Seq(Characters) /\ line \in Seq(Characters)
  <2>1. Messages \subseteq Seq(Characters) /\ <<>> \in Seq(Characters)
    BY LoggerAssumption DEF Characters
  <2> QED BY <2>1 DEF TypeOK, Characters
<1>2. Len(said) \in Nat
  BY <1>1
<1> QED BY <1>1, <1>2 DEF TypeOK

LEMMA LoopTurn ==
  ASSUME LoggerInv, logger_write_with_color, turn <= Len(said)
  PROVE  LoggerInv'
<1> DEFINE c == said[turn]
           p == LogChar(Page, c)
<1>1. /\ TypeOK /\ Fits /\ MessageStands /\ Sinks /\ Status
  BY DEF LoggerInv
<1>2. /\ turn \in 1 .. Len(said) /\ turn' = turn + 1
      /\ ShowPage(p) /\ intact' = (intact /\ ~p.scrolled)
      /\ line' = line /\ log_level' = log_level /\ calls' = calls /\ blinks' = blinks
      /\ said' = said /\ whole' = whole
  <2>1. Len(said) \in Nat
    BY <1>1, SaidFacts
  <2> QED BY <1>1, <2>1, SaidFacts DEF logger_write_with_color, None
<1>3. said \in Seq(Characters) /\ line \in Seq(Characters) /\ c \in Characters
  BY <1>1, <1>2, SaidFacts
<1>4. /\ PageOK(Page) /\ End(Page) = Place
      /\ Page.scr = cells /\ Page.x = logger_x /\ Page.y = logger_y
  BY <1>1, PageFacts
<1>5. /\ PageOK(p) /\ p.x <= Width /\ (logger_y >= 1 => p.y >= 1)
      /\ logger_y >= 1 /\ ~p.scrolled => \A i \in 0 .. Width - 1 : p.scr[i] = cells[i]
  <2>1. /\ PageOK(p) /\ p.x <= Width /\ (Page.y >= 1 => p.y >= 1)
        /\ Page.y >= 1 /\ ~p.scrolled => \A i \in 0 .. Width - 1 : p.scr[i] = Page.scr[i]
    BY <1>3, <1>4, TurnFacts
  <2> QED BY <1>4, <2>1
<1>6. ASSUME NEW text \in Seq(Characters), StandsBefore(cells, Place, text),
             logger_x <= Width \/ text = <<>>
      PROVE  StandsBefore(p.scr, End(p), Append(text, c))
  <2>1. StandsBefore(Page.scr, End(Page), text) /\ (Page.x <= Width \/ text = <<>>)
    BY <1>4, <1>6
  <2> HIDE DEF c
  <2> QED BY <1>3, <1>4, <2>1, TurnKeeps
<1> HIDE DEF p
<1>7. p.x <= MaxColumn
  <2>1. p.x \in Nat
    BY <1>5, PageFields
  <2> QED BY <1>5, <2>1, SizeFacts
<1>8. /\ ScreenTypeOK' /\ logger_x' \in 0 .. MaxColumn /\ logger_y' \in 0 .. Height - 1
      /\ cells' = p.scr /\ logger_x' = p.x /\ logger_y' = p.y /\ Place' = End(p)
  BY <1>2, <1>5, <1>7, ShowFacts
<1>9. /\ Written = SubSeq(said, 1, turn - 1) /\ Written' = Append(Written, c)
      /\ Written \in Seq(Characters) /\ Len(Written) = turn - 1 /\ turn' # None /\ turn # None
  <2>1. turn # None /\ turn' # None /\ turn' - 1 = turn
    BY <1>2 DEF None
  <2>2. Written = SubSeq(said, 1, turn - 1) /\ Written' = SubSeq(said, 1, turn)
    BY <1>2, <2>1 DEF Written
  <2> QED BY <1>2, <1>3, <2>1, <2>2, UpTo
<1> HIDE DEF c
<1>10. TypeOK'
  <2>1. turn' \in 0 .. Len(said') + 1
    BY <1>2, <1>3
  <2>2. intact' \in BOOLEAN
    BY <1>2
  <2> QED BY <1>1, <1>2, <1>8, <2>1, <2>2 DEF TypeOK
<1>11. Fits'
  BY <1>5, <1>8 DEF Fits
<1>12. MessageStands'
  <2> SUFFICES ASSUME Steady' PROVE StandsBefore(p.scr, End(p), Append(Written, c))
    BY <1>8, <1>9 DEF MessageStands
  <2>1. StandsBefore(cells, Place, Written)
    BY <1>1, <1>2 DEF MessageStands, Steady
  <2>2. logger_x <= Width \/ Written = <<>>
    <3>1. CASE turn > 1
      BY <1>1, <1>9, <3>1 DEF Fits
    <3>2. CASE ~(turn > 1)
      <4>1. turn = 1
        BY <1>2, <3>2
      <4>2. Len(Written) = 0
        BY <1>9, <4>1
      <4>3. \A t \in Seq(Characters) : Len(t) = 0 => t = <<>>
        OBVIOUS
      <4> QED BY <1>9, <4>2, <4>3
    <3> QED BY <3>1, <3>2
  <2> QED BY <1>6, <1>9, <2>1, <2>2
<1>13. Sinks'
  <2> SUFFICES ASSUME Steady', whole'
               PROVE  Len(said) <= MaxSerial /\ StandsBefore(p.scr, End(p), line \o Written')
    BY <1>2, <1>8, <1>9 DEF Sinks
  <2>1. Len(said) <= MaxSerial /\ StandsBefore(cells, Place, line \o Written)
    BY <1>1, <1>2, <1>9 DEF Sinks, Steady
  <2>2. logger_x <= Width
    BY <1>1, <1>2, <1>9 DEF Fits
  <2>3. line \o Written \in Seq(Characters)
    BY <1>3, <1>9
  <2>4. StandsBefore(p.scr, End(p), Append(line \o Written, c))
    BY <1>6, <2>1, <2>2, <2>3
  <2>5. line \o Written' = Append(line \o Written, c)
    <3>1. line \in Seq(Characters) /\ Written \in Seq(Characters) /\ c \in Characters
      BY <1>3, <1>9
    <3>2. line \o Append(Written, c) = Append(line \o Written, c)
      BY <3>1, OneMore
    <3>3. Written' = Append(Written, c)
      BY <1>9
    <3> QED BY <3>2, <3>3, Zenon
  <2> QED BY <2>1, <2>4, <2>5
<1>14. Status'
  <2> SUFFICES ASSUME intact' = TRUE
               PROVE  p.y >= 1 /\ \A i \in 0 .. Width - 1 : p.scr[i] = StatusLine[i]
    BY <1>2, <1>8 DEF Status, StatusLineStands, TypeOK
  <2>1. intact /\ ~p.scrolled
    BY <1>2
  <2>2. logger_y >= 1 /\ \A i \in 0 .. Width - 1 : cells[i] = StatusLine[i]
    BY <1>1, <2>1 DEF Status, StatusLineStands
  <2> QED BY <1>5, <2>1, <2>2
<1> QED BY <1>10, <1>11, <1>12, <1>13, <1>14 DEF LoggerInv

LEMMA LoopEnd ==
  ASSUME LoggerInv, logger_write_with_color, turn > Len(said)
  PROVE  LoggerInv'
<1> DEFINE sent == SubSeq(said, 1, IF Len(said) < MaxSerial THEN Len(said) ELSE MaxSerial)
<1>1. /\ TypeOK /\ Fits /\ MessageStands /\ Sinks /\ Status
  BY DEF LoggerInv
<1>2. said \in Seq(Characters) /\ line \in Seq(Characters) /\ turn \in Nat /\ Len(said) \in Nat
  BY <1>1, SaidFacts
<1>3. /\ turn # None /\ turn' = None /\ line' = (line \o sent) \o <<Newline>>
      /\ cells' = cells /\ crtc' = crtc /\ logger_x' = logger_x /\ logger_y' = logger_y
      /\ intact' = intact /\ log_level' = log_level /\ calls' = calls /\ blinks' = blinks
      /\ said' = said /\ whole' = whole
  <2>1. ~(turn <= Len(said))
    BY <1>2
  <2> QED BY <2>1 DEF logger_write_with_color, screenVars
<1>4. Written = said /\ Written' = said
  <2>1. turn - 1 = Len(said)
    BY <1>1, <1>2 DEF TypeOK
  <2>2. SubSeq(said, 1, Len(said)) = said
    BY <1>2
  <2> QED BY <1>3, <2>1, <2>2 DEF Written
<1>5. sent \in Seq(Characters) /\ (Len(said) <= MaxSerial => sent = said)
  <2>1. MaxSerial \in Nat
    BY LoggerAssumption
  <2>2. sent \in Seq(Characters)
    BY <1>2, <2>1
  <2>3. ASSUME Len(said) <= MaxSerial
        PROVE  sent = said
    <3>1. sent = SubSeq(said, 1, Len(said))
      BY <1>2, <2>1, <2>3
    <3>2. SubSeq(said, 1, Len(said)) = said
      BY <1>2
    <3> QED BY <3>1, <3>2
  <2> QED BY <2>2, <2>3
<1> HIDE DEF sent
<1>6. line \o sent \in Seq(Characters) /\ line' \in Seq(Characters)
      /\ Unended(line') = line \o sent
  <2>1. line \o sent \in Seq(Characters)
    BY <1>2, <1>5
  <2>2. Newline \in Characters
    BY DEF Characters
  <2> HIDE DEF Characters
  <2>3. (line \o sent) \o <<Newline>> \in Seq(Characters)
    BY <2>1, <2>2
  <2> QED BY <1>3, <2>1, <2>3, UnendedFacts
<1>7. TypeOK'
  <2>1. turn' \in 0 .. Len(said') + 1
    BY <1>2, <1>3 DEF None
  <2> QED BY <1>1, <1>3, <1>6, <2>1 DEF TypeOK, ScreenTypeOK, Characters
<1>8. Fits'
  BY <1>3 DEF Fits
<1>9. MessageStands'
  BY <1>1, <1>3, <1>4 DEF MessageStands, Steady, Place
<1>10. Sinks'
  <2> SUFFICES ASSUME Steady', whole' PROVE StandsBefore(cells, Place, line \o sent)
    BY <1>3, <1>6 DEF Sinks, Place
  <2>1. Len(said) <= MaxSerial /\ StandsBefore(cells, Place, line \o said)
    BY <1>1, <1>3, <1>4 DEF Sinks, Steady
  <2> QED BY <1>5, <2>1
<1>11. Status'
  BY <1>1, <1>3 DEF Status, StatusLineStands
<1> QED BY <1>7, <1>8, <1>9, <1>10, <1>11 DEF LoggerInv

(* A call that logs, up to the loop. *)
LEMMA Reported ==
  ASSUME LoggerInv, Call, NEW level \in Levels, NEW msg \in Messages \cup {NoMessage},
         Report(level, msg), blinks' \in {blinks, Blinks + 1}
  PROVE  LoggerInv'
<1> DEFINE prefix == PrefixOf[level]
           p == Prefixed(Page, prefix)
<1>1. /\ TypeOK /\ Fits /\ MessageStands /\ Sinks /\ Status
  BY DEF LoggerInv
<1>2. /\ p.x <= MaxColumn /\ ShowPage(p) /\ line' = prefix
      /\ turn' = IF msg = NoMessage THEN None ELSE 1
      /\ said' = IF msg = NoMessage THEN <<>> ELSE msg
      /\ whole' = (Len(said') <= MaxSerial /\ logger_x + Len(prefix) <= Width)
      /\ log_level' = log_level /\ intact' = intact
  BY DEF Report
<1>3. calls < MaxCalls /\ calls' = calls + 1
  BY DEF Call
<1>4. prefix \in Seq(Glyphs)
  BY LoggerAssumption
<1>5. PageOK(Page) /\ Page.scr = cells /\ Page.x = logger_x /\ Page.y = logger_y
  BY <1>1, PageFacts
<1>6. /\ PageOK(p) /\ p.x = logger_x + Len(prefix) /\ p.y = logger_y
      /\ logger_y >= 1 => \A i \in 0 .. Width - 1 : p.scr[i] = cells[i]
      /\ p.x <= Width => StandsBefore(p.scr, End(p), prefix)
  <2> HIDE DEF prefix
  <2>1. /\ PageOK(p) /\ p.x = Page.x + Len(prefix) /\ p.y = Page.y
        /\ Page.y >= 1 => \A i \in 0 .. Width - 1 : p.scr[i] = Page.scr[i]
        /\ p.x <= Width => StandsBefore(p.scr, End(p), prefix)
    BY <1>4, <1>5, PrefixedFacts
  <2> QED BY <1>5, <2>1
<1> HIDE DEF p, prefix
<1>7. /\ ScreenTypeOK' /\ logger_x' \in 0 .. MaxColumn /\ logger_y' \in 0 .. Height - 1
      /\ cells' = p.scr /\ logger_x' = p.x /\ logger_y' = p.y /\ Place' = End(p)
  BY <1>2, <1>6, ShowFacts
<1>8. said' \in Messages \cup {<<>>} /\ Written' = <<>>
  <2>1. CASE msg = NoMessage
    BY <1>2, <2>1 DEF Written
  <2>2. CASE msg # NoMessage
    <3>1. said' = msg /\ msg \in Messages /\ turn' = 1 /\ turn' # None
      BY <1>2, <2>2 DEF None
    <3>2. msg \in Seq(Glyphs \cup {Newline})
      BY <3>1, LoggerAssumption
    <3>3. SubSeq(msg, 1, 1 - 1) = <<>>
      BY <3>2
    <3> QED BY <3>1, <3>3 DEF Written
  <2> QED BY <2>1, <2>2
<1>9. TypeOK'
  <2>1. Len(said') \in Nat
    <3>1. /\ Messages \subseteq Seq(Glyphs \cup {Newline})
          /\ <<>> \in Seq(Glyphs \cup {Newline})
      BY LoggerAssumption
    <3>2. said' \in Seq(Glyphs \cup {Newline})
      BY <1>8, <3>1
    <3> QED BY <3>2
  <2>2. turn' \in 0 .. Len(said') + 1
    BY <1>2, <2>1 DEF None
  <2>3. calls' \in 0 .. MaxCalls
    BY <1>1, <1>3, LoggerAssumption DEF TypeOK
  <2>4. line' \in Seq(Glyphs \cup {Newline})
    BY <1>2, <1>4
  <2>5. whole' \in BOOLEAN /\ intact' \in BOOLEAN /\ log_level' \in Levels
    BY <1>1, <1>2 DEF TypeOK
  <2>6. blinks' \in 0 .. Blinks + 1
    BY <1>1, LoggerAssumption DEF TypeOK
  <2> QED BY <1>7, <1>8, <2>2, <2>3, <2>4, <2>5, <2>6 DEF TypeOK
<1>10. Fits'
  <2> SUFFICES ASSUME turn' # None, turn' > 1 \/ whole' PROVE p.x <= Width
    BY <1>7 DEF Fits
  <2>1. whole' = TRUE
    BY <1>2, <1>9 DEF TypeOK, None
  <2> QED BY <1>2, <1>6, <2>1
<1>11. MessageStands'
  BY <1>8, NothingStands DEF MessageStands
<1>12. Sinks'
  <2> SUFFICES ASSUME whole' = TRUE
               PROVE  IF turn' = None THEN StandsBefore(p.scr, End(p), Unended(line'))
                      ELSE /\ Len(said') <= MaxSerial
                           /\ StandsBefore(p.scr, End(p), line' \o Written')
    BY <1>7, <1>9 DEF Sinks, TypeOK
  <2>1. Len(said') <= MaxSerial /\ StandsBefore(p.scr, End(p), prefix)
    BY <1>2, <1>6
  <2>2. Unended(line') = prefix
    BY <1>2, <1>4, UnendedFacts
  <2>3. line' \o Written' = prefix
    BY <1>2, <1>4, <1>8
  <2> QED BY <2>1, <2>2, <2>3
<1>13. Status'
  BY <1>1, <1>2, <1>6, <1>7 DEF Status, StatusLineStands
<1> QED BY <1>9, <1>10, <1>11, <1>12, <1>13 DEF LoggerInv

LEMMA Logging ==
  ASSUME LoggerInv, NEW msg \in Messages \cup {NoMessage},
         kdebug(msg) \/ klog(msg) \/ kwarn(msg) \/ kerror(msg) \/ kprintf(msg) \/ kfatal(msg)
  PROVE  LoggerInv'
<1>1. DEBUG \in Levels /\ INFO \in Levels /\ WARN \in Levels /\ ERROR \in Levels /\ FATAL \in Levels
  BY DEF Levels, DEBUG, INFO, WARN, ERROR, FATAL
<1>2. ASSUME NEW level \in Levels, Log(level, msg)
      PROVE  LoggerInv'
  <2>1. Call /\ Report(level, msg) /\ blinks' = blinks
    BY <1>2 DEF Log
  <2> QED BY <2>1, Reported
<1>3. ASSUME kfatal(msg)
      PROVE  LoggerInv'
  <2>1. Call /\ Report(FATAL, msg) /\ blinks' = Blinks + 1
    BY <1>3 DEF kfatal
  <2> QED BY <1>1, <2>1, Reported
<1> QED BY <1>1, <1>2, <1>3 DEF kdebug, klog, kwarn, kerror, kprintf

(* The calls that log no message. *)
LEMMA Quiet ==
  ASSUME turn' = None, said' = <<>>, whole' = FALSE
  PROVE  Fits' /\ MessageStands' /\ Sinks'
<1>1. Written' = <<>>
  BY DEF Written
<1>2. StandsBefore(cells', Place', <<>>)
  BY NothingStands
<1> QED BY <1>1, <1>2 DEF Fits, MessageStands, Sinks

LEMMA Initialised ==
  ASSUME LoggerInv, logger_init
  PROVE  LoggerInv'
<1>1. TypeOK
  BY DEF LoggerInv
<1>2. /\ turn = None /\ calls < MaxCalls /\ calls' = calls + 1
      /\ cells' = StatusLine /\ fb_move_cursor(TitleColumn + Len(Title))
      /\ logger_x' = 0 /\ logger_y' = 1
      /\ line' = <<Newline>> /\ said' = <<>> /\ whole' = FALSE /\ turn' = None /\ intact' = TRUE
      /\ log_level' = log_level /\ blinks' = blinks
  BY DEF logger_init, Call, Silent
<1>3. StatusLine \in [Cells -> Glyphs]
  <2>1. FillLine(Cleared, 0, Bar) \in [Cells -> Glyphs]
    BY SizeFacts DEF FillLine, Cleared
  <2> QED BY <2>1, WriteAtFacts, LoggerAssumption DEF StatusLine
<1>4. ScreenTypeOK'
  <2>1. TitleColumn + Len(Title) \in Nat
    BY LoggerAssumption
  <2>2. crtc' \in [index : {"high", "low"}, high : 0 .. ByteSize - 1, low : 0 .. ByteSize - 1]
    BY <1>2, <2>1, MoveFacts
  <2> QED BY <1>2, <1>3, <2>2 DEF ScreenTypeOK
<1>5. TypeOK'
  <2>1. calls' \in 0 .. MaxCalls /\ logger_x' \in 0 .. MaxColumn /\ logger_y' \in 0 .. Height - 1
    BY <1>1, <1>2, SizeFacts, LoggerAssumption DEF TypeOK
  <2>2. turn' \in 0 .. Len(said') + 1 /\ line' \in Seq(Glyphs \cup {Newline})
    BY <1>2 DEF None
  <2> QED BY <1>1, <1>2, <1>4, <2>1, <2>2 DEF TypeOK
<1>6. Status'
  BY <1>2 DEF Status, StatusLineStands, StatusLine
<1> QED BY <1>2, <1>5, <1>6, Quiet DEF LoggerInv

LEMMA LevelSet ==
  ASSUME LoggerInv, NEW level \in SetLevels, logger_set_level(level)
  PROVE  LoggerInv'
<1>1. /\ TypeOK /\ Fits /\ MessageStands /\ Sinks /\ Status
  BY DEF LoggerInv
<1>2. /\ calls < MaxCalls /\ calls' = calls + 1
      /\ log_level' = IF level \in Levels THEN level ELSE log_level
      /\ cells' = cells /\ crtc' = crtc /\ logger_x' = logger_x /\ logger_y' = logger_y
      /\ turn' = turn /\ line' = line /\ blinks' = blinks
      /\ said' = said /\ whole' = whole /\ intact' = intact
  BY DEF logger_set_level, Call, screenVars
<1>3. log_level' \in Levels /\ calls' \in 0 .. MaxCalls
  BY <1>1, <1>2, LoggerAssumption DEF TypeOK
<1>4. TypeOK'
  BY <1>1, <1>2, <1>3 DEF TypeOK, ScreenTypeOK
<1>5. Fits' /\ MessageStands'
  BY <1>1, <1>2 DEF Fits, MessageStands, Steady, Place, Written
<1>6. Sinks'
  BY <1>1, <1>2 DEF Sinks, Steady, Place, Written
<1>7. Status'
  BY <1>1, <1>2 DEF Status, StatusLineStands
<1> QED BY <1>4, <1>5, <1>6, <1>7 DEF LoggerInv

LEMMA PlaceSet ==
  ASSUME LoggerInv, NEW place \in SetPlaces, logger_set_cursor_pos(place[1], place[2])
  PROVE  LoggerInv'
<1>1. TypeOK /\ Status
  BY DEF LoggerInv
<1>2. /\ turn = None /\ calls < MaxCalls /\ calls' = calls + 1 /\ OnScreen(place[1], place[2])
      /\ logger_x' = place[1] /\ logger_y' = place[2]
      /\ line' = <<>> /\ said' = <<>> /\ whole' = FALSE /\ turn' = None
      /\ intact' = (intact /\ place[2] # 0)
      /\ cells' = cells /\ crtc' = crtc /\ log_level' = log_level /\ blinks' = blinks
  BY DEF logger_set_cursor_pos, Call, Silent, screenVars
<1>3. place[1] \in Nat /\ place[2] \in Nat
  BY LoggerAssumption
<1>4. TypeOK'
  <2>1. logger_x' \in 0 .. MaxColumn /\ logger_y' \in 0 .. Height - 1
    BY <1>2, <1>3, SizeFacts DEF OnScreen
  <2>2. calls' \in 0 .. MaxCalls
    BY <1>1, <1>2, LoggerAssumption DEF TypeOK
  <2>3. turn' \in 0 .. Len(said') + 1 /\ line' \in Seq(Glyphs \cup {Newline})
    BY <1>2 DEF None
  <2>4. intact' \in BOOLEAN
    BY <1>2
  <2> QED BY <1>1, <1>2, <2>1, <2>2, <2>3, <2>4 DEF TypeOK, ScreenTypeOK
<1>5. Status'
  <2> SUFFICES ASSUME intact' = TRUE
               PROVE  logger_y' >= 1 /\ \A i \in 0 .. Width - 1 : cells[i] = StatusLine[i]
    BY <1>2, <1>4 DEF Status, StatusLineStands, TypeOK
  <2>1. intact /\ place[2] # 0
    BY <1>2
  <2> QED BY <1>1, <1>2, <1>3, <2>1 DEF Status, StatusLineStands
<1> QED BY <1>2, <1>4, <1>5, Quiet DEF LoggerInv

LEMMA ClearedBelow ==
  ASSUME LoggerInv, logger_clear
  PROVE  LoggerInv'
<1>1. TypeOK /\ Status
  BY DEF LoggerInv
<1>2. /\ turn = None /\ calls < MaxCalls /\ calls' = calls + 1
      /\ cells' = BelowStatus(cells) /\ logger_x' = 0 /\ logger_y' = 1
      /\ line' = <<Newline>> /\ said' = <<>> /\ whole' = FALSE /\ turn' = None
      /\ crtc' = crtc /\ log_level' = log_level /\ blinks' = blinks /\ intact' = intact
  BY DEF logger_clear, Call, Silent
<1>3. cells \in [Cells -> Glyphs]
  BY <1>1 DEF TypeOK, ScreenTypeOK
<1>4. BelowStatus(cells) = [i \in Cells |->
        IF i % Width \in 0 .. Width - 1 /\ i \div Width \in 1 .. Height - 1
        THEN Blank ELSE cells[i]]
  BY SizeFacts DEF BelowStatus, FillArea, OnScreen
<1>5. BelowStatus(cells) \in [Cells -> Glyphs]
  BY <1>3, <1>4, SizeFacts
<1>6. \A i \in 0 .. Width - 1 : BelowStatus(cells)[i] = cells[i]
  <2>1. \A w \in Nat \ {0} : \A i \in 0 .. w - 1 : i \div w = 0
    BY Z3
  <2>2. \A i \in 0 .. Width - 1 : i \in Cells /\ i \div Width \notin 1 .. Height - 1
    BY <2>1, SizeFacts DEF Cells
  <2> QED BY <1>4, <2>2
<1> HIDE DEF BelowStatus
<1>7. TypeOK'
  <2>1. calls' \in 0 .. MaxCalls /\ logger_x' \in 0 .. MaxColumn /\ logger_y' \in 0 .. Height - 1
    BY <1>1, <1>2, SizeFacts, LoggerAssumption DEF TypeOK
  <2>2. turn' \in 0 .. Len(said') + 1 /\ line' \in Seq(Glyphs \cup {Newline})
    BY <1>2 DEF None
  <2> QED BY <1>1, <1>2, <1>5, <2>1, <2>2 DEF TypeOK, ScreenTypeOK
<1>8. Status'
  BY <1>1, <1>2, <1>6 DEF Status, StatusLineStands
<1> QED BY <1>2, <1>7, <1>8, Quiet DEF LoggerInv

LEMMA Blinking ==
  ASSUME LoggerInv, FatalBlink
  PROVE  LoggerInv'
<1>1. TypeOK
  BY DEF LoggerInv
<1>2. /\ turn = None /\ blinks > 1 /\ blinks' = blinks - 1
      /\ cells' = Cleared /\ fb_move_cursor(0)
      /\ line' = line /\ said' = <<>> /\ whole' = FALSE /\ turn' = None /\ intact' = FALSE
      /\ log_level' = log_level /\ calls' = calls
      /\ logger_x' = logger_x /\ logger_y' = logger_y
  BY DEF FatalBlink, Silent
<1>3. ScreenTypeOK'
  <2>1. Cleared \in [Cells -> Glyphs]
    BY SizeFacts DEF Cleared
  <2>2. crtc' \in [index : {"high", "low"}, high : 0 .. ByteSize - 1, low : 0 .. ByteSize - 1]
    BY <1>2, MoveFacts
  <2> QED BY <1>2, <2>1, <2>2 DEF ScreenTypeOK
<1>4. TypeOK'
  <2>1. blinks' \in 0 .. Blinks + 1
    BY <1>1, <1>2, LoggerAssumption DEF TypeOK
  <2>2. turn' \in 0 .. Len(said') + 1
    BY <1>2 DEF None
  <2> QED BY <1>1, <1>2, <1>3, <2>1, <2>2 DEF TypeOK
<1>5. Status'
  BY <1>2 DEF Status
<1> QED BY <1>2, <1>4, <1>5, Quiet DEF LoggerInv
-----------------------------------------------------------------------------
LEMMA LoggerStart == Init => LoggerInv
<1> SUFFICES ASSUME Init PROVE LoggerInv
  OBVIOUS
<1>1. /\ cells = Cleared /\ crtc = [index |-> "low", high |-> 0, low |-> 0]
      /\ log_level = DEBUG /\ logger_x = 0 /\ logger_y = 1
      /\ turn = None /\ line = <<>> /\ calls = 0 /\ blinks = None
      /\ said = <<>> /\ whole = FALSE /\ intact = FALSE
  BY DEF Init
<1>2. ScreenTypeOK
  <2>1. Cleared \in [Cells -> Glyphs]
    BY SizeFacts DEF Cleared
  <2> QED BY <1>1, <2>1, SizeFacts DEF ScreenTypeOK
<1>3. TypeOK
  <2>1. logger_x \in 0 .. MaxColumn /\ logger_y \in 0 .. Height - 1
    BY <1>1, SizeFacts
  <2>2. calls \in 0 .. MaxCalls /\ blinks \in 0 .. Blinks + 1 /\ turn \in 0 .. Len(said) + 1
    BY <1>1, LoggerAssumption DEF None
  <2>3. log_level \in Levels
    BY <1>1 DEF Levels, DEBUG, FATAL
  <2>4. line \in Seq(Glyphs \cup {Newline}) /\ said \in Messages \cup {<<>>}
    BY <1>1
  <2>5. whole \in BOOLEAN /\ intact \in BOOLEAN
    BY <1>1
  <2> QED BY <1>2, <2>1, <2>2, <2>3, <2>4, <2>5 DEF TypeOK
<1>4. Written = <<>> /\ StandsBefore(cells, Place, <<>>)
  BY <1>1, NothingStands DEF Written
<1> QED BY <1>1, <1>3, <1>4 DEF LoggerInv, Fits, MessageStands, Sinks, Status

LEMMA LoggerStep == LoggerInv /\ [Next]_vars => LoggerInv'
<1> SUFFICES ASSUME LoggerInv, [Next]_vars PROVE LoggerInv'
  OBVIOUS
<1>1. CASE logger_write_with_color
  <2>1. Len(said) \in Nat /\ turn \in Nat
    BY SaidFacts DEF LoggerInv
  <2>2. turn <= Len(said) \/ turn > Len(said)
    BY <2>1
  <2> QED BY <1>1, <2>2, LoopTurn, LoopEnd
<1>2. CASE FatalBlink
  BY <1>2, Blinking
<1>3. CASE logger_init
  BY <1>3, Initialised
<1>4. CASE logger_clear
  BY <1>4, ClearedBelow
<1>5. CASE \E level \in SetLevels : logger_set_level(level)
  BY <1>5, LevelSet
<1>6. CASE \E place \in SetPlaces : logger_set_cursor_pos(place[1], place[2])
  BY <1>6, PlaceSet
<1>7. CASE \E msg \in Messages \cup {NoMessage} :
             kdebug(msg) \/ klog(msg) \/ kwarn(msg) \/ kerror(msg) \/ kprintf(msg) \/ kfatal(msg)
  BY <1>7, Logging
<1>8. CASE UNCHANGED vars
  <2>1. /\ cells' = cells /\ crtc' = crtc /\ log_level' = log_level
        /\ logger_x' = logger_x /\ logger_y' = logger_y /\ turn' = turn /\ line' = line
        /\ calls' = calls /\ blinks' = blinks
        /\ said' = said /\ whole' = whole /\ intact' = intact
    BY <1>8 DEF vars, screenVars, loggerVars
  <2>2. TypeOK' = TypeOK /\ Fits' = Fits /\ Status' = Status
    BY <2>1 DEF TypeOK, ScreenTypeOK, Fits, Status, StatusLineStands
  <2>3. MessageStands' = MessageStands /\ Sinks' = Sinks
    BY <2>1 DEF MessageStands, Sinks, Steady, Place, Written
  <2> QED BY <2>2, <2>3 DEF LoggerInv
<1> QED BY <1>1, <1>2, <1>3, <1>4, <1>5, <1>6, <1>7, <1>8 DEF Next

LEMMA LoggerKept == Spec => []LoggerInv
<1> QED BY LoggerStart, LoggerStep, PTL DEF Spec

(* The variables hold values of their types: above all, the logger's line  *)
(* is one of the screen's after every newline, scroll and clear.           *)
THEOREM TypeCorrect == Spec => []TypeOK
<1>1. LoggerInv => TypeOK
  BY DEF LoggerInv
<1> QED BY <1>1, LoggerKept, PTL

(* The last line of what has been written of a message stands complete     *)
(* before the logger's place, on a screen of any size and for messages and *)
(* prefixes of any length.                                                 *)
THEOREM MessageAlwaysShown == Spec => []MessageStands
<1>1. LoggerInv => MessageStands
  BY DEF LoggerInv
<1> QED BY <1>1, LoggerKept, PTL

(* The screen shows the last line that went down the serial line, prefix   *)
(* included, when the prefix fits on its line and serial_write sends all   *)
(* of the message.                                                         *)
THEOREM SinksAlwaysAgree == Spec => []SinksAgree
<1>1. LoggerInv => SinksAgree
  BY DEF LoggerInv, Sinks, SinksAgree
<1> QED BY <1>1, LoggerKept, PTL

(* The status line stays until the screen scrolls or a caller takes line 0. *)
THEOREM StatusLineAlwaysStands == Spec => []StatusLineStands
<1>1. LoggerInv => StatusLineStands
  BY DEF LoggerInv, Status, StatusLineStands
<1> QED BY <1>1, LoggerKept, PTL
=============================================================================
