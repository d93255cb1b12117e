------------------------------- MODULE Logger -------------------------------
(***************************************************************************)
(* The logger of logger.c: messages with a prefix per level, shown on the  *)
(* screen at a cursor of the logger's own and sent down the serial line.   *)
(* A message goes through character by character, breaking and scrolling   *)
(* lines as it goes; a prefix is written in one go and not broken.  A call *)
(* is one action, but for the loop over the characters of its message,     *)
(* which takes a step for each turn: the logger runs on one thread, and no *)
(* handler calls it.                                                       *)
(***************************************************************************)
EXTENDS Screen

CONSTANTS
  Newline,       \* the character '\n', which never gets on the screen
  Bar,           \* the character the status line is filled with
  Title,         \* the text on the status line, written from column TitleColumn
  TitleColumn,   \* 2
  PrefixOf,      \* the prefix of each level but INFO: "[DEBUG] " and so on
  Messages,      \* the messages logged in this model
  NoMessage,     \* the null pointer
  SetLevels,     \* the levels and
  SetPlaces,     \* the places <<x, y>> that callers set in this model
  MaxSerial,     \* what serial_write sends of a message at most (256)
  MaxCalls,      \* bound: the calls made
  Blinks,        \* how often kfatal blinks (5)
  MaxColumn      \* bound: logger_x, which empty messages with a prefix push on and on

DEBUG == 0
INFO == 1
WARN == 2
ERROR == 3
FATAL == 4

Levels == DEBUG .. FATAL

ASSUME LoggerAssumption ==
  /\ Newline \notin Glyphs /\ Bar \in Glyphs
  /\ Title \in Seq(Glyphs) /\ TitleColumn \in Nat /\ TitleColumn + Len(Title) <= Width
  /\ PrefixOf \in [Levels -> Seq(Glyphs)] /\ PrefixOf[INFO] = <<>>
  /\ Messages \subseteq Seq(Glyphs \cup {Newline})
  /\ NoMessage \notin Messages /\ SetLevels \subseteq Nat /\ SetPlaces \subseteq Nat \X Nat
  /\ Height > 1 /\ MaxSerial \in Nat /\ Blinks \in Nat /\ MaxCalls \in Nat
  /\ MaxColumn \in Nat /\ MaxColumn >= Width

VARIABLES
  log_level, logger_x, logger_y,
  turn,     \* the character the loop over a message is at; None outside of it
  line,     \* what the last call has sent down the serial line
  calls,    \* how many calls have been made
  blinks,   \* how many times kfatal has still to blink; None when it was not called
  said,     \* the message that is being logged, or was logged last
  whole,    \* history: its prefix fitted on the line, and all of it within MaxSerial
  intact    \* history: nothing scrolled and nobody took line 0 since logger_init

loggerVars == <<log_level, logger_x, logger_y, turn, line, calls, blinks>>
vars == <<screenVars, loggerVars, said, whole, intact>>

None == 0
Running == blinks = None

(* The logger is called. *)
Call == Running /\ turn = None /\ calls < MaxCalls /\ calls' = calls + 1
-----------------------------------------------------------------------------
(* The logger's page: video memory, the visible cursor, the logger's place *)
(* and whether the screen has scrolled.                                    *)
Page == [scr |-> cells, cursor |-> HwCursor, x |-> logger_x, y |-> logger_y, scrolled |-> FALSE]

(* fb_write_string_at_xy *)
WriteStringAtXY(p, text) ==
  IF text = <<>> \/ ~OnScreen(p.x, p.y) THEN p
  ELSE LET pos == CellAt(p.x, p.y)
           end == pos + Len(text)
       IN  [p EXCEPT !.scr = WriteAt(@, text, pos),
                     !.cursor = IF end > FB_SIZE THEN FB_SIZE ELSE end]

(* Mutant: the next line is the last one's place, but nothing scrolls. *)
logger_newlineStuck(p) ==
  [p EXCEPT !.x = 0, !.y = IF @ + 1 < Height THEN @ + 1 ELSE Height - 1]

(* Mutant: the last line is not looked for. *)
logger_newlineUnbounded(p) == [p EXCEPT !.x = 0, !.y = @ + 1]

logger_newline(p) ==
  IF p.y + 1 < Height THEN [p EXCEPT !.x = 0, !.y = @ + 1]
  ELSE [scr |-> Scrolled(p.scr), cursor |-> FB_SIZE - Width,
        x |-> 0, y |-> Height - 1, scrolled |-> TRUE]

(* One turn of the loop of logger_write_with_color. *)
LogChar(p, c) ==
  IF c = Newline THEN logger_newline(p)
  ELSE LET q == IF p.x >= Width THEN logger_newline(p) ELSE p
       IN  [q EXCEPT !.scr = PutCharAtXY(@, q.x, q.y, c), !.x = @ + 1]

ShowPage(p) ==
  /\ cells' = p.scr /\ fb_move_cursor(p.cursor)
  /\ logger_x' = p.x /\ logger_y' = p.y

(* The loop, and what goes down the line after it: as much as serial_write *)
(* sends, and a newline.                                                   *)
logger_write_with_color ==
  /\ turn # None
  /\ \/ /\ turn <= Len(said) /\ turn' = turn + 1
        /\ LET p == LogChar(Page, said[turn])
           IN  ShowPage(p) /\ intact' = (intact /\ ~p.scrolled)
        /\ UNCHANGED line
     \/ /\ turn > Len(said) /\ turn' = None
        /\ line' = line \o SubSeq(said, 1, IF Len(said) < MaxSerial THEN Len(said) ELSE MaxSerial)
                        \o <<Newline>>
        /\ UNCHANGED <<screenVars, logger_x, logger_y, intact>>
  /\ UNCHANGED <<log_level, calls, blinks, said, whole>>

(* Mutant: the logger's place stays where the prefix begins. *)
PrefixedInPlace(p, prefix) == WriteStringAtXY(p, prefix)

(* The prefix; the place moves on even when none of it is on the screen.   *)
Prefixed(p, prefix) == [WriteStringAtXY(p, prefix) EXCEPT !.x = @ + Len(prefix)]

(* klog, kdebug, kwarn, kerror and kfatal up to the loop over the message. *)
Report(level, msg) ==
  LET p == Prefixed(Page, PrefixOf[level])
  IN  /\ p.x <= MaxColumn
      /\ ShowPage(p)
      /\ line' = PrefixOf[level]
      /\ turn' = IF msg = NoMessage THEN None ELSE 1
      /\ said' = IF msg = NoMessage THEN <<>> ELSE msg
      /\ whole' = (Len(said') <= MaxSerial /\ logger_x + Len(PrefixOf[level]) <= Width)
      /\ UNCHANGED <<log_level, intact>>

Log(level, msg) ==
  /\ Call /\ log_level <= level
  /\ Report(level, msg)
  /\ UNCHANGED blinks

kdebug(msg) == Log(DEBUG, msg)
klog(msg) == Log(INFO, msg)
kwarn(msg) == Log(WARN, msg)
kerror(msg) == Log(ERROR, msg)

(* kprintf logs its format, if there is one. *)
kprintf(fmt) == fmt # NoMessage /\ klog(fmt)

(* Whatever the level. *)
kfatal(msg) ==
  /\ Call
  /\ Report(FATAL, msg)
  /\ blinks' = Blinks + 1
-----------------------------------------------------------------------------
(* The calls that write no message of the caller's. *)

Silent(text) == line' = text /\ said' = <<>> /\ whole' = FALSE /\ UNCHANGED turn

StatusLine == WriteAt(FillLine(Cleared, 0, Bar), Title, TitleColumn)

logger_init ==
  /\ Call
  /\ cells' = StatusLine /\ fb_move_cursor(TitleColumn + Len(Title))
  /\ logger_x' = 0 /\ logger_y' = 1
  /\ Silent(<<Newline>>) /\ intact' = TRUE
  /\ UNCHANGED <<log_level, blinks>>

logger_set_level(level) ==
  /\ Call
  /\ log_level' = IF level \in Levels THEN level ELSE log_level
  /\ UNCHANGED <<screenVars, logger_x, logger_y, turn, line, blinks, said, whole, intact>>

logger_set_cursor_pos(x, y) ==
  /\ Call /\ OnScreen(x, y)
  /\ logger_x' = x /\ logger_y' = y
  /\ Silent(<<>>) /\ intact' = (intact /\ y # 0)
  /\ UNCHANGED <<screenVars, log_level, blinks>>

(* Mutant: the lines are counted from 0. *)
BelowStatusFromTop(scr) == FillArea(scr, 0, 0, Width, Height, Blank)

BelowStatus(scr) == FillArea(scr, 0, 1, Width, Height, Blank)

logger_clear ==
  /\ Call
  /\ cells' = BelowStatus(cells)
  /\ logger_x' = 0 /\ logger_y' = 1
  /\ Silent(<<Newline>>)
  /\ UNCHANGED <<crtc, log_level, blinks, intact>>

(* kfatal's loop: each turn fills the screen below line 0 and clears all   *)
(* of it.  After the last one the processor halts, with blinks at 1.       *)
FatalBlink ==
  /\ turn = None /\ blinks > 1 /\ blinks' = blinks - 1
  /\ cells' = Cleared /\ fb_move_cursor(0)
  /\ Silent(line) /\ intact' = FALSE
  /\ UNCHANGED <<log_level, logger_x, logger_y, calls>>
-----------------------------------------------------------------------------
(* Before logger_init: a screen the firmware has left. *)
Init ==
  /\ cells = Cleared /\ crtc = [index |-> "low", high |-> 0, low |-> 0]
  /\ log_level = DEBUG /\ logger_x = 0 /\ logger_y = 1
  /\ turn = None /\ line = <<>> /\ calls = 0 /\ blinks = None
  /\ said = <<>> /\ whole = FALSE /\ intact = FALSE

Next ==
  \/ logger_write_with_color \/ FatalBlink
  \/ logger_init \/ logger_clear
  \/ \E level \in SetLevels : logger_set_level(level)
  \/ \E place \in SetPlaces : logger_set_cursor_pos(place[1], place[2])
  \/ \E msg \in Messages \cup {NoMessage} :
       kdebug(msg) \/ klog(msg) \/ kwarn(msg) \/ kerror(msg) \/ kprintf(msg) \/ kfatal(msg)

Spec == Init /\ [][Next]_vars

-----------------------------------------------------------------------------
(* The variables hold values of their types; the logger's line is always   *)
(* one of the screen's.                                                    *)
TypeOK ==
  /\ ScreenTypeOK
  /\ log_level \in Levels
  /\ logger_x \in 0 .. MaxColumn /\ logger_y \in 0 .. Height - 1
  /\ line \in Seq(Glyphs \cup {Newline}) /\ turn \in 0 .. Len(said) + 1
  /\ calls \in 0 .. MaxCalls /\ blinks \in 0 .. Blinks + 1
  /\ said \in Messages \cup {<<>>} /\ whole \in BOOLEAN /\ intact \in BOOLEAN

(* The last line of a text stands on the screen right before the place     *)
(* end, as much of it as has not scrolled away.                            *)
StandsBefore(scr, end, text) ==
  LET last == Len(text)
  IN  \A k \in 0 .. last - 1 :
        k < end /\ (\A j \in last - k .. last : text[j] # Newline) =>
          scr[end - 1 - k] = text[last - k]

Place == CellAt(logger_x, logger_y)

(* How much of the message has gone through the loop. *)
Written == IF turn = None THEN said ELSE SubSeq(said, 1, turn - 1)

(* kfatal has not begun to blink. *)
Steady == blinks \in {None, Blinks + 1}

(* Wherever a message began, behind a prefix that ran over the edge, in    *)
(* the last line, at the end of a full one, the last line of what has been *)
(* written of it stands complete before the logger's place, over line      *)
(* breaks and scrolls (logger_write_with_color, logger_newline).           *)
MessageStands == Steady => StandsBefore(cells, Place, Written)

(* A text without the newline at its end. *)
Unended(text) ==
  LET last == Len(text)
  IN  IF last > 0 /\ text[last] = Newline THEN SubSeq(text, 1, last - 1) ELSE text

(* The two ways out tell the same: when the prefix fits on its line and    *)
(* the message within serial_write's limit, the last line that went down   *)
(* the serial line stands on the screen, prefix included (kdebug, kwarn,   *)
(* kerror).                                                                *)
SinksAgree == Steady /\ whole /\ turn = None => StandsBefore(cells, Place, Unended(line))

(* The status line stays as logger_init wrote it until the screen scrolls  *)
(* or a caller moves the logger there: no prefix that runs over, and no    *)
(* logger_clear, touches it.                                               *)
StatusLineStands == intact => \A i \in 0 .. Width - 1 : cells[i] = StatusLine[i]
=============================================================================
