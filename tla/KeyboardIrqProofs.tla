-------------------------- MODULE KeyboardIrqProofs --------------------------
(***************************************************************************)
(* Theorems about KeyboardIrq, for any number of keys, any screen and any  *)
(* set of machines.                                                        *)
(*                                                                         *)
(* Up to sti no handler has run, and keyboard_init has read every key that *)
(* has left the output buffer.  From the first drain on a raised line has  *)
(* made a request, and a PIC that forgets withdrawn requests holds one     *)
(* only while the line is raised; so the handler finds the byte it came    *)
(* for, and the byte is the next key.                                      *)
(***************************************************************************)
EXTENDS KeyboardIrq, TLAPS

BeforePic == {"gdt_install", "pic_init"}
BeforeTable == BeforePic \cup {"idt_init"}
BeforeSti == BeforeTable \cup {"drain1", "ask", "wait", "write", "drain2", "sti"}

EarlyQuiet ==
  kmain \in BeforeSti =>
    ~interrupts /\ handler = "none" /\ handled = <<>> /\ dropped = KeysRead

DroppedRead == dropped <= KeysRead

TableLoaded == kmain \notin BeforeTable => idt

LastKey == IsKey(out.byte) => out.byte = sent

LineSignalled ==
  kmain \notin BeforeTable \cup {"drain1"} /\ Line(out, config) => pic.irr \/ handler = "entered"

RequestsStand ==
  kmain \notin BeforePic /\ ~setup.keepsRequest /\ (pic.irr \/ handler = "entered") =>
    Line(out, config)

IrqInv ==
  /\ TypeOK /\ EarlyQuiet /\ DroppedRead /\ TableLoaded
  /\ LastKey /\ LineSignalled /\ RequestsStand
  /\ KeysHandledInOrder

Pic == [masked : BOOLEAN, irr : BOOLEAN, isr : BOOLEAN]
-----------------------------------------------------------------------------
(* The screen. *)

LEMMA SizeFacts ==
  /\ Width \in Nat \ {0} /\ Height \in Nat \ {0} /\ ByteSize \in Nat \ {0}
  /\ FB_SIZE \in Nat /\ (Height - 1) * Width \in Nat /\ (Height - 1) * Width + Width = FB_SIZE
  /\ FB_SIZE < ByteSize * ByteSize
  /\ Blank \in Glyphs
<1>1. /\ Width \in Nat \ {0} /\ Height \in Nat \ {0} /\ ByteSize \in Nat \ {0}
      /\ FB_SIZE < ByteSize * ByteSize /\ Blank \in Glyphs
  BY ScreenAssumption
<1>2. \A w, h \in Nat \ {0} : w * h \in Nat /\ (h - 1) * w \in Nat /\ (h - 1) * w + w = w * h
  BY Z3
<1> QED BY <1>1, <1>2 DEF FB_SIZE

(* Both bytes of a place fit a register. *)
LEMMA BytesFit ==
  ASSUME NEW pos \in Nat
  PROVE  HighByte(pos) \in 0 .. ByteSize - 1 /\ LowByte(pos) \in 0 .. ByteSize - 1
<1>1. \A b \in Nat \ {0} : \A x \in Nat : x \div b \in Nat /\ x % b \in 0 .. b - 1
  BY Z3
<1>2. pos \div ByteSize \in Nat
  BY <1>1, SizeFacts
<1> QED BY <1>1, <1>2, SizeFacts DEF HighByte, LowByte

(* A key leaves video memory, the cursor registers and cursor_pos with     *)
(* values of their types, wherever kmain was when it came.                 *)
LEMMA HandlerKeepsTypes ==
  ASSUME K!TypeOK, NEW sc, K!keyboard_handler(sc)
  PROVE  K!TypeOK'
<1> DEFINE Registers == [index : {"high", "low"}, high : 0 .. ByteSize - 1, low : 0 .. ByteSize - 1]
<1>1. cells \in [Cells -> Glyphs] /\ cursor_pos \in 0 .. FB_SIZE /\ crtc \in Registers
  BY DEF K!TypeOK, K!ScreenTypeOK, K!Cells, K!FB_SIZE, Cells, FB_SIZE
<1>2. SUFFICES cells' \in [Cells -> Glyphs] /\ cursor_pos' \in 0 .. FB_SIZE /\ crtc' \in Registers
  BY DEF K!TypeOK, K!ScreenTypeOK, K!Cells, K!FB_SIZE, Cells, FB_SIZE
<1> HIDE DEF Registers
<1>3. ASSUME NEW scr \in [Cells -> Glyphs], NEW i \in Nat, NEW c \in Glyphs
      PROVE  K!WriteCell(scr, i, c) \in [Cells -> Glyphs]
  BY <1>3, SizeFacts DEF K!WriteCell, K!FB_SIZE, FB_SIZE, Cells
<1>4. ASSUME NEW scr \in [Cells -> Glyphs]
      PROVE  K!Scrolled(scr) \in [Cells -> Glyphs]
  <2>1. \A i \in Cells : i < FB_SIZE - Width => i + Width \in Cells
    BY SizeFacts DEF Cells
  <2>2. K!Scrolled(scr) = [i \in Cells |-> IF i < FB_SIZE - Width THEN scr[i + Width] ELSE Blank]
    BY DEF K!Scrolled, K!Cells, K!FB_SIZE, Cells, FB_SIZE
  <2> QED BY <2>1, <2>2, <1>4, SizeFacts
<1>5. ASSUME NEW pos \in 0 .. FB_SIZE, K!fb_move_cursor(pos)
      PROVE  crtc' \in Registers
  <2>1. HighByte(pos) \in 0 .. ByteSize - 1 /\ LowByte(pos) \in 0 .. ByteSize - 1
    BY BytesFit, SizeFacts
  <2> QED BY <1>5, <2>1
          DEF K!fb_move_cursor, K!HighByte, K!LowByte, HighByte, LowByte, Registers
<1>6. K!LastLine \in 0 .. FB_SIZE - 1
  BY SizeFacts DEF K!LastLine
<1>7. CASE K!IgnoreKey(sc)
  BY <1>1, <1>7 DEF K!IgnoreKey, K!consoleVars
<1>8. CASE K!EraseKey(sc)
  <2>1. CASE cursor_pos = 0 /\ UNCHANGED K!consoleVars
    BY <1>1, <2>1 DEF K!consoleVars
  <2>2. CASE /\ cursor_pos > 0
             /\ cursor_pos' = cursor_pos - 1
             /\ cells' = K!WriteCell(cells, cursor_pos', Blank)
             /\ K!fb_move_cursor(cursor_pos')
    <3>1. cursor_pos' \in 0 .. FB_SIZE /\ cursor_pos' \in Nat
      BY <1>1, <2>2, SizeFacts
    <3> QED BY <1>1, <1>3, <1>5, <2>2, <3>1, SizeFacts
  <2> QED BY <1>8, <2>1, <2>2 DEF K!EraseKey
<1>9. CASE K!EnterKey(sc)
  <2>1. cells' \in [Cells -> Glyphs] /\ cursor_pos' \in 0 .. FB_SIZE
    <3>1. CASE K!NextLine >= Height /\ cells' = K!Scrolled(cells) /\ cursor_pos' = K!LastLine
      BY <1>1, <1>4, <1>6, <3>1, SizeFacts
    <3>2. CASE K!NextLine < Height /\ cells' = cells /\ cursor_pos' = K!NextLine * Width
      <4>1. \A x \in Nat : \A w, h \in Nat \ {0} :
              x \div w + 1 < h => (x \div w + 1) * w \in 0 .. w * h
        BY Z3
      <4>2. /\ cursor_pos \in Nat /\ cursor_pos' = (cursor_pos \div Width + 1) * Width
            /\ cursor_pos \div Width + 1 < Height
        BY <1>1, <3>2, SizeFacts DEF K!NextLine
      <4>3. cursor_pos' \in 0 .. Width * Height
        BY <4>1, <4>2, ScreenAssumption
      <4> QED BY <1>1, <3>2, <4>3 DEF FB_SIZE
    <3> QED BY <1>9, <3>1, <3>2 DEF K!EnterKey
  <2> QED BY <1>5, <1>9, <2>1 DEF K!EnterKey
<1>10. CASE K!GlyphKey(sc)
  <2>1. ASSUME NEW scr \in [Cells -> Glyphs], NEW pos \in 0 .. FB_SIZE - 1, sc \in Glyphs,
               K!Put(scr, pos, sc)
        PROVE  cells' \in [Cells -> Glyphs] /\ cursor_pos' \in 0 .. FB_SIZE /\ crtc' \in Registers
    BY <1>3, <1>5, <2>1, SizeFacts DEF K!Put
  <2>2. CASE cursor_pos >= FB_SIZE /\ K!Put(K!Scrolled(cells), K!LastLine, sc)
    BY <1>1, <1>4, <1>6, <1>10, <2>1, <2>2 DEF K!GlyphKey
  <2>3. CASE cursor_pos < FB_SIZE /\ K!Put(cells, cursor_pos, sc)
    BY <1>1, <1>10, <2>1, <2>3, SizeFacts DEF K!GlyphKey
  <2> QED BY <1>10, <2>2, <2>3 DEF K!GlyphKey, K!FB_SIZE, FB_SIZE
<1> QED BY <1>7, <1>8, <1>9, <1>10 DEF K!keyboard_handler
-----------------------------------------------------------------------------
(* Steps that several actions share. *)

LEMMA ConstantFacts ==
  /\ MaxKeys \in Nat /\ PromptPos \in Nat /\ Len(Prompt) \in Nat
  /\ Prompt \in Seq(Glyphs) /\ BootText \in Seq(Glyphs)
  /\ PromptPos + Len(Prompt) + 1 < FB_SIZE
  /\ \A m \in Setups : m \in [keepsRequest : BOOLEAN, slowReply : BOOLEAN, firmware : Config]
  BY KeyboardIrqAssumption

LEMMA PicTypes ==
  ASSUME pic \in Pic, PicSeesLine
  PROVE  pic' \in Pic
  BY DEF PicSeesLine, Requested, Line, Pic

(* What the PIC holds of IRQ1 after the line may have changed. *)
LEMMA PicRequest ==
  ASSUME pic \in Pic, PicSeesLine
  PROVE  pic'.irr <=> \/ ~Line(out, config) /\ Line(out', config')
                      \/ pic.irr /\ (Line(out', config') \/ setup.keepsRequest)
  BY DEF PicSeesLine, Requested, Pic

LEMMA ReadDataTypes ==
  ASSUME TypeOK, ReadData
  PROVE  /\ out' \in [full : BOOLEAN, byte : 0 .. sent] /\ pic' \in Pic
         /\ ~out'.full /\ out'.byte = out.byte
<1>1. pic \in Pic /\ out \in [full : BOOLEAN, byte : 0 .. sent]
  BY DEF TypeOK, Pic
<1> QED BY <1>1, PicTypes DEF ReadData

LEMMA ReturnTypes ==
  ASSUME kmain \in DOMAIN After, Return
  PROVE  kmain' \in DOMAIN After \cup {"hlt"} /\ step' = 0
  BY DEF Return, GoTo, After

(* The types of everything but the screen. *)
MachineTypes ==
  /\ typed \in Seq(Typed) /\ Len(typed) <= MaxKeys
  /\ sent \in 0 .. Len(typed)
  /\ out \in [full : BOOLEAN, byte : 0 .. sent]
  /\ config \in Config
  /\ asked \in BOOLEAN /\ setup \in Setups /\ interrupts \in BOOLEAN /\ idt \in BOOLEAN
  /\ pic \in Pic
  /\ handler \in {"none", "entered", "served", "acknowledged"}
  /\ kmain \in DOMAIN After \cup {"hlt"}
  /\ step \in Nat
  /\ dropped \in 0 .. sent
  /\ handled \in Seq(0 .. sent)

LEMMA TypesSplit == TypeOK <=> MachineTypes /\ K!TypeOK
  BY Zenon DEF TypeOK, MachineTypes, Pic

LEMMA InitMachine == Init => MachineTypes
<1> SUFFICES ASSUME Init PROVE MachineTypes
  OBVIOUS
<1>1. setup.firmware \in Config
  BY ConstantFacts DEF Init
<1>2. <<>> \in Seq(Typed) /\ Len(<<>>) = 0 /\ <<>> \in Seq(0 .. 0)
  OBVIOUS
<1>3. out \in [full : BOOLEAN, byte : 0 .. sent] /\ sent = 0 /\ dropped = 0
  BY DEF Init, NotAKey
<1>4. kmain \in DOMAIN After /\ handler = "none" /\ step = 0
  BY DEF Init, After
<1>5. pic \in Pic /\ config \in Config /\ setup \in Setups
  BY <1>1 DEF Init, Pic
<1>6. typed = <<>> /\ handled = <<>> /\ asked = FALSE /\ interrupts = FALSE /\ idt = FALSE
  BY DEF Init
<1>7. MaxKeys \in Nat
  BY ConstantFacts
<1>8. typed \in Seq(Typed) /\ Len(typed) = 0 /\ sent \in 0 .. Len(typed) /\ dropped \in 0 .. sent
  BY <1>2, <1>3, <1>6
<1>9. handled \in Seq(0 .. sent)
  BY <1>2, <1>3, <1>6
<1>10. asked \in BOOLEAN /\ interrupts \in BOOLEAN /\ idt \in BOOLEAN
  BY <1>6
<1>11. handler \in {"none", "entered", "served", "acknowledged"} /\ step \in Nat
  BY <1>4
<1>12. Len(typed) <= MaxKeys
  BY <1>7, <1>8
<1> QED BY <1>3, <1>4, <1>5, <1>8, <1>9, <1>10, <1>11, <1>12 DEF MachineTypes

LEMMA HardwareMachine ==
  ASSUME TypeOK, Hardware
  PROVE  MachineTypes'
<1>1. MachineTypes /\ pic \in Pic
  BY TypesSplit DEF MachineTypes
<1>2. ASSUME NEW sc \in Typed, Type(sc) PROVE MachineTypes'
  <2>1. typed' \in Seq(Typed) /\ Len(typed') = Len(typed) + 1 /\ Len(typed) < MaxKeys
    BY <1>1, <1>2 DEF Type, MachineTypes
  <2> QED BY <1>1, <1>2, <2>1, ConstantFacts
          DEF Type, MachineTypes, cpu, boot
<1>3. CASE PutKey
  <2>1. pic' \in Pic
    BY <1>1, <1>3, PicTypes DEF PutKey
  <2>2. sent' = sent + 1 /\ sent' \in 0 .. Len(typed') /\ dropped' \in 0 .. sent'
    BY <1>1, <1>3 DEF PutKey, MachineTypes, boot
  <2>3. handled' \in Seq(0 .. sent')
    <3>1. 0 .. sent \subseteq 0 .. sent'
      BY <1>1, <2>2 DEF MachineTypes
    <3> QED BY <1>1, <1>3, <3>1 DEF PutKey, MachineTypes
  <2>4. out' \in [full : BOOLEAN, byte : 0 .. sent']
    BY <1>1, <1>3, <2>2 DEF PutKey, MachineTypes
  <2> QED BY <1>1, <1>3, <2>1, <2>2, <2>3, <2>4 DEF PutKey, MachineTypes, cpu, boot
<1>4. CASE PutReply
  <2>1. pic' \in Pic
    BY <1>1, <1>4, PicTypes DEF PutReply
  <2>2. out' \in [full : BOOLEAN, byte : 0 .. sent] /\ asked' = FALSE
    BY <1>1, <1>4 DEF PutReply, MachineTypes, NotAKey
  <2> QED BY <1>1, <1>4, <2>1, <2>2 DEF PutReply, MachineTypes, cpu, boot
<1> QED BY <1>2, <1>3, <1>4 DEF Hardware

LEMMA DiscardTypes ==
  ASSUME TypeOK, EarlyQuiet, LastKey, Discard, out.full, kmain \in BeforeSti
  PROVE  dropped' \in 0 .. sent /\ ~out'.full /\ out'.byte = out.byte
<1>1. ~out'.full /\ out'.byte = out.byte
  BY ReadDataTypes DEF Discard
<1>2. dropped \in 0 .. sent /\ sent \in Nat
  BY DEF TypeOK
<1>3. IsKey(out.byte) => dropped = sent - 1
  BY DEF EarlyQuiet, KeysRead
<1> QED BY <1>1, <1>2, <1>3 DEF Discard

(* What the actions of kmain up to sti, and after it, do to the machine.   *)
LEMMA KmainMachine ==
  ASSUME TypeOK, EarlyQuiet, LastKey, Kmain
  PROVE  MachineTypes'
<1>1. MachineTypes /\ pic \in Pic
  BY TypesSplit DEF MachineTypes
<1>2. ASSUME kmain \in DOMAIN After, Return, UNCHANGED <<controller, setup, handler, handled>>,
             pic' \in Pic, interrupts' \in BOOLEAN, idt' \in BOOLEAN, dropped' = dropped
      PROVE  MachineTypes'
  BY <1>1, <1>2, ReturnTypes DEF MachineTypes, controller
<1>3. ASSUME kmain' \in DOMAIN After \cup {"hlt"}, step' \in Nat, dropped' \in 0 .. sent,
             UNCHANGED <<typed, sent, setup, cpu, handled>>,
             out' \in [full : BOOLEAN, byte : 0 .. sent], config' \in Config,
             asked' \in BOOLEAN, pic' \in Pic
      PROVE  MachineTypes'
  BY <1>1, <1>3 DEF MachineTypes, cpu
<1>4. CASE GdtInstall
  BY <1>1, <1>2, <1>4 DEF GdtInstall, At, After, MachineTypes, cpu
<1>5. CASE PicInit
  BY <1>1, <1>2, <1>5 DEF PicInit, At, After, MachineTypes, cpu, Pic
<1>6. CASE IdtInit
  BY <1>1, <1>2, <1>6 DEF IdtInit, At, After, MachineTypes
<1>7. ASSUME NEW call \in {"drain1", "drain2"}, Drain(call) PROVE MachineTypes'
  <2>1. kmain = call /\ kmain \in DOMAIN After /\ kmain \in BeforeSti
    BY <1>7 DEF Drain, At, After, BeforeSti, BeforeTable, BeforePic
  <2>2. CASE out.full /\ Discard /\ UNCHANGED <<kmain, step>>
    <3>1. dropped' \in 0 .. sent
      BY <2>1, <2>2, DiscardTypes
    <3>2. out' \in [full : BOOLEAN, byte : 0 .. sent] /\ pic' \in Pic
      BY <2>2, ReadDataTypes DEF Discard
    <3> QED BY <1>1, <1>3, <1>7, <2>2, <3>1, <3>2 DEF Drain, Discard, ReadData, MachineTypes
  <2>3. CASE ~out.full /\ Return /\ UNCHANGED <<controller, pic, setup, dropped>>
    BY <1>1, <1>2, <1>7, <2>1, <2>3 DEF Drain, MachineTypes, cpu
  <2> QED BY <1>7, <2>2, <2>3 DEF Drain
<1>8. CASE AskConfig
  <2>1. kmain \in DOMAIN After /\ Return
    BY <1>8 DEF AskConfig, At, After
  <2> QED BY <1>1, <1>3, <1>8, <2>1, ReturnTypes DEF AskConfig, MachineTypes
<1>9. CASE ReadConfig
  <2>1. kmain \in DOMAIN After /\ kmain \in BeforeSti /\ Return /\ out.full /\ Discard
    BY <1>9 DEF ReadConfig, At, After, BeforeSti, BeforeTable, BeforePic
  <2>2. dropped' \in 0 .. sent /\ out' \in [full : BOOLEAN, byte : 0 .. sent] /\ pic' \in Pic
    BY <2>1, DiscardTypes, ReadDataTypes DEF Discard
  <2> QED BY <1>1, <1>3, <1>9, <2>1, <2>2, ReturnTypes
          DEF ReadConfig, Discard, ReadData, MachineTypes
<1>10. CASE GiveUp
  BY <1>1, <1>3, <1>10 DEF GiveUp, GoTo, After, MachineTypes, controller
<1>11. CASE WriteConfig
  <2>1. kmain \in DOMAIN After /\ Return
    BY <1>11 DEF WriteConfig, At, After
  <2>2. pic' \in Pic
    BY <1>1, <1>11, PicTypes DEF WriteConfig
  <2> QED BY <1>1, <1>3, <1>11, <2>1, <2>2, ReturnTypes DEF WriteConfig, MachineTypes, Config
<1>12. CASE Sti
  BY <1>1, <1>2, <1>12 DEF Sti, At, After, MachineTypes
<1>13. CASE WritePrompt
  <2>1. CASE step' = step + 1 /\ kmain' = kmain
    BY <1>1, <1>3, <1>13, <2>1 DEF WritePrompt, MachineTypes, controller
  <2>2. CASE Return
    BY <1>1, <1>2, <1>13, <2>2 DEF WritePrompt, At, After, MachineTypes, cpu
  <2> QED BY <1>13, <2>1, <2>2 DEF WritePrompt
<1>14. ASSUME NEW call \in {"prompt_cursor", "sync_cursor"}, NEW pos, MoveCursor(call, pos)
       PROVE  MachineTypes'
  <2>1. CASE step' = step + 1 /\ kmain' = kmain
    BY <1>1, <1>3, <1>14, <2>1 DEF MoveCursor, MachineTypes, controller
  <2>2. CASE Return
    BY <1>1, <1>2, <1>14, <2>2 DEF MoveCursor, At, After, MachineTypes, cpu
  <2> QED BY <1>14, <2>1, <2>2 DEF MoveCursor
<1>15. CASE SetCursor
  BY <1>1, <1>2, <1>15 DEF SetCursor, At, After, MachineTypes, cpu
<1> QED BY <1>4, <1>5, <1>6, <1>7, <1>8, <1>9, <1>10, <1>11, <1>12, <1>13, <1>14, <1>15 DEF Kmain

LEMMA HandlerMachine ==
  ASSUME TypeOK, EarlyQuiet, TableLoaded, Handler
  PROVE  MachineTypes'
<1>1. MachineTypes /\ pic \in Pic
  BY TypesSplit DEF MachineTypes
<1>2. CASE Interrupt
  <2>1. idt
    BY <1>2 DEF Interrupt, EarlyQuiet, TableLoaded, BeforeSti
  <2>2. pic' \in Pic /\ handler' = "entered" /\ interrupts' = FALSE
    BY <1>1, <1>2, <2>1 DEF Interrupt, Pic
  <2> QED BY <1>1, <1>2, <2>2 DEF Interrupt, MachineTypes, controller, boot
<1>3. CASE Serve
  <2>1. out' \in [full : BOOLEAN, byte : 0 .. sent] /\ pic' \in Pic
    BY <1>3, ReadDataTypes DEF Serve
  <2>2. handled' \in Seq(0 .. sent)
    BY <1>1, <1>3 DEF Serve, MachineTypes
  <2> QED BY <1>1, <1>3, <2>1, <2>2 DEF Serve, ReadData, MachineTypes, boot
<1>4. CASE Acknowledge
  <2>1. pic' \in Pic
    BY <1>1, <1>4 DEF Acknowledge, pic_acknowledge, Pic
  <2> QED BY <1>1, <1>4, <2>1 DEF Acknowledge, MachineTypes, controller, boot
<1>5. CASE Iret
  BY <1>1, <1>5 DEF Iret, MachineTypes, controller, boot
<1> QED BY <1>2, <1>3, <1>4, <1>5 DEF Handler
-----------------------------------------------------------------------------
(* The screen under kmain and the handler. *)

LEMMA InitScreen == Init => K!TypeOK
<1> SUFFICES ASSUME Init PROVE K!TypeOK
  OBVIOUS
<1>1. cells \in [Cells -> Glyphs]
  <2>1. \A i \in Cells : i >= 0 /\ i < 0 + Len(BootText) => BootText[i - 0 + 1] \in Glyphs
    BY ConstantFacts DEF Cells
  <2> QED BY <2>1, SizeFacts DEF Init, Write, WriteAt, Cleared
<1>2. Len(BootText) \in Nat
  BY ConstantFacts
<1>3. crtc \in [index : {"high", "low"}, high : 0 .. ByteSize - 1, low : 0 .. ByteSize - 1]
  BY <1>2, BytesFit DEF Init
<1> QED BY <1>1, <1>3, SizeFacts
        DEF Init, K!TypeOK, K!ScreenTypeOK, K!Cells, K!FB_SIZE, Cells, FB_SIZE

LEMMA NextScreen ==
  ASSUME TypeOK, Next
  PROVE  K!TypeOK'
<1>1. K!TypeOK /\ step \in Nat
  BY TypesSplit DEF MachineTypes
<1> DEFINE Registers == [index : {"high", "low"}, high : 0 .. ByteSize - 1, low : 0 .. ByteSize - 1]
<1>2. cells \in [Cells -> Glyphs] /\ cursor_pos \in 0 .. FB_SIZE /\ crtc \in Registers
  BY <1>1 DEF K!TypeOK, K!ScreenTypeOK, K!Cells, K!FB_SIZE, Cells, FB_SIZE
<1>3. ASSUME cells' \in [Cells -> Glyphs], cursor_pos' \in 0 .. FB_SIZE, crtc' \in Registers
      PROVE  K!TypeOK'
  BY <1>3 DEF K!TypeOK, K!ScreenTypeOK, K!Cells, K!FB_SIZE, Cells, FB_SIZE
<1>4. CASE UNCHANGED screen
  BY <1>2, <1>3, <1>4 DEF screen
<1>5. CASE WritePrompt
  <2>1. cells' \in [Cells -> Glyphs]
    <3>1. CASE step < Len(Prompt) /\ cells' = WriteCell(cells, PromptPos + step, Prompt[step + 1])
      <4>1. Prompt[step + 1] \in Glyphs
        BY <1>1, <3>1, ConstantFacts
      <4> QED BY <1>2, <3>1, <4>1 DEF WriteCell
    <3> QED BY <1>2, <1>5, <3>1 DEF WritePrompt
  <2> QED BY <1>2, <1>3, <1>5, <2>1 DEF WritePrompt
<1>6. ASSUME NEW call, NEW pos \in Nat, MoveCursor(call, pos)
      PROVE  K!TypeOK'
  <2>1. HighByte(pos) \in 0 .. ByteSize - 1 /\ LowByte(pos) \in 0 .. ByteSize - 1
    BY BytesFit
  <2>2. crtc' \in Registers
    BY <1>2, <1>6, <2>1 DEF MoveCursor, MoveCursorOutb, WriteIndex, WriteData
  <2> QED BY <1>2, <1>3, <1>6, <2>2 DEF MoveCursor
<1>7. CASE SetCursor
  BY <1>2, <1>3, <1>7, ConstantFacts, SizeFacts DEF SetCursor, FirstTypedCell
<1>8. CASE Serve
  BY <1>1, <1>8, HandlerKeepsTypes DEF Serve
<1>9. CASE Hardware
  BY <1>4, <1>9 DEF Hardware, Type, PutKey, PutReply
<1>10. CASE Kmain
  <2>1. PromptPos + Len(Prompt) \in Nat /\ FirstTypedCell \in Nat
    BY ConstantFacts DEF FirstTypedCell
  <2> QED BY <1>4, <1>5, <1>6, <1>7, <1>10, <2>1
          DEF Kmain, GdtInstall, PicInit, IdtInit, Drain, AskConfig, ReadConfig, GiveUp,
              WriteConfig, Sti
<1>11. CASE Handler
  BY <1>4, <1>8, <1>11 DEF Handler, Interrupt, Acknowledge, Iret
<1> QED BY <1>9, <1>10, <1>11 DEF Next

LEMMA TypesPreserved ==
  ASSUME TypeOK, EarlyQuiet, TableLoaded, LastKey, Next
  PROVE  TypeOK'
<1>1. MachineTypes'
  BY HardwareMachine, KmainMachine, HandlerMachine DEF Next
<1>2. K!TypeOK'
  BY NextScreen
<1>3. MachineTypes' /\ K!TypeOK' => TypeOK'
  BY Zenon DEF TypeOK, MachineTypes, Pic
<1> QED BY <1>1, <1>2, <1>3
-----------------------------------------------------------------------------
(* Before sti. *)

LEMMA EarlyKept ==
  ASSUME TypeOK, EarlyQuiet, LastKey, Next
  PROVE  EarlyQuiet'
<1>1. /\ sent \in Nat /\ kmain \in DOMAIN After \cup {"hlt"}
      /\ out.full \in BOOLEAN
  BY DEF TypeOK
<1>2. CASE Hardware
  <2>1. ASSUME NEW sc \in Typed, Type(sc) PROVE EarlyQuiet'
    BY <2>1 DEF Type, EarlyQuiet, KeysRead, cpu, boot
  <2>2. CASE PutKey
    <3>1. KeysRead' = KeysRead
      BY <1>1, <2>2 DEF PutKey, KeysRead, IsKey, NotAKey
    <3> QED BY <2>2, <3>1 DEF PutKey, EarlyQuiet, cpu, boot
  <2>3. CASE PutReply
    <3>1. KeysRead' = KeysRead
      BY <1>1, <2>3 DEF PutReply, KeysRead, IsKey
    <3> QED BY <2>3, <3>1 DEF PutReply, EarlyQuiet, cpu, boot
  <2> QED BY <1>2, <2>1, <2>2, <2>3 DEF Hardware
<1>3. ASSUME Discard, out.full, kmain \in BeforeSti, UNCHANGED <<cpu, handled>>
      PROVE  EarlyQuiet'
  <2>1. ~out'.full /\ sent' = sent
    BY <1>3, ReadDataTypes DEF Discard, ReadData
  <2>2. dropped' = KeysRead'
    BY <1>1, <1>3, <2>1 DEF Discard, EarlyQuiet, KeysRead
  <2> QED BY <1>3, <2>2 DEF EarlyQuiet, cpu
<1>4. ASSUME UNCHANGED <<sent, out, cpu, dropped, handled>>, kmain \in BeforeSti
      PROVE  EarlyQuiet'
  BY <1>4 DEF EarlyQuiet, KeysRead, cpu
<1>5. ASSUME kmain' \notin BeforeSti
      PROVE  EarlyQuiet'
  BY <1>5 DEF EarlyQuiet
<1>6. CASE Kmain
  <2>1. CASE GdtInstall \/ PicInit \/ AskConfig \/ GiveUp
    BY <1>4, <2>1 DEF GdtInstall, PicInit, AskConfig, GiveUp, At, BeforeSti, BeforeTable,
                      BeforePic, controller
  <2>2. CASE IdtInit
    BY <2>2 DEF IdtInit, At, BeforeSti, BeforeTable, EarlyQuiet, KeysRead, controller
  <2>3. CASE Drain("drain1") \/ Drain("drain2")
    <3>1. kmain \in BeforeSti
      BY <2>3 DEF Drain, At, BeforeSti
    <3> QED BY <1>3, <1>4, <2>3, <3>1 DEF Drain, controller
  <2>4. CASE ReadConfig
    BY <1>3, <2>4 DEF ReadConfig, At, BeforeSti
  <2>5. CASE WriteConfig
    <3>1. out' = out /\ sent' = sent /\ kmain \in BeforeSti
      BY <2>5 DEF WriteConfig, At, BeforeSti
    <3> QED BY <1>4, <2>5, <3>1 DEF WriteConfig
  <2>6. CASE Sti
    BY <1>5, <2>6 DEF Sti, At, Return, GoTo, After, BeforeSti, BeforeTable, BeforePic
  <2>7. CASE WritePrompt \/ SetCursor
    BY <1>5, <2>7
       DEF WritePrompt, SetCursor, At, Return, GoTo, After, BeforeSti, BeforeTable, BeforePic
  <2>8. ASSUME NEW call \in {"prompt_cursor", "sync_cursor"}, NEW pos, MoveCursor(call, pos)
        PROVE  EarlyQuiet'
    BY <1>5, <2>8 DEF MoveCursor, At, Return, GoTo, After, BeforeSti, BeforeTable, BeforePic
  <2> QED BY <1>6, <2>1, <2>2, <2>3, <2>4, <2>5, <2>6, <2>7, <2>8 DEF Kmain
<1>7. CASE Handler
  <2>1. kmain \notin BeforeSti /\ kmain' = kmain
    BY <1>7 DEF Handler, Interrupt, Serve, Acknowledge, Iret, EarlyQuiet, boot
  <2> QED BY <1>5, <2>1
<1> QED BY <1>2, <1>6, <1>7 DEF Next

LEMMA TableKept ==
  ASSUME TableLoaded, Next
  PROVE  TableLoaded'
<1>1. CASE Hardware
  BY <1>1 DEF Hardware, Type, PutKey, PutReply, TableLoaded, cpu, boot
<1>2. CASE IdtInit
  BY <1>2 DEF IdtInit, TableLoaded
<1>3. CASE GdtInstall \/ PicInit
  BY <1>3 DEF GdtInstall, PicInit, At, Return, GoTo, After, TableLoaded, BeforeTable, BeforePic, cpu
<1>4. ASSUME kmain \notin BeforeTable, idt' = idt
      PROVE  TableLoaded'
  BY <1>4 DEF TableLoaded
<1>5. CASE Kmain /\ ~IdtInit /\ ~GdtInstall /\ ~PicInit
  BY <1>4, <1>5
     DEF Kmain, Drain, AskConfig, ReadConfig, GiveUp, WriteConfig, Sti, WritePrompt, MoveCursor,
         SetCursor, At, BeforeTable, BeforePic, cpu
<1>6. CASE Handler
  BY <1>6 DEF Handler, Interrupt, Serve, Acknowledge, Iret, TableLoaded, boot
<1> QED BY <1>1, <1>2, <1>3, <1>5, <1>6 DEF Next, Kmain
-----------------------------------------------------------------------------
(* The output buffer, the line and the request. *)

LEMMA LastKeyKept ==
  ASSUME TypeOK, LastKey, Next
  PROVE  LastKey'
<1>1. CASE UNCHANGED <<out, sent>>
  BY <1>1 DEF LastKey
<1>2. CASE ReadData
  BY <1>2, ReadDataTypes DEF ReadData, LastKey
<1>3. CASE PutKey
  BY <1>3 DEF PutKey, LastKey
<1>4. CASE PutReply
  BY <1>4 DEF PutReply, LastKey, IsKey
<1>5. CASE Hardware
  BY <1>1, <1>3, <1>4, <1>5 DEF Hardware, Type
<1>6. CASE Kmain
  BY <1>1, <1>2, <1>6
     DEF Kmain, GdtInstall, PicInit, IdtInit, Drain, Discard, AskConfig, ReadConfig, GiveUp,
         WriteConfig, Sti, WritePrompt, MoveCursor, SetCursor, controller
<1>7. CASE Handler
  BY <1>1, <1>2, <1>7 DEF Handler, Interrupt, Serve, Acknowledge, Iret, controller
<1> QED BY <1>5, <1>6, <1>7 DEF Next

(* What a step may do to the line and the request: leave both alone, let   *)
(* the PIC see a change of the line, or clear and serve the request.       *)
LEMMA LineSteps ==
  ASSUME TypeOK, EarlyQuiet, Next
  PROVE  /\ setup' = setup
         /\ \/ UNCHANGED <<out, config, handler>> /\ (PicInit \/ pic'.irr = pic.irr)
            \/ PicSeesLine /\ handler' = handler /\ (PutKey \/ PutReply \/ handler = "none")
            \/ Serve
            \/ Interrupt
            \/ handler # "entered" /\ handler' # "entered" /\ UNCHANGED <<out, config>>
               /\ pic'.irr = pic.irr
<1>1. pic \in Pic
  BY TypesSplit DEF MachineTypes
<1>2. CASE Hardware
  BY <1>2 DEF Hardware, Type, PutKey, PutReply, cpu
<1>3. CASE GdtInstall \/ PicInit \/ AskConfig \/ GiveUp \/ WritePrompt \/ SetCursor
  BY <1>3 DEF GdtInstall, PicInit, AskConfig, GiveUp, WritePrompt, SetCursor, cpu, controller
<1>4. CASE IdtInit \/ Sti
  BY <1>4 DEF IdtInit, Sti, controller
<1>5. ASSUME NEW call, Drain(call)
      PROVE  /\ setup' = setup
             /\ \/ UNCHANGED <<out, config, handler>> /\ pic'.irr = pic.irr
                \/ PicSeesLine /\ handler' = handler /\ handler = "none"
  BY <1>5 DEF Drain, Discard, ReadData, At, cpu, controller
<1>6. CASE ReadConfig \/ WriteConfig
  BY <1>6 DEF ReadConfig, WriteConfig, Discard, ReadData, At, cpu
<1>7. ASSUME NEW call, NEW pos, MoveCursor(call, pos)
      PROVE  setup' = setup /\ UNCHANGED <<out, config, handler>> /\ pic'.irr = pic.irr
  BY <1>7 DEF MoveCursor, cpu, controller
<1>8. CASE Kmain
  BY <1>3, <1>4, <1>5, <1>6, <1>7, <1>8 DEF Kmain
<1>9. CASE Acknowledge
  BY <1>1, <1>9 DEF Acknowledge, pic_acknowledge, controller, Pic
<1>10. CASE Iret
  BY <1>10 DEF Iret, controller
<1>11. CASE Handler
  BY <1>9, <1>10, <1>11 DEF Handler, Serve, ReadData, Interrupt
<1> QED BY <1>2, <1>8, <1>11 DEF Next

LEMMA ServeClears ==
  ASSUME TypeOK, Serve
  PROVE  ~Line(out', config') /\ handler' = "served" /\ setup' = setup /\ kmain' = kmain
         /\ (~setup.keepsRequest => ~pic'.irr)
<1>1. pic \in Pic
  BY TypesSplit DEF MachineTypes
<1>2. ~out'.full /\ PicSeesLine /\ setup' = setup /\ kmain' = kmain
  BY ReadDataTypes DEF Serve, ReadData, boot
<1> QED BY <1>1, <1>2, PicRequest DEF Serve, Line

LEMMA InterruptTakes ==
  ASSUME TypeOK, EarlyQuiet, TableLoaded, Interrupt
  PROVE  /\ pic.irr /\ ~pic'.irr /\ handler' = "entered"
         /\ UNCHANGED <<out, config, setup, kmain>>
<1>1. pic \in Pic
  BY TypesSplit DEF MachineTypes
<1>2. idt
  BY DEF Interrupt, EarlyQuiet, TableLoaded, BeforeSti
<1> QED BY <1>1, <1>2 DEF Interrupt, controller, boot, Pic

(* The calls of kmain follow one another. *)
LEMMA KmainOrder ==
  ASSUME Next
  PROVE  /\ kmain' \notin BeforePic => kmain \notin BeforePic \/ PicInit
         /\ kmain' \notin BeforeTable \cup {"drain1"} =>
              \/ kmain \notin BeforeTable \cup {"drain1"}
              \/ ~out.full /\ UNCHANGED <<out, config>>
         /\ PicInit => kmain' = "idt_init"
<1>1. CASE kmain' = kmain
  BY <1>1 DEF PicInit, At, Return, GoTo, After
<1>2. CASE Kmain
  BY <1>2
     DEF Kmain, GdtInstall, PicInit, IdtInit, Drain, AskConfig, ReadConfig, GiveUp, WriteConfig,
         Sti, WritePrompt, MoveCursor, SetCursor, At, Return, GoTo, After, BeforeTable, BeforePic,
         controller
<1>3. CASE Hardware
  BY <1>1, <1>3 DEF Hardware, Type, PutKey, PutReply, boot
<1>4. CASE Handler
  BY <1>1, <1>4 DEF Handler, Interrupt, Serve, Acknowledge, Iret, boot
<1> QED BY <1>2, <1>3, <1>4 DEF Next

LEMMA SignalKept ==
  ASSUME TypeOK, EarlyQuiet, TableLoaded, LineSignalled, Next
  PROVE  LineSignalled'
<1>1. pic \in Pic
  BY TypesSplit DEF MachineTypes
<1> SUFFICES ASSUME kmain' \notin BeforeTable \cup {"drain1"}, Line(out', config')
             PROVE  pic'.irr \/ handler' = "entered"
  BY DEF LineSignalled
<1>2. /\ kmain \notin BeforeTable \cup {"drain1"}
      /\ Line(out, config) => pic.irr \/ handler = "entered"
  <2>1. ~(~out.full /\ UNCHANGED <<out, config>>)
    BY DEF Line
  <2> QED BY <2>1, KmainOrder DEF LineSignalled
<1>3. CASE UNCHANGED <<out, config, handler>> /\ (PicInit \/ pic'.irr = pic.irr)
  BY <1>2, <1>3, KmainOrder DEF BeforeTable
<1>4. CASE PicSeesLine /\ handler' = handler /\ (PutKey \/ PutReply \/ handler = "none")
  <2>1. PutKey \/ PutReply => ~Line(out, config)
    BY DEF PutKey, PutReply, Line
  <2> QED BY <1>1, <1>2, <1>4, <2>1, PicRequest
<1>5. CASE Serve
  BY <1>5, ServeClears
<1>6. CASE Interrupt
  BY <1>6, InterruptTakes
<1>7. CASE handler # "entered" /\ UNCHANGED <<out, config>> /\ pic'.irr = pic.irr
  BY <1>2, <1>7
<1> QED BY <1>3, <1>4, <1>5, <1>6, <1>7, LineSteps

LEMMA RequestKept ==
  ASSUME TypeOK, EarlyQuiet, TableLoaded, RequestsStand, Next
  PROVE  RequestsStand'
<1>1. pic \in Pic
  BY TypesSplit DEF MachineTypes
<1> SUFFICES ASSUME kmain' \notin BeforePic, ~setup'.keepsRequest, pic'.irr \/ handler' = "entered"
             PROVE  Line(out', config')
  BY DEF RequestsStand
<1>2. setup' = setup /\ ~setup.keepsRequest
  BY LineSteps
<1>3. CASE PicInit
  <2>1. ~pic'.irr /\ handler' = "none"
    BY <1>3 DEF PicInit, At, cpu
  <2> QED BY <2>1
<1>4. pic.irr \/ handler = "entered" => PicInit \/ Line(out, config)
  BY <1>2, KmainOrder DEF RequestsStand
<1>5. CASE UNCHANGED <<out, config, handler>> /\ pic'.irr = pic.irr
  BY <1>3, <1>4, <1>5
<1>6. CASE PicSeesLine /\ handler' = handler /\ (PutKey \/ PutReply \/ handler = "none")
  <2>1. PutKey \/ PutReply => ~Line(out, config) /\ ~PicInit
    BY DEF PutKey, PutReply, Line, PicInit, controller, boot, Return, GoTo, After, At
  <2>2. pic'.irr => Line(out', config')
    BY <1>1, <1>2, <1>6, PicRequest
  <2> QED BY <1>3, <1>4, <1>6, <2>1, <2>2
<1>7. CASE Serve
  BY <1>2, <1>7, ServeClears
<1>8. CASE Interrupt
  <2>1. ~PicInit
    BY <1>8, KmainOrder DEF PicInit, At, Interrupt, boot
  <2> QED BY <1>3, <1>4, <1>8, <2>1, InterruptTakes
<1>9. CASE handler # "entered" /\ handler' # "entered" /\ UNCHANGED <<out, config>>
           /\ pic'.irr = pic.irr
  BY <1>3, <1>4, <1>9
<1> QED BY <1>3, <1>5, <1>6, <1>7, <1>8, <1>9, LineSteps
-----------------------------------------------------------------------------
(* The keys that have been handled. *)

(* KeysHandledInOrder speaks of these only. *)
LEMMA OrderUntouched ==
  ASSUME KeysHandledInOrder, UNCHANGED <<dropped, handled, setup>>, KeysRead' = KeysRead
  PROVE  KeysHandledInOrder'
<1>1. KeysHandled' = KeysHandled
  BY DEF KeysHandled
<1> QED BY <1>1 DEF KeysHandledInOrder

LEMMA OrderBeforeHandlers ==
  ASSUME handled = <<>>, dropped = KeysRead, KeysRead \in Nat
  PROVE  KeysHandledInOrder
<1>1. DOMAIN handled = {} /\ KeysHandled = {}
  BY DEF KeysHandled
<1>2. dropped + 1 .. KeysRead = {}
  OBVIOUS
<1> QED BY <1>1, <1>2 DEF KeysHandledInOrder

(* The handler reads a byte: the keys read are the ones before, and the    *)
(* last one.                                                               *)
LEMMA OrderServed ==
  ASSUME TypeOK, KeysHandledInOrder, DroppedRead, LastKey, RequestsStand, EarlyQuiet, Serve
  PROVE  KeysHandledInOrder' /\ DroppedRead'
<1>1. /\ sent \in Nat /\ dropped \in Nat /\ handled \in Seq(0 .. sent)
      /\ out.full \in BOOLEAN /\ out.byte \in 0 .. sent
  BY DEF TypeOK
<1>2. /\ ~out'.full /\ UNCHANGED <<sent, dropped, setup>> /\ handled' = Append(handled, out.byte)
  BY ReadDataTypes DEF Serve, ReadData, boot
<1>3. KeysRead' = sent
  BY <1>2 DEF KeysRead
<1>4. setup.keepsRequest \/ out.full
  BY DEF Serve, EarlyQuiet, RequestsStand, Line, BeforeSti, BeforeTable
<1>5. /\ DOMAIN handled = 1 .. Len(handled) /\ Len(handled) \in Nat
      /\ DOMAIN handled' = 1 .. Len(handled) + 1
      /\ \A i \in DOMAIN handled : handled'[i] = handled[i] /\ handled[i] \in Nat
      /\ handled'[Len(handled) + 1] = out.byte
  BY <1>1, <1>2
<1>6. KeysHandled' = KeysHandled \cup ({out.byte} \ {NotAKey})
  BY <1>5 DEF KeysHandled
<1>7. \A i \in DOMAIN handled : IsKey(handled[i]) => handled[i] \in KeysHandled
  BY DEF KeysHandled, IsKey
<1>8. KeysHandled \subseteq (IF setup.keepsRequest THEN dropped ELSE dropped + 1) .. KeysRead
      /\ dropped + 1 .. KeysRead \subseteq KeysHandled
  BY DEF KeysHandledInOrder
<1>9. KeysRead \in Nat /\ KeysRead <= sent /\ dropped <= KeysRead
  BY <1>1 DEF KeysRead, DroppedRead, IsKey, NotAKey
<1>10. CASE ~IsKey(out.byte)
  <2>1. KeysRead = sent /\ KeysHandled' = KeysHandled
    BY <1>6, <1>10 DEF KeysRead, IsKey
  <2>2. \A i, j \in DOMAIN handled' :
          i < j /\ IsKey(handled'[i]) /\ IsKey(handled'[j]) =>
            i \in DOMAIN handled /\ j \in DOMAIN handled
    BY <1>5, <1>10
  <2>3. KeysHandledInOrder'
    BY <1>2, <1>3, <1>5, <1>8, <2>1, <2>2 DEF KeysHandledInOrder
  <2> QED BY <1>1, <1>2, <1>3, <1>9, <2>3 DEF DroppedRead
<1>11. CASE IsKey(out.byte)
  <2>1. out.byte = sent /\ sent > 0 /\ KeysHandled' = KeysHandled \cup {sent}
    BY <1>1, <1>6, <1>11 DEF LastKey, IsKey, NotAKey
  <2>2. \/ out.full /\ KeysRead = sent - 1
        \/ setup.keepsRequest /\ KeysRead = sent
    BY <1>1, <1>4, <1>11 DEF KeysRead
  <2>3. dropped + 1 .. sent \subseteq KeysHandled \cup {sent}
    BY <1>1, <1>8, <1>9, <2>2
  <2>4. KeysHandled \cup {sent} \subseteq
          (IF setup.keepsRequest THEN dropped ELSE dropped + 1) .. sent
    BY <1>1, <1>8, <1>9, <2>2
  <2>5. \A k \in KeysHandled : k \in Nat /\ (k < sent \/ (setup.keepsRequest /\ k = sent))
    BY <1>1, <1>8, <1>9, <2>2
  <2>6. ASSUME NEW i \in DOMAIN handled', NEW j \in DOMAIN handled',
               i < j, IsKey(handled'[i]), IsKey(handled'[j])
        PROVE  handled'[i] < handled'[j] \/ (setup.keepsRequest /\ handled'[i] = handled'[j])
    <3>1. i \in DOMAIN handled
      BY <1>5, <2>6
    <3>2. CASE j \in DOMAIN handled
      BY <1>5, <2>6, <3>1, <3>2 DEF KeysHandledInOrder
    <3>3. CASE j = Len(handled) + 1
      BY <1>5, <1>7, <2>1, <2>5, <2>6, <3>1, <3>3
    <3> QED BY <1>5, <3>2, <3>3
  <2>7. KeysHandledInOrder'
    BY <1>2, <1>3, <2>1, <2>3, <2>4, <2>6 DEF KeysHandledInOrder
  <2> QED BY <1>1, <1>2, <1>3, <1>9, <2>7 DEF DroppedRead
<1> QED BY <1>10, <1>11

LEMMA OrderKept ==
  ASSUME IrqInv, Next
  PROVE  KeysHandledInOrder' /\ DroppedRead'
<1>1. /\ sent \in Nat /\ dropped \in Nat /\ out.full \in BOOLEAN
      /\ kmain \in DOMAIN After \cup {"hlt"}
  BY DEF IrqInv, TypeOK
<1>2. EarlyQuiet' /\ TypeOK'
  BY EarlyKept, TypesPreserved DEF IrqInv
<1>3. KeysRead' \in Nat
  <2>1. sent' \in Nat /\ out'.byte \in 0 .. sent'
    BY <1>2 DEF TypeOK
  <2>2. KeysRead' = sent' \/ (KeysRead' = sent' - 1 /\ out'.byte # 0)
    BY DEF KeysRead, IsKey, NotAKey
  <2> QED BY <2>1, <2>2
<1>4. CASE kmain' \in BeforeSti
  <2>1. KeysHandledInOrder'
    <3>1. (handled = <<>> /\ dropped = KeysRead)'
      BY <1>2, <1>4 DEF EarlyQuiet
    <3>2. (DOMAIN handled = {} /\ KeysHandled = {})'
      BY <3>1 DEF KeysHandled
    <3>3. dropped' + 1 .. KeysRead' = {}
      <4>1. \A n \in Nat : n + 1 .. n = {}
        OBVIOUS
      <4>2. dropped' + 1 .. KeysRead' = KeysRead' + 1 .. KeysRead'
        BY <3>1
      <4> QED BY <1>3, <4>1, <4>2
    <3> QED BY <3>1, <3>2, <3>3 DEF KeysHandledInOrder
  <2>2. DroppedRead'
    BY <1>2, <1>3, <1>4 DEF EarlyQuiet, DroppedRead
  <2> QED BY <2>1, <2>2
<1>5. CASE KeysRead' = KeysRead /\ UNCHANGED <<dropped, handled, setup>>
  BY <1>5, OrderUntouched DEF DroppedRead, IrqInv
<1>6. ASSUME UNCHANGED <<sent, out>> PROVE KeysRead' = KeysRead
  BY <1>6 DEF KeysRead
<1>7. CASE Hardware
  <2>1. KeysRead' = KeysRead
    BY <1>1, <1>6, <1>7 DEF Hardware, Type, PutKey, PutReply, KeysRead, IsKey, NotAKey
  <2> QED BY <1>5, <1>7, <2>1 DEF Hardware, Type, PutKey, PutReply, boot
<1>8. CASE Kmain /\ kmain' \notin BeforeSti
  <2>1. UNCHANGED <<sent, out, dropped, handled, setup>>
    BY <1>8
       DEF Kmain, GdtInstall, PicInit, IdtInit, Drain, AskConfig, ReadConfig, GiveUp, WriteConfig,
           Sti, WritePrompt, MoveCursor, SetCursor, At, Return, GoTo, After,
           BeforeSti, BeforeTable, BeforePic, controller
  <2> QED BY <1>5, <1>6, <2>1
<1>9. CASE Serve
  BY <1>9, OrderServed DEF IrqInv
<1>10. CASE Interrupt \/ Acknowledge \/ Iret
  BY <1>5, <1>6, <1>10 DEF Interrupt, Acknowledge, Iret, controller, boot
<1> QED BY <1>4, <1>7, <1>8, <1>9, <1>10 DEF Next, Handler
-----------------------------------------------------------------------------
LEMMA InitIrq == Init => IrqInv
<1> SUFFICES ASSUME Init PROVE IrqInv
  OBVIOUS
<1>1. TypeOK
  BY InitMachine, InitScreen, TypesSplit
<1>2. KeysRead = 0 /\ KeysRead \in Nat /\ dropped = 0 /\ handled = <<>>
  BY DEF Init, KeysRead, IsKey
<1>3. KeysHandledInOrder /\ DroppedRead
  BY <1>2, OrderBeforeHandlers DEF DroppedRead
<1>4. kmain \in BeforePic /\ ~interrupts /\ handler = "none" /\ ~IsKey(out.byte)
  BY DEF Init, BeforePic, IsKey
<1> QED BY <1>1, <1>2, <1>3, <1>4
        DEF IrqInv, EarlyQuiet, TableLoaded, LastKey, LineSignalled, RequestsStand,
            BeforeSti, BeforeTable

LEMMA IrqStutter ==
  ASSUME IrqInv, UNCHANGED vars
  PROVE  IrqInv'
<1>1. UNCHANGED <<typed, sent, out, config, asked, pic, setup, interrupts, idt, handler,
                  kmain, step, dropped, handled, cells, crtc, cursor_pos>>
  BY DEF vars, controller, cpu, boot, screen
<1>2. K!TypeOK'
  BY <1>1 DEF IrqInv, TypeOK, K!TypeOK, K!ScreenTypeOK
<1>3. TypeOK'
  BY <1>1, <1>2 DEF IrqInv, TypeOK
<1>4. EarlyQuiet' /\ DroppedRead' /\ TableLoaded' /\ LastKey' /\ LineSignalled' /\ RequestsStand'
  BY <1>1 DEF IrqInv, EarlyQuiet, DroppedRead, TableLoaded, LastKey, LineSignalled, RequestsStand,
              KeysRead
<1>5. KeysHandledInOrder'
  BY <1>1, OrderUntouched DEF IrqInv, KeysRead
<1> QED BY <1>3, <1>4, <1>5 DEF IrqInv

(* The whole of the argument, together. *)
THEOREM IrqInvariant == Spec => []IrqInv
<1>1. ASSUME IrqInv, Next PROVE IrqInv'
  BY <1>1, TypesPreserved, EarlyKept, TableKept, LastKeyKept, SignalKept, RequestKept, OrderKept
     DEF IrqInv
<1>2. IrqInv /\ [Next]_vars => IrqInv'
  BY <1>1, IrqStutter
<1> QED BY <1>2, InitIrq, PTL DEF Spec

(* The variables keep their types, so that the processor never takes an    *)
(* interrupt without a table (kmain, which loads it before sti).           *)
THEOREM IrqTypeCorrect == Spec => []TypeOK
<1>1. IrqInv => TypeOK
  BY DEF IrqInv
<1> QED BY <1>1, IrqInvariant, PTL

(* No key is skipped or comes out of order, however many are typed and     *)
(* whenever (keyboard_init, interrupt_handler, keyboard_handler).          *)
THEOREM KeysAlwaysInOrder == Spec => []KeysHandledInOrder
<1>1. IrqInv => KeysHandledInOrder
  BY DEF IrqInv
<1> QED BY <1>1, IrqInvariant, PTL

(* No wakeup is lost (pic_init before keyboard_init, before sti).          *)
THEOREM PendingAlwaysSignalled == Spec => []PendingByteIsSignalled
<1>1. IrqInv => PendingByteIsSignalled
  BY DEF IrqInv, LineSignalled, PendingByteIsSignalled, KeyboardReady, PicReady, BeforeTable,
         BeforePic
<1> QED BY <1>1, IrqInvariant, PTL

(* With a PIC that forgets withdrawn requests the handler finds the byte   *)
(* it came for (keyboard_init, keyboard_handler).                          *)
THEOREM HandlerFindsByte == Spec => ReadBytesNotHandled
<1>1. IrqInv => (handler = "entered" /\ ~setup.keepsRequest => out.full)
  BY DEF IrqInv, EarlyQuiet, RequestsStand, Line, BeforeSti, BeforeTable
<1>2. IrqInv /\ [Next]_vars =>
        [handler = "entered" /\ handler' = "served" /\ ~setup.keepsRequest => out.full]_vars
  BY <1>1
<1> QED BY <1>2, IrqInvariant, PTL DEF Spec, ReadBytesNotHandled
=============================================================================
