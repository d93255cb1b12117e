---------------------------- MODULE KeyboardIrq ----------------------------
(***************************************************************************)
(* How a key gets from the keyboard to the screen: the last part of kmain  *)
(* (from gdt_install to the hlt loop), the interrupt handler that cuts in  *)
(* once interrupts are enabled, and the hardware between the two: the 8042 *)
(* keyboard controller with its one-byte output buffer, and the PIC, which *)
(* asks for an interrupt when that buffer becomes full.                    *)
(*                                                                         *)
(* A PIC that sees a request withdrawn before it is served forgets it (an  *)
(* 8259A) or serves it all the same (the machine whose log is com1.out).   *)
(* The setup of a machine says which, whether the 8042 may take longer to  *)
(* reply than keyboard_init waits, and how the firmware has left it.       *)
(***************************************************************************)
EXTENDS Screen

CONSTANTS
  Backspace, Enter, Ignored,   \* see Keyboard
  Typed,        \* the scan codes that get typed in this model
  MaxKeys,      \* bound: how many keys are typed (fewer than the keyboard's buffer holds)
  ReplyCode,    \* what the configuration byte means when it is taken for a scan code
  Setups,       \* the machines that are considered
  BootText,     \* what kmain has put at the start of the screen
  Prompt,       \* the prompt, without the terminating NUL
  PromptPos     \* where it goes

(* Of the configuration byte: interrupts (bit 0) and clock (bit 4) on. *)
Config == [irq1 : BOOLEAN, clock : BOOLEAN]

ASSUME KeyboardIrqAssumption ==
  /\ MaxKeys \in Nat
  /\ Setups \subseteq [keepsRequest : BOOLEAN, slowReply : BOOLEAN, firmware : Config]
  /\ BootText \in Seq(Glyphs) /\ Prompt \in Seq(Glyphs)
  /\ PromptPos \in Nat /\ Len(BootText) <= PromptPos
  /\ PromptPos + Len(Prompt) + 1 < FB_SIZE
  /\ Typed \subseteq Glyphs \cup {Backspace, Enter, Ignored}
  /\ ReplyCode \in Glyphs \cup {Backspace, Enter, Ignored}

VARIABLES
  typed,         \* the scan codes the keyboard has sent, in order
  sent,          \* how many of them have been put in the output buffer
  out,           \* the output buffer: its status bit, and the last byte put there
  config,        \* the configuration byte
  asked,         \* command 0x20 waits for its reply
  pic,           \* IRQ1 in the PIC: masked, requested, in service
  setup,         \* the machine
  interrupts,    \* the CPU's interrupt flag
  idt,           \* has the interrupt descriptor table been loaded?
  handler,       \* how far the interrupt handler is
  kmain,         \* the call kmain is at
  step,          \* the steps it has done of that call
  dropped,       \* keys keyboard_init has read
  handled,       \* the bytes keyboard_handler has read, in order
  cursor_pos

controller == <<typed, sent, out, config, asked>>
cpu == <<interrupts, idt, handler>>
boot == <<kmain, step, dropped>>
screen == <<cells, crtc, cursor_pos>>
vars == <<controller, pic, setup, cpu, boot, handled, screen>>

K == INSTANCE Keyboard

(* A byte in the output buffer: the number of a key, or something else,    *)
(* such as the configuration byte.                                         *)
NotAKey == 0
IsKey(byte) == byte # NotAKey
CodeOf(byte) == IF IsKey(byte) THEN typed[byte] ELSE ReplyCode

FirstTypedCell == PromptPos + Len(Prompt) + 1   \* 336, one blank after the prompt

KeyboardVector == 33
PIC1_START_INTERRUPT == 32
PIC2_END_INTERRUPT == 47
-----------------------------------------------------------------------------
(* The hardware. *)

Line(buffer, cfg) == buffer.full /\ cfg.irq1

(* A rising line makes a request, a falling one may take it back. *)
Requested ==
  LET was == Line(out, config)  is == Line(out', config')
  IN  (~was /\ is) \/ (pic.irr /\ (is \/ setup.keepsRequest))

PicSeesLine == pic' = [pic EXCEPT !.irr = Requested]

Type(sc) ==
  /\ Len(typed) < MaxKeys
  /\ typed' = Append(typed, sc)
  /\ UNCHANGED <<sent, out, config, asked, pic, setup, cpu, boot, handled, screen>>

PutKey ==
  /\ ~out.full /\ config.clock /\ sent < Len(typed)
  /\ sent' = sent + 1
  /\ out' = [full |-> TRUE, byte |-> sent']
  /\ UNCHANGED <<typed, config, asked>>
  /\ PicSeesLine
  /\ UNCHANGED <<setup, cpu, boot, handled, screen>>

PutReply ==
  /\ ~out.full /\ asked
  /\ asked' = FALSE
  /\ out' = [full |-> TRUE, byte |-> NotAKey]
  /\ UNCHANGED <<typed, sent, config>>
  /\ PicSeesLine
  /\ UNCHANGED <<setup, cpu, boot, handled, screen>>

(* inb(0x60): the byte stays readable, the buffer is empty and the PIC     *)
(* sees the line fall.                                                     *)
ReadData ==
  /\ out' = [out EXCEPT !.full = FALSE]
  /\ UNCHANGED <<typed, sent, config, asked, setup>>
  /\ PicSeesLine
-----------------------------------------------------------------------------
(* kmain, which runs when no handler does.  After gives the order in which *)
(* it makes its calls, keyboard_init and the writes of fb_move_cursor in   *)
(* their parts.                                                            *)

(* Mutant: the PIC is initialised after the keyboard. *)
AfterPicLast ==
  [gdt_install |-> "idt_init",   idt_init |-> "drain1",  drain1 |-> "ask",  ask |-> "wait",
   wait |-> "write",  write |-> "drain2",  drain2 |-> "pic_init",  pic_init |-> "sti",
   sti |-> "prompt",  prompt |-> "prompt_cursor",  prompt_cursor |-> "set_cursor",
   set_cursor |-> "sync_cursor",  sync_cursor |-> "hlt"]

(* Mutant: interrupts are enabled before the keyboard is initialised. *)
AfterStiFirst ==
  [gdt_install |-> "pic_init",   pic_init |-> "idt_init",  idt_init |-> "sti",  sti |-> "drain1",
   drain1 |-> "ask",  ask |-> "wait",  wait |-> "write",  write |-> "drain2",
   drain2 |-> "prompt",  prompt |-> "prompt_cursor",  prompt_cursor |-> "set_cursor",
   set_cursor |-> "sync_cursor",  sync_cursor |-> "hlt"]

After ==
  [gdt_install |-> "pic_init",   pic_init |-> "idt_init",  idt_init |-> "drain1",
   drain1 |-> "ask",  ask |-> "wait",  wait |-> "write",  write |-> "drain2",  drain2 |-> "sti",
   sti |-> "prompt",  prompt |-> "prompt_cursor",  prompt_cursor |-> "set_cursor",
   set_cursor |-> "sync_cursor",  sync_cursor |-> "hlt"]

At(call) == handler = "none" /\ kmain = call

GoTo(call) == kmain' = call /\ step' = 0

Return == GoTo(After[kmain])

GdtInstall ==
  /\ At("gdt_install") /\ Return
  /\ UNCHANGED <<controller, pic, setup, cpu, dropped, handled, screen>>

(* Mutant: the PIC is unmasked, but not initialised. *)
PicInitUnmask ==
  /\ At("pic_init") /\ Return
  /\ pic' = [pic EXCEPT !.masked = FALSE]
  /\ UNCHANGED <<controller, setup, cpu, dropped, handled, screen>>

(* pic_init: the first command word clears the PIC, whatever it held; only *)
(* IRQ1 is let through.                                                    *)
PicInit ==
  /\ At("pic_init") /\ Return
  /\ pic' = [masked |-> FALSE, irr |-> FALSE, isr |-> FALSE]
  /\ UNCHANGED <<controller, setup, cpu, dropped, handled, screen>>

(* idt_init: every vector gets its handler. *)
IdtInit ==
  /\ At("idt_init") /\ Return
  /\ idt' = TRUE
  /\ UNCHANGED <<controller, pic, setup, interrupts, handler, dropped, handled, screen>>

(* keyboard_init *)

Discard == ReadData /\ dropped' = IF IsKey(out.byte) THEN dropped + 1 ELSE dropped

Drain(call) ==
  /\ At(call)
  /\ \/ out.full /\ Discard /\ UNCHANGED <<kmain, step>>
     \/ ~out.full /\ Return /\ UNCHANGED <<controller, pic, setup, dropped>>
  /\ UNCHANGED <<cpu, handled, screen>>

AskConfig ==
  /\ At("ask") /\ Return
  /\ asked' = TRUE
  /\ UNCHANGED <<typed, sent, out, config, pic, setup, cpu, dropped, handled, screen>>

ReadConfig ==
  /\ At("wait") /\ out.full
  /\ Discard /\ Return
  /\ UNCHANGED <<cpu, handled, screen>>

GiveUp ==
  /\ At("wait") /\ ~out.full /\ setup.slowReply
  /\ GoTo("drain2")
  /\ UNCHANGED <<controller, pic, setup, cpu, dropped, handled, screen>>

WriteConfig ==
  /\ At("write") /\ Return
  /\ config' = [irq1 |-> TRUE, clock |-> TRUE]
  /\ UNCHANGED <<typed, sent, out, asked>>
  /\ PicSeesLine
  /\ UNCHANGED <<setup, cpu, dropped, handled, screen>>

Sti ==
  /\ At("sti") /\ Return
  /\ interrupts' = TRUE
  /\ UNCHANGED <<controller, pic, setup, idt, handler, dropped, handled, screen>>

(* fb_write_at, one character at a time. *)
WritePrompt ==
  /\ At("prompt")
  /\ \/ /\ step < Len(Prompt)
        /\ cells' = WriteCell(cells, PromptPos + step, Prompt[step + 1])
        /\ step' = step + 1 /\ kmain' = kmain
     \/ step = Len(Prompt) /\ Return /\ cells' = cells
  /\ UNCHANGED <<controller, pic, setup, cpu, dropped, handled, crtc, cursor_pos>>

MoveCursor(call, pos) ==
  /\ At(call)
  /\ MoveCursorOutb(step + 1, pos)
  /\ IF step < 3 THEN step' = step + 1 /\ kmain' = kmain ELSE Return
  /\ UNCHANGED <<controller, pic, setup, cpu, dropped, handled, cells, cursor_pos>>

(* keyboard_set_cursor, before it moves the visible cursor. *)
SetCursor ==
  /\ At("set_cursor") /\ Return
  /\ cursor_pos' = FirstTypedCell
  /\ UNCHANGED <<controller, pic, setup, cpu, dropped, handled, cells, crtc>>

Kmain ==
  \/ GdtInstall \/ PicInit \/ IdtInit
  \/ Drain("drain1") \/ AskConfig \/ ReadConfig \/ GiveUp \/ WriteConfig \/ Drain("drain2")
  \/ Sti \/ WritePrompt \/ MoveCursor("prompt_cursor", PromptPos + Len(Prompt))
  \/ SetCursor \/ MoveCursor("sync_cursor", FirstTypedCell)
-----------------------------------------------------------------------------
(* The interrupt. *)

(* The CPU takes the PIC's request.  The vector's gate is an interrupt     *)
(* gate, so that nothing interrupts the handler; with no table the CPU     *)
(* shuts down.                                                             *)
Interrupt ==
  /\ interrupts /\ handler = "none"
  /\ ~pic.masked /\ pic.irr /\ ~pic.isr
  /\ pic' = [pic EXCEPT !.irr = FALSE, !.isr = TRUE]
  /\ interrupts' = FALSE
  /\ handler' = IF idt THEN "entered" ELSE "shutdown"
  /\ UNCHANGED <<controller, setup, idt, boot, handled, screen>>

(* interrupt_handler calls keyboard_handler, ... *)
Serve ==
  /\ handler = "entered" /\ handler' = "served"
  /\ ReadData
  /\ K!keyboard_handler(CodeOf(out.byte))
  /\ handled' = Append(handled, out.byte)
  /\ UNCHANGED <<interrupts, idt, boot>>

(* Mutant: only the second PIC is told of the interrupt's end. *)
pic_acknowledgeSecond(interrupt) == pic' = pic

pic_acknowledge(interrupt) ==
  pic' = IF interrupt < PIC1_START_INTERRUPT \/ interrupt > PIC2_END_INTERRUPT
         THEN pic ELSE [pic EXCEPT !.isr = FALSE]

(* ... tells the PIC, ... *)
Acknowledge ==
  /\ handler = "served" /\ handler' = "acknowledged"
  /\ pic_acknowledge(KeyboardVector)
  /\ UNCHANGED <<controller, setup, interrupts, idt, boot, handled, screen>>

(* ... and the stub returns to kmain. *)
Iret ==
  /\ handler = "acknowledged" /\ handler' = "none"
  /\ interrupts' = TRUE
  /\ UNCHANGED <<controller, pic, setup, idt, boot, handled, screen>>
-----------------------------------------------------------------------------
(* Interrupts are off since the boot loader; the state of the PIC and of   *)
(* the 8042 is what the firmware has left.                                 *)
Init ==
  /\ typed = <<>> /\ sent = 0 /\ asked = FALSE
  /\ out \in [full : BOOLEAN, byte : {NotAKey}]
  /\ pic \in [masked : BOOLEAN, irr : BOOLEAN, isr : BOOLEAN]
  /\ setup \in Setups /\ config = setup.firmware
  /\ interrupts = FALSE /\ idt = FALSE /\ handler = "none"
  /\ kmain = "gdt_install" /\ step = 0
  /\ dropped = 0 /\ handled = <<>>
  /\ cells = Write(Cleared, BootText) /\ cursor_pos = 0
  /\ crtc = [index |-> "low", high |-> HighByte(Len(BootText)), low |-> LowByte(Len(BootText))]

Hardware == (\E sc \in Typed : Type(sc)) \/ PutKey \/ PutReply

Handler == Interrupt \/ Serve \/ Acknowledge \/ Iret

Next == Hardware \/ Kmain \/ Handler

Spec == Init /\ [][Next]_vars

(* The CPU goes on, and so does the controller; nobody has to type. *)
FairSpec ==
  /\ Spec
  /\ WF_vars(PutKey) /\ WF_vars(PutReply)
  /\ WF_vars(Kmain) /\ WF_vars(Handler)
-----------------------------------------------------------------------------
(* The variables hold values of their types. *)
TypeOK ==
  /\ typed \in Seq(Typed) /\ Len(typed) <= MaxKeys
  /\ sent \in 0 .. Len(typed)
  /\ out \in [full : BOOLEAN, byte : 0 .. sent]
  /\ config \in Config
  /\ asked \in BOOLEAN /\ setup \in Setups /\ interrupts \in BOOLEAN /\ idt \in BOOLEAN
  /\ pic \in [masked : BOOLEAN, irr : BOOLEAN, isr : BOOLEAN]
  /\ handler \in {"none", "entered", "served", "acknowledged"}
  /\ kmain \in DOMAIN After \cup {"hlt"}
  /\ step \in Nat
  /\ dropped \in 0 .. sent
  /\ handled \in Seq(0 .. sent)
  /\ K!TypeOK

PicReady == kmain \notin {"gdt_install", "pic_init"}
KeyboardReady == PicReady /\ kmain \notin {"idt_init", "drain1", "ask", "wait", "write", "drain2"}

(* The keys keyboard_handler has read, and how far the keys have been read *)
(* by it or by keyboard_init.                                              *)
KeysHandled == {handled[i] : i \in DOMAIN handled} \ {NotAKey}
KeysRead == IF out.full /\ IsKey(out.byte) THEN sent - 1 ELSE sent

(* No key is skipped and none comes out of order: keyboard_handler reads   *)
(* every key from the first that keyboard_init has not read up to the one  *)
(* in the output buffer, and it reads them in the order they were typed.   *)
(* A PIC that serves requests that were taken back may hand it the key     *)
(* before a second time (interrupt_handler, keyboard_handler,              *)
(* keyboard_init).                                                         *)
KeysHandledInOrder ==
  /\ dropped + 1 .. KeysRead \subseteq KeysHandled
  /\ KeysHandled \subseteq (IF setup.keepsRequest THEN dropped ELSE dropped + 1) .. KeysRead
  /\ \A i, j \in DOMAIN handled :
       i < j /\ IsKey(handled[i]) /\ IsKey(handled[j]) =>
         handled[i] < handled[j] \/ (setup.keepsRequest /\ handled[i] = handled[j])

(* No wakeup is lost: once keyboard_init is done, a byte in the output     *)
(* buffer has made a request that the CPU will see, or is about to be read *)
(* by the handler; there will be no other edge (pic_init, keyboard_init,   *)
(* keyboard_handler).                                                      *)
PendingByteIsSignalled ==
  KeyboardReady /\ Line(out, config) => pic.irr \/ handler = "entered"

(* Once typed, every key is read: by keyboard_init, or by keyboard_handler *)
(* (the hlt loop of kmain, which counts on the keyboard's interrupts).     *)
EveryKeyHandled ==
  \A n \in 1 .. MaxKeys :
    Len(typed) >= n ~> (dropped >= n \/ \E i \in DOMAIN handled : handled[i] = n)

(* With a PIC that forgets a withdrawn request, a byte keyboard_init has   *)
(* read away is never taken for a key, and neither is one that             *)
(* keyboard_handler has read before (keyboard.c, above keyboard_init).     *)
ReadBytesNotHandled ==
  [][handler = "entered" /\ handler' = "served" /\ ~setup.keepsRequest => out.full]_vars

(* Typing does not write over what was on the screen (keyboard.c, above    *)
(* keyboard_set_cursor).                                                   *)
BootTextIntact == \A i \in 1 .. Len(BootText) : cells[i - 1] = BootText[i]
=============================================================================
