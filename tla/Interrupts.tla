----------------------------- MODULE Interrupts -----------------------------
(***************************************************************************)
(* Interrupts and exceptions on one processor with one stack: the gates    *)
(* that idt_init fills, the stubs of interrupt_handlers.s instruction by   *)
(* instruction, and interrupt_handler, which prints on the serial port     *)
(* whatever it is called for.  kmain prints there too, a text before sti,  *)
(* one after it, and one after it has read the boot loader's module list;  *)
(* from sti on it is interrupted anywhere, between the poll of the         *)
(* transmitter and the write as well.                                      *)
(*                                                                         *)
(* The module list is no longer mapped when kmain reads it: a page fault,  *)
(* whose handler returns to the same instruction.  The other exception is  *)
(* the NMI, which no flag holds back.                                      *)
(***************************************************************************)
EXTENDS Serial, Functions

CONSTANTS
  Irqs,            \* vectors of the PIC that are raised
  MaxInterrupts,   \* bound: interrupts and exceptions in a behaviour
  HalfWord,        \* values of half an address (2^16)
  StubBase,        \* address of the stub of vector 0
  Message,         \* characters interrupt_handler prints
  Welcome, WelcomeLimit,   \* lengths of a text kmain prints before sti and of its limit
  EnabledText,     \* length of what it prints after sti
  ReadyText        \* length of what it prints after the test of mods_count

NMI == 2
PageFault == 14
Vectors == 0 .. 255
Delivered == Irqs \cup {NMI, PageFault}   \* the vectors of this model

ASSUME InterruptsAssumption ==
  /\ Irqs \subseteq 32 .. 255
  /\ MaxInterrupts \in Nat /\ Message \in Nat \ {0} /\ StubBase \in Nat
  /\ HalfWord \in Nat \ {0} /\ StubBase + 255 < HalfWord * HalfWord
  /\ Welcome \in Nat \ {0} /\ WelcomeLimit \in Nat \ {0}
  /\ EnabledText \in Nat \ {0} /\ ReadyText \in Nat \ {0}

VARIABLES
  eip,        \* the next instruction: a program, and a place in it
  regs,       \* eax, ebx, ecx, edx
  enabled,    \* the interrupt flag
  nmiMasked,  \* the processor holds back a further NMI until an iret
  stack,      \* its words, the last pushed first
  modules,    \* does the boot loader announce the modules kmain asks for?
  left,       \* interrupts and exceptions that may still come
  frames      \* history: what each one found, the last first

cpu == <<eip, regs, enabled, nmiMasked, stack>>
vars == <<cpu, modules, left, frames, serialVars>>

Num(n) == <<n>>
Flags(f) == <<"flags", f>>
CodeSelector == 8
Junk == Num(99)

(* kmain's text: the characters before sti, those before it looks at the   *)
(* module list, and all of them.                                           *)
BeforeSti == serial_write(Welcome, WelcomeLimit)
BeforeModules == BeforeSti + serial_write_no_limit(EnabledText)
KmainLength == BeforeModules + serial_write_no_limit(ReadyText)
-----------------------------------------------------------------------------
(* The table. *)

StubAddress(vector) == StubBase + vector
StubAt(address) == address - StubBase

(* Mutant: the gates are trap gates (0x8F), which leave interrupts on. *)
idt_set_entryTrap(address) ==
  [offset_low |-> address % HalfWord, segment |-> CodeSelector, flags |-> 143,
   offset_high |-> (address \div HalfWord) % HalfWord]

idt_set_entry(address) ==
  [offset_low |-> address % HalfWord, segment |-> CodeSelector, flags |-> 142,
   offset_high |-> (address \div HalfWord) % HalfWord]

handler_table == [v \in Vectors |-> StubAddress(v)]

idt_init == [v \in Vectors |-> idt_set_entry(handler_table[v])]

(* How the processor reads a gate. *)
GateOffset(gate) == gate.offset_high * HalfWord + gate.offset_low
ClearsFlag(gate) == gate.flags % 16 = 14
-----------------------------------------------------------------------------
(* The stubs. *)

Op(do, arg) == [do |-> do, arg |-> arg]

PushesErrorCode == {8, 10, 11, 12, 13, 14, 17}   \* by the processor's manual

ErrorCodeStubs == {8, 10, 11, 12, 13, 14, 17}

no_error_code_interrupt_handler(v) == << Op("push_number", 0), Op("push_number", v) >>

(* Mutant: it pushes a code of its own over the processor's. *)
error_code_interrupt_handlerTwice(v) == << Op("push_number", 0), Op("push_number", v) >>

error_code_interrupt_handler(v) == << Op("push_number", v) >>

(* Mutant: the argument is read one word too low. *)
common_interrupt_handlerOffset ==
  << Op("push", "eax"), Op("push", "ebx"), Op("push", "ecx"), Op("push", "edx"),
     Op("load", 3), Op("push", "eax"), Op("call", 0), Op("drop", 1),
     Op("pop", "edx"), Op("pop", "ecx"), Op("pop", "ebx"), Op("pop", "eax"),
     Op("drop", 2), Op("iret", 0) >>

(* Mutant: two registers are restored in the order they were saved. *)
common_interrupt_handlerSwapped ==
  << Op("push", "eax"), Op("push", "ebx"), Op("push", "ecx"), Op("push", "edx"),
     Op("load", 4), Op("push", "eax"), Op("call", 0), Op("drop", 1),
     Op("pop", "edx"), Op("pop", "ebx"), Op("pop", "ecx"), Op("pop", "eax"),
     Op("drop", 2), Op("iret", 0) >>

common_interrupt_handler ==
  << Op("push", "eax"), Op("push", "ebx"), Op("push", "ecx"), Op("push", "edx"),
     Op("load", 4), Op("push", "eax"), Op("call", 0), Op("drop", 1),
     Op("pop", "edx"), Op("pop", "ecx"), Op("pop", "ebx"), Op("pop", "eax"),
     Op("drop", 2), Op("iret", 0) >>

Stub(v) ==
  (IF v \in ErrorCodeStubs THEN error_code_interrupt_handler(v)
   ELSE no_error_code_interrupt_handler(v)) \o common_interrupt_handler
-----------------------------------------------------------------------------
(* The processor takes an interrupt or exception. *)

Take(v) ==
  LET gate == idt_init[v]
      code == IF v \in PushesErrorCode THEN << Num(0) >> ELSE << >>
  IN  /\ left > 0 /\ left' = left - 1
      /\ frames' = << [vector |-> v, eip |-> eip, regs |-> regs,
                       enabled |-> enabled, stack |-> stack] >> \o frames
      /\ stack' = code \o << eip, Num(CodeSelector), Flags(enabled) >> \o stack
      /\ eip' = <<"stub", StubAt(GateOffset(gate)), 1>>
      /\ enabled' = (enabled /\ ~ClearsFlag(gate))
      /\ UNCHANGED <<regs, modules, serialVars>>

Irq(v) == enabled /\ Take(v) /\ UNCHANGED nmiMasked

(* idt_init runs between the text before sti and sti itself; up to then    *)
(* the table is not the kernel's, and an NMI is not modelled.              *)
IdtLoaded ==
  eip[1] = "kmain" => eip[3] = "sti" \/ (eip[3] # "serial_init" /\ eip[2] > BeforeSti)

NonMaskable == IdtLoaded /\ ~nmiMasked /\ nmiMasked' = TRUE /\ Take(NMI)

ReadModules ==
  /\ eip = <<"kmain", BeforeModules, "modules">>
  /\ \/ modules /\ Take(PageFault) /\ UNCHANGED nmiMasked
     \/ /\ ~modules /\ eip' = <<"kmain", BeforeModules + 1, "poll">>
        /\ UNCHANGED <<regs, enabled, nmiMasked, stack, modules, left, frames, serialVars>>
-----------------------------------------------------------------------------
(* One instruction of a stub. *)

Push(w) == stack' = << w >> \o stack
Drop(n) == stack' = SubSeq(stack, n + 1, Len(stack))

Execute ==
  /\ eip[1] = "stub"
  /\ LET op == Stub(eip[2])[eip[3]]
         Onward == eip' = [eip EXCEPT ![3] = @ + 1] /\ UNCHANGED <<enabled, nmiMasked, frames>>
     IN \/ op.do = "push_number" /\ Push(Num(op.arg)) /\ Onward /\ UNCHANGED regs
        \/ op.do = "push" /\ Push(regs[op.arg]) /\ Onward /\ UNCHANGED regs
        \/ /\ op.do = "pop" /\ Drop(1) /\ Onward
           /\ regs' = [regs EXCEPT ![op.arg] = stack[1]]
        \/ /\ op.do = "load" /\ Onward
           /\ regs' = [regs EXCEPT !["eax"] = stack[op.arg + 1]]
           /\ UNCHANGED stack
        \/ op.do = "drop" /\ Drop(op.arg) /\ Onward /\ UNCHANGED regs
        \/ /\ op.do = "call"
           /\ Push([eip EXCEPT ![3] = @ + 1])
           /\ eip' = <<"interrupt_handler", 1, "poll">>
           /\ regs' = [regs EXCEPT !["ecx"] = Junk, !["edx"] = Junk]   \* the C code's to use
           /\ UNCHANGED <<enabled, nmiMasked, frames>>
        \/ /\ op.do = "iret"
           /\ eip' = stack[1] /\ enabled' = stack[3][2] /\ Drop(3)
           /\ nmiMasked' = FALSE
           /\ frames' = Tail(frames)
           /\ UNCHANGED regs
  /\ UNCHANGED <<modules, left, serialVars>>
-----------------------------------------------------------------------------
(* serial_write_char, in kmain and in interrupt_handler: the poll, the     *)
(* test of what it returned, and the write.                                *)

InHandler == eip[1] = "interrupt_handler"

Argument == stack[2]

Character == IF InHandler THEN <<"int", Argument[1], eip[2]>> ELSE <<"kmain", 0, eip[2]>>

(* The place after the character has been written. *)
AfterCharacter ==
  IF InHandler
  THEN IF eip[2] < Message THEN <<"interrupt_handler", eip[2] + 1, "poll">>
       ELSE <<"interrupt_handler", 0, "return">>
  ELSE IF eip[2] = BeforeSti THEN <<"kmain", eip[2], "sti">>
  ELSE IF eip[2] = BeforeModules THEN <<"kmain", eip[2], "modules">>
  ELSE IF eip[2] < KmainLength THEN <<"kmain", eip[2] + 1, "poll">>
       ELSE <<"kmain", 0, "hlt">>

Poll ==
  /\ eip[1] # "stub" /\ eip[3] = "poll"
  /\ regs' = [regs EXCEPT !["eax"] = Num(LineStatus)]
  /\ eip' = [eip EXCEPT ![3] = "test"]
  /\ UNCHANGED <<enabled, nmiMasked, stack, modules, left, frames, serialVars>>

Test ==
  /\ eip[1] # "stub" /\ eip[3] = "test"
  /\ eip' = [eip EXCEPT ![3] = IF serial_is_transmit_fifo_empty(regs["eax"][1])
                               THEN "send" ELSE "poll"]
  /\ UNCHANGED <<regs, enabled, nmiMasked, stack, modules, left, frames, serialVars>>

Send ==
  /\ eip[1] # "stub" /\ eip[3] = "send"
  /\ OutbData(Character)
  /\ eip' = AfterCharacter
  /\ UNCHANGED <<regs, enabled, nmiMasked, stack, modules, left, frames>>

(* interrupt_handler returns.  It may have used eax, ecx, edx and the      *)
(* place of its argument, which are its own by the calling convention.     *)
HandlerReturn ==
  /\ eip = <<"interrupt_handler", 0, "return">>
  /\ eip' = stack[1]
  /\ regs' = [regs EXCEPT !["eax"] = Junk]
  /\ stack' = << Junk >> \o SubSeq(stack, 3, Len(stack))
  /\ UNCHANGED <<enabled, nmiMasked, modules, left, frames, serialVars>>
-----------------------------------------------------------------------------
(* kmain before its text: serial_init; and between its texts: sti. *)

SerialInit ==
  /\ eip[1] = "kmain" /\ eip[3] = "serial_init" /\ eip[2] <= Len(serial_init)
  /\ LET out == serial_init[eip[2]] IN Register(out.port, out.value)
  /\ eip' = IF eip[2] < Len(serial_init) THEN [eip EXCEPT ![2] = @ + 1]
            ELSE <<"kmain", 1, "poll">>
  /\ UNCHANGED <<fifo, line, written, regs, enabled, nmiMasked, stack, modules, left, frames>>

Sti ==
  /\ eip = <<"kmain", BeforeSti, "sti">>
  /\ enabled' = TRUE /\ eip' = <<"kmain", BeforeSti + 1, "poll">>
  /\ UNCHANGED <<regs, nmiMasked, stack, modules, left, frames, serialVars>>

Init ==
  /\ eip = <<"kmain", 1, "serial_init">>
  /\ regs = [eax |-> Num(0), ebx |-> Num(1), ecx |-> Num(2), edx |-> Num(3)]
  /\ enabled = FALSE /\ nmiMasked = FALSE /\ stack = << >>
  /\ modules \in BOOLEAN /\ left = MaxInterrupts /\ frames = << >>
  /\ uart = [dlab |-> FALSE, low |-> 12 % ByteSize, high |-> 0, fifoOn |-> FALSE]
  /\ fifo = << >> /\ line = << >> /\ written = << >>

Uart == Transmit /\ UNCHANGED <<cpu, modules, left, frames>>

Program == Execute \/ Poll \/ Test \/ Send \/ HandlerReturn \/ SerialInit \/ Sti \/ ReadModules

Next == Program \/ Uart \/ NonMaskable \/ \E v \in Irqs : Irq(v)

Spec == Init /\ [][Next]_vars

(* The processor runs and the UART sends; nothing has to interrupt. *)
FairSpec == Spec /\ WF_vars(Program) /\ WF_vars(Uart)
-----------------------------------------------------------------------------
Places ==
  {<<p, i, op>> : p \in {"kmain", "interrupt_handler"}, i \in 0 .. KmainLength + Message + 8,
                  op \in {"serial_init", "poll", "test", "send", "sti", "modules", "hlt", "return"}}
    \cup {<<"stub", v, i>> : v \in Delivered, i \in 1 .. 16}

Numbers == {Num(n) : n \in 0 .. 255}
Words == Numbers \cup {Flags(f) : f \in BOOLEAN} \cup Places

(* The variables hold values of their types, and the stack has room for    *)
(* two nested handlers of at most 11 words and nothing else.               *)
TypeOK ==
  /\ eip \in Places
  /\ DOMAIN regs = {"eax", "ebx", "ecx", "edx"}
  /\ \A r \in DOMAIN regs : regs[r] \in Numbers
  /\ enabled \in BOOLEAN /\ nmiMasked \in BOOLEAN /\ modules \in BOOLEAN
  /\ left \in 0 .. MaxInterrupts
  /\ \A i \in DOMAIN stack : stack[i] \in Words
  /\ Len(frames) <= 2 /\ Len(stack) <= 11 * Len(frames)
  /\ Len(fifo) <= Room

(* Whatever is interrupted goes on as if nothing had happened: an iret     *)
(* brings back the registers, the flag, the stack and the place that the   *)
(* interrupt found (interrupt_handlers.s, with and without error code).    *)
ReturnsRestore ==
  [][Len(frames') < Len(frames) =>
       LET f == Head(frames) IN
       eip' = f.eip /\ regs' = f.regs /\ enabled' = f.enabled /\ stack' = f.stack]_vars

(* interrupt_handler is given the vector of the interrupt it runs for      *)
(* (idt_set_entry, the stub and the argument on the stack).                *)
HandlerToldVector == InHandler => Argument = Num(Head(frames).vector)

(* No character is lost: although the poll of one writer may be out of     *)
(* date when it writes, the FIFO takes what the others have put there in   *)
(* between (serial_write_char, serial_configure_fifo).                     *)
NothingLost == line \o fifo = written

(* Characters go out at 115200 baud (comment of serial_init). *)
LineSpeed == written # << >> => Divisor = SERIAL_BAUD_115200

(* The log can be read: kmain's text comes in order, and a message of      *)
(* interrupt_handler is in one piece, unless an NMI's message is in it     *)
(* (the gates clear the interrupt flag).                                   *)
LogReadable ==
  /\ \A p, q \in DOMAIN written :
       p < q /\ written[p][1] = "kmain" /\ written[q][1] = "kmain" => written[p][3] < written[q][3]
  /\ \A p \in DOMAIN written :
       LET c == written[p] IN
       c[1] = "int" /\ c[3] > 1 =>
         /\ p > 1
         /\ written[p - 1] \in {<<"int", c[2], c[3] - 1>>}
                                 \cup (IF c[2] # NMI THEN {<<"int", NMI, Message>>} ELSE {})

(* kmain's text arrives, although serial_write_char waits without limit    *)
(* and is interrupted (serial_write_no_limit): the whole of it when no     *)
(* modules are announced, and what comes before the test of mods_count     *)
(* when they are, as kmain gets no further then.                           *)
TextArrives ==
  <>(\A i \in 1 .. IF modules THEN BeforeModules ELSE KmainLength :
       <<"kmain", 0, i>> \in Range(line))
=============================================================================
