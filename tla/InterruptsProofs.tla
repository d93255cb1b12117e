-------------------------- MODULE InterruptsProofs --------------------------
(***************************************************************************)
(* Every interrupt returns to what it found, for any vectors, stubs        *)
(* anywhere and interrupts inside interrupts to any depth.                 *)
(*                                                                         *)
(* A stub that is at some instruction has put so many words on the stack,  *)
(* over what the interrupt found; which words, and which registers it has  *)
(* already changed or put back, depends on the instruction only.  That     *)
(* holds of the running stub, and of each one that was interrupted: what   *)
(* its interrupter found is a stub at some instruction, too.               *)
(***************************************************************************)
EXTENDS Interrupts, TLAPS

CPart == {"poll", "test", "send", "return"}
KmainPart == {"serial_init", "poll", "test", "send", "sti", "modules", "hlt"}

Index == 0 .. KmainLength + Message + 8

(* The places, words and register contents of TypeOK. *)
Place ==
  ({"kmain", "interrupt_handler"} \X Index \X (CPart \cup KmainPart))
    \cup ({"stub"} \X Delivered \X (1 .. 16))

Word == Place \cup Numbers \cup {Flags(b) : b \in BOOLEAN}

Registers == [eax : Numbers, ebx : Numbers, ecx : Numbers, edx : Numbers]

HandlerPlaces ==
  ({"interrupt_handler"} \X (1 .. Message) \X {"poll", "test", "send"})
    \cup {<<"interrupt_handler", 0, "return">>}

Frame ==
  [vector : Delivered, eip : Place, regs : Registers, enabled : BOOLEAN, stack : Seq(Word)]

(* The instructions of a stub, those of the common part from 1 on. *)
Preamble(v) == IF v \in ErrorCodeStubs THEN 1 ELSE 2
StubPlace(v, j) == <<"stub", v, Preamble(v) + j>>

(* The words the stub has on the stack above what the processor pushes for *)
(* every interrupt, when it comes to instruction j.                        *)
Depth(j) ==
  IF j <= 5 THEN j + 1 ELSE IF j = 6 THEN 6 ELSE IF j <= 8 THEN 7
  ELSE IF j < 14 THEN 15 - j ELSE 0

(* s has n words over the return address, flags and stack of f, and among  *)
(* them the vector and the registers that have been saved.                 *)
Above(f, s, n) ==
  /\ s \in Seq(Word) /\ Len(s) = n + 3 + Len(f.stack)
  /\ s[n + 1] = f.eip /\ s[n + 3] = Flags(f.enabled)
  /\ \A i \in 1 .. Len(f.stack) : s[n + 3 + i] = f.stack[i]
  /\ n >= 2 => s[n - 1] = Num(f.vector)
  /\ n >= 3 => s[n - 2] = f.regs.eax
  /\ n >= 4 => s[n - 3] = f.regs.ebx
  /\ n >= 5 => s[n - 4] = f.regs.ecx
  /\ n >= 6 => s[n - 5] = f.regs.edx

(* The registers at instruction j: untouched, changed, put back. *)
RegistersAt(f, r, j) ==
  /\ j <= 5 \/ j >= 13 => r.eax = f.regs.eax
  /\ j <= 5 \/ j >= 12 => r.ebx = f.regs.ebx
  /\ j <= 5 \/ j >= 11 => r.ecx = f.regs.ecx
  /\ j <= 5 \/ j >= 10 => r.edx = f.regs.edx
  /\ j = 6 => r.eax = Num(f.vector)

InStub(f, ip, r, s) ==
  \E j \in 1 - Preamble(f.vector) .. 14 :
    /\ ip = StubPlace(f.vector, j)
    /\ Above(f, s, Depth(j)) /\ RegistersAt(f, r, j)
    /\ j = 7 => s[1] = Num(f.vector)

InC(f, ip, s) ==
  /\ ip \in HandlerPlaces
  /\ Above(f, s, 8)
  /\ s[1] = StubPlace(f.vector, 8) /\ s[2] = Num(f.vector)

Serving(f, ip, r, s) == InStub(f, ip, r, s) \/ InC(f, ip, s)

InKmain(ip, s) == ip \in {"kmain"} \X Index \X KmainPart /\ s = <<>>

MachineOK ==
  /\ eip \in Place /\ regs \in Registers /\ enabled \in BOOLEAN /\ stack \in Seq(Word)
  /\ frames \in Seq(Frame)

(* What runs is kmain, or the stub of the last interrupt. *)
Running == IF frames = <<>> THEN InKmain(eip, stack) ELSE Serving(frames[1], eip, regs, stack)

(* What was interrupted is kmain, or the stub of the interrupt before. *)
Interrupted ==
  \A k \in 1 .. Len(frames) :
    IF k = Len(frames) THEN InKmain(frames[k].eip, frames[k].stack)
    ELSE Serving(frames[k + 1], frames[k].eip, frames[k].regs, frames[k].stack)

ReturnInv == MachineOK /\ Running /\ Interrupted
-----------------------------------------------------------------------------
(* Words and sequences of them. *)

LEMMA WordFacts ==
  /\ \A n \in 0 .. 255 : Num(n) \in Numbers /\ Num(n) \in Word
  /\ \A b \in BOOLEAN : Flags(b) \in Word
  /\ \A p \in Place : p \in Word
  /\ Numbers \subseteq Word
  /\ \A v \in Delivered : \A n \in 1 .. 16 : <<"stub", v, n>> \in Place
  BY DEF Word, Place, Numbers

LEMMA DeliveredFacts ==
  /\ Delivered \subseteq Vectors /\ Vectors \subseteq Nat
  /\ NMI \in Delivered /\ PageFault \in Delivered /\ Irqs \subseteq Delivered
  BY InterruptsAssumption DEF Delivered, Vectors, NMI, PageFault

LEMMA IndexFacts ==
  /\ KmainLength \in Nat /\ Message \in Nat \ {0} /\ 0 .. 8 \subseteq Index
  /\ 1 .. Message \subseteq Index
  /\ \A n \in Index : n < KmainLength => n + 1 \in Index
  /\ BeforeSti \in Index /\ BeforeSti + 1 \in Index
  /\ BeforeModules \in Index /\ BeforeModules + 1 \in Index
<1>1. BeforeSti \in Nat /\ BeforeModules \in Nat /\ KmainLength \in Nat
  BY InterruptsAssumption
     DEF BeforeSti, BeforeModules, KmainLength, serial_write, serial_write_no_limit
<1>2. BeforeSti < BeforeModules /\ BeforeModules < KmainLength
  BY InterruptsAssumption
     DEF BeforeSti, BeforeModules, KmainLength, serial_write, serial_write_no_limit
<1>3. Message \in Nat \ {0}
  BY InterruptsAssumption
<1> QED BY <1>1, <1>2, <1>3 DEF Index

(* Places in the C programs. *)
LEMMA CPlaces ==
  /\ HandlerPlaces \subseteq Place
  /\ {"kmain"} \X Index \X KmainPart \subseteq Place
  BY IndexFacts DEF Place, HandlerPlaces, CPart

(* The port writes of serial_init. *)
LEMMA SerialProgram ==
  LET s == serial_init IN
  /\ Len(s) = 7
  /\ s[1] = Out("line", 128) /\ s[2] = Out("data", 1 % ByteSize)
  /\ s[3] = Out("data+1", 1 \div ByteSize) /\ s[4] = Out("line", 3)
  /\ s[5] = Out("line", 3) /\ s[6] = Out("fifo", 199) /\ s[7] = Out("modem", 11)
  BY DEF serial_init, serial_configure_baud_rate, serial_configure_line,
         serial_configure_fifo, serial_configure_modem, SERIAL_BAUD_115200

LEMMA PushFacts ==
  ASSUME NEW s \in Seq(Word), NEW w \in Word
  PROVE  /\ << w >> \o s \in Seq(Word) /\ Len(<< w >> \o s) = Len(s) + 1
         /\ (<< w >> \o s)[1] = w
         /\ \A i \in 1 .. Len(s) : (<< w >> \o s)[i + 1] = s[i]
<1>1. << w >> \in Seq(Word) /\ Len(<< w >>) = 1 /\ << w >>[1] = w
  OBVIOUS
<1> QED BY <1>1

LEMMA DropFacts ==
  ASSUME NEW s \in Seq(Word), NEW n \in 0 .. Len(s)
  PROVE  /\ SubSeq(s, n + 1, Len(s)) \in Seq(Word) /\ Len(SubSeq(s, n + 1, Len(s))) = Len(s) - n
         /\ \A i \in 1 .. Len(s) - n : SubSeq(s, n + 1, Len(s))[i] = s[i + n]
  OBVIOUS

LEMMA ConcatFacts ==
  ASSUME NEW s \in Seq(Word), NEW t \in Seq(Word)
  PROVE  /\ s \o t \in Seq(Word) /\ Len(s \o t) = Len(s) + Len(t)
         /\ \A i \in 1 .. Len(s) : (s \o t)[i] = s[i]
         /\ \A i \in 1 .. Len(t) : (s \o t)[Len(s) + i] = t[i]
  OBVIOUS

(* A place, one instruction on. *)
LEMMA NextPlace ==
  ASSUME NEW v \in Delivered, NEW i \in Nat
  PROVE  [<<"stub", v, i>> EXCEPT ![3] = @ + 1] = <<"stub", v, i + 1>>
  OBVIOUS

(* The instructions, by their number. *)
LEMMA CommonOps ==
  LET c == common_interrupt_handler IN
  /\ Len(c) = 14
  /\ c[1] = Op("push", "eax") /\ c[2] = Op("push", "ebx") /\ c[3] = Op("push", "ecx")
  /\ c[4] = Op("push", "edx") /\ c[5] = Op("load", 4) /\ c[6] = Op("push", "eax")
  /\ c[7] = Op("call", 0) /\ c[8] = Op("drop", 1) /\ c[9] = Op("pop", "edx")
  /\ c[10] = Op("pop", "ecx") /\ c[11] = Op("pop", "ebx") /\ c[12] = Op("pop", "eax")
  /\ c[13] = Op("drop", 2) /\ c[14] = Op("iret", 0)
  BY DEF common_interrupt_handler

LEMMA StubOps ==
  ASSUME NEW v \in Delivered
  PROVE  /\ Preamble(v) \in {1, 2}
         /\ Stub(v)[Preamble(v)] = Op("push_number", v)
         /\ Preamble(v) = 2 => Stub(v)[1] = Op("push_number", 0)
         /\ \A j \in 1 .. 14 : Stub(v)[Preamble(v) + j] = common_interrupt_handler[j]
<1>1. CASE v \in ErrorCodeStubs
  <2>1. Stub(v) = << Op("push_number", v) >> \o common_interrupt_handler
    BY <1>1 DEF Stub, error_code_interrupt_handler
  <2> QED BY <1>1, <2>1, CommonOps DEF Preamble, common_interrupt_handler
<1>2. CASE v \notin ErrorCodeStubs
  <2>1. Stub(v) = << Op("push_number", 0), Op("push_number", v) >> \o common_interrupt_handler
    BY <1>2 DEF Stub, no_error_code_interrupt_handler
  <2> QED BY <1>2, <2>1, CommonOps DEF Preamble, common_interrupt_handler
<1> QED BY <1>1, <1>2

(* A gate leads to the stub whose address it was given. *)
LEMMA GateLeads ==
  ASSUME NEW v \in Delivered
  PROVE  StubAt(GateOffset(idt_init[v])) = v
<1>1. \A h \in Nat \ {0} : \A a \in Nat :
        a < h * h => ((a \div h) % h) * h + (a % h) = a
  <2>1. \A h \in Nat \ {0} : \A a \in Nat :
          a < h * h => a \div h \in 0 .. h - 1 /\ (a \div h) * h + (a % h) = a
    BY Z3
  <2>2. \A h \in Nat \ {0} : \A x \in 0 .. h - 1 : x % h = x
    BY Z3
  <2> QED BY <2>1, <2>2
<1>2. /\ StubAddress(v) \in Nat /\ HalfWord \in Nat \ {0} /\ StubAddress(v) < HalfWord * HalfWord
  <2>1. \A q, b, x \in Nat : x <= 255 /\ b + 255 < q => b + x < q
    BY Z3
  <2>2. v \in Nat /\ v <= 255 /\ StubBase \in Nat /\ HalfWord * HalfWord \in Nat
        /\ HalfWord \in Nat \ {0} /\ StubBase + 255 < HalfWord * HalfWord
    BY InterruptsAssumption, DeliveredFacts DEF Vectors
  <2> QED BY <2>1, <2>2 DEF StubAddress
<1>3. GateOffset(idt_init[v]) = StubAddress(v)
  BY <1>1, <1>2, DeliveredFacts DEF GateOffset, idt_init, idt_set_entry, handler_table
<1> QED BY <1>2, <1>3, InterruptsAssumption, DeliveredFacts DEF StubAt, StubAddress, Vectors
-----------------------------------------------------------------------------
(* A word more, or some fewer, over what the interrupt found. *)

LEMMA PushAbove ==
  ASSUME NEW f \in Frame, NEW s, NEW n \in Nat, NEW w \in Word, Above(f, s, n),
         n + 1 = 2 => w = Num(f.vector), n + 1 = 3 => w = f.regs.eax,
         n + 1 = 4 => w = f.regs.ebx, n + 1 = 5 => w = f.regs.ecx, n + 1 = 6 => w = f.regs.edx
  PROVE  Above(f, << w >> \o s, n + 1)
<1> DEFINE t == << w >> \o s
           L == Len(s)
           K == Len(f.stack)
<1>1. s \in Seq(Word) /\ L = n + 3 + K /\ K \in Nat
  BY DEF Above, Frame
<1>0. L \in Nat
  <2> HIDE DEF L, K
  <2> QED BY <1>1
<1>2. t \in Seq(Word) /\ Len(t) = L + 1 /\ t[1] = w /\ \A i \in 1 .. L : t[i + 1] = s[i]
  BY <1>1, PushFacts
<1>12. \A i \in 1 .. K : s[n + 3 + i] = f.stack[i]
  BY DEF Above
<1> HIDE DEF t, L, K
<1>3. t[n + 2] = f.eip /\ t[n + 4] = Flags(f.enabled)
  <2>1. n + 1 \in 1 .. L /\ n + 3 \in 1 .. L
    BY <1>0, <1>1
  <2>2. t[(n + 1) + 1] = s[n + 1] /\ t[(n + 3) + 1] = s[n + 3]
    BY <1>2, <2>1
  <2> QED BY <2>2 DEF Above
<1>4. \A i \in 1 .. K : t[n + 1 + 3 + i] = f.stack[i]
  <2> SUFFICES ASSUME NEW i \in 1 .. K PROVE t[n + 1 + 3 + i] = f.stack[i]
    OBVIOUS
  <2>1. n + 3 + i \in 1 .. L /\ (n + 3 + i) + 1 = n + 1 + 3 + i
    BY <1>0, <1>1
  <2>2. t[(n + 3 + i) + 1] = s[n + 3 + i]
    BY <1>2, <2>1
  <2> QED BY <1>12, <2>1, <2>2
<1>5. \A k \in 0 .. 4 : n + 1 > k + 2 => t[(n + 1) - (k + 1)] = s[n - (k + 1)]
  <2> SUFFICES ASSUME NEW k \in 0 .. 4, n + 1 > k + 2
               PROVE  t[(n + 1) - (k + 1)] = s[n - (k + 1)]
    OBVIOUS
  <2>1. n - (k + 1) \in 1 .. L /\ (n - (k + 1)) + 1 = (n + 1) - (k + 1)
    BY <1>0, <1>1
  <2> QED BY <1>2, <2>1
<1>6. /\ n + 1 > 2 => t[n] = s[n - 1]
      /\ n + 1 > 3 => t[n - 1] = s[n - 2]
      /\ n + 1 > 4 => t[n - 2] = s[n - 3]
      /\ n + 1 > 5 => t[n - 3] = s[n - 4]
      /\ n + 1 > 6 => t[n - 4] = s[n - 5]
  BY <1>5
<1>7. /\ n + 1 >= 2 => t[n] = Num(f.vector)
      /\ n + 1 >= 3 => t[n - 1] = f.regs.eax
      /\ n + 1 >= 4 => t[n - 2] = f.regs.ebx
      /\ n + 1 >= 5 => t[n - 3] = f.regs.ecx
      /\ n + 1 >= 6 => t[n - 4] = f.regs.edx
  <2>1. /\ n >= 2 => s[n - 1] = Num(f.vector)
        /\ n >= 3 => s[n - 2] = f.regs.eax
        /\ n >= 4 => s[n - 3] = f.regs.ebx
        /\ n >= 5 => s[n - 4] = f.regs.ecx
        /\ n >= 6 => s[n - 5] = f.regs.edx
    BY DEF Above
  <2>2. /\ n = 1 => t[n] = w
        /\ n = 2 => t[n - 1] = w
        /\ n = 3 => t[n - 2] = w
        /\ n = 4 => t[n - 3] = w
        /\ n = 5 => t[n - 4] = w
    BY <1>2
  <2>3. n + 1 >= 2 => t[n] = Num(f.vector)
    BY <1>6, <2>1, <2>2
  <2>4. n + 1 >= 3 => t[n - 1] = f.regs.eax
    BY <1>6, <2>1, <2>2
  <2>5. n + 1 >= 4 => t[n - 2] = f.regs.ebx
    BY <1>6, <2>1, <2>2
  <2>6. n + 1 >= 5 => t[n - 3] = f.regs.ecx
    BY <1>6, <2>1, <2>2
  <2>7. n + 1 >= 6 => t[n - 4] = f.regs.edx
    <3>1. n + 1 >= 6 => n = 5 \/ n + 1 > 6
      OBVIOUS
    <3> QED BY <1>6, <2>1, <2>2, <3>1
  <2> QED BY <2>3, <2>4, <2>5, <2>6, <2>7
<1>8. /\ n + 1 >= 2 => t[(n + 1) - 1] = Num(f.vector)
      /\ n + 1 >= 3 => t[(n + 1) - 2] = f.regs.eax
      /\ n + 1 >= 4 => t[(n + 1) - 3] = f.regs.ebx
      /\ n + 1 >= 5 => t[(n + 1) - 4] = f.regs.ecx
      /\ n + 1 >= 6 => t[(n + 1) - 5] = f.regs.edx
      /\ t[(n + 1) + 1] = f.eip /\ t[(n + 1) + 3] = Flags(f.enabled)
  BY <1>3, <1>7
<1>9. Len(t) = (n + 1) + 3 + K
  BY <1>0, <1>1, <1>2
<1>10. \A i \in 1 .. K : t[(n + 1) + 3 + i] = f.stack[i]
  BY <1>4
<1>11. Above(f, t, n + 1)
  BY <1>2, <1>8, <1>9, <1>10 DEF Above, K
<1> QED BY <1>11 DEF t

LEMMA DropAbove ==
  ASSUME NEW f \in Frame, NEW s, NEW n \in Nat, NEW k \in 0 .. n, Above(f, s, n)
  PROVE  Above(f, SubSeq(s, k + 1, Len(s)), n - k)
<1> DEFINE t == SubSeq(s, k + 1, Len(s))
           m == n - k
           L == Len(s)
           K == Len(f.stack)
<1>1. s \in Seq(Word) /\ L = n + 3 + K /\ K \in Nat
  BY DEF Above, Frame
<1>0. L \in Nat
  <2> HIDE DEF L, K
  <2> QED BY <1>1
<1>12. \A i \in 1 .. K : s[n + 3 + i] = f.stack[i]
  BY DEF Above
<1>2. k \in 0 .. L /\ m \in Nat /\ m + k = n
  <2> HIDE DEF L, K
  <2>1. k \in Nat /\ k <= n
    OBVIOUS
  <2> QED BY <1>0, <1>1, <2>1
<1>3. t \in Seq(Word) /\ Len(t) = L - k /\ \A i \in 1 .. L - k : t[i] = s[i + k]
  BY <1>1, <1>2, DropFacts
<1> HIDE DEF t, L, K, m
<1>4. t[m + 1] = f.eip /\ t[m + 3] = Flags(f.enabled)
  <2>1. m + 1 \in 1 .. L - k /\ m + 3 \in 1 .. L - k
        /\ m + 1 + k = n + 1 /\ m + 3 + k = n + 3
    BY <1>0, <1>1, <1>2
  <2>2. t[m + 1] = s[n + 1] /\ t[m + 3] = s[n + 3]
    BY <1>3, <2>1
  <2> QED BY <2>2 DEF Above
<1>5. \A i \in 1 .. K : t[m + 3 + i] = f.stack[i]
  <2> SUFFICES ASSUME NEW i \in 1 .. K PROVE t[m + 3 + i] = f.stack[i]
    OBVIOUS
  <2>1. m + 3 + i \in 1 .. L - k /\ (m + 3 + i) + k = n + 3 + i
    BY <1>0, <1>1, <1>2
  <2>2. t[m + 3 + i] = s[n + 3 + i]
    BY <1>3, <2>1
  <2> QED BY <1>12, <2>2
<1>6. \A d \in 1 .. 5 : m >= d + 1 => n >= d + 1 /\ t[m - d] = s[n - d]
  <2> SUFFICES ASSUME NEW d \in 1 .. 5, m >= d + 1
               PROVE  n >= d + 1 /\ t[m - d] = s[n - d]
    OBVIOUS
  <2>1. m - d \in 1 .. L - k /\ (m - d) + k = n - d
    BY <1>0, <1>1, <1>2
  <2> QED BY <1>3, <2>1
<1>7. /\ m >= 2 => n >= 2 /\ t[m - 1] = s[n - 1]
      /\ m >= 3 => n >= 3 /\ t[m - 2] = s[n - 2]
      /\ m >= 4 => n >= 4 /\ t[m - 3] = s[n - 3]
      /\ m >= 5 => n >= 5 /\ t[m - 4] = s[n - 4]
      /\ m >= 6 => n >= 6 /\ t[m - 5] = s[n - 5]
  BY <1>2, <1>6
<1>8. /\ m >= 2 => t[m - 1] = Num(f.vector)
      /\ m >= 3 => t[m - 2] = f.regs.eax
      /\ m >= 4 => t[m - 3] = f.regs.ebx
      /\ m >= 5 => t[m - 4] = f.regs.ecx
      /\ m >= 6 => t[m - 5] = f.regs.edx
  BY <1>7 DEF Above
<1>9. Len(t) = m + 3 + K
  BY <1>0, <1>1, <1>2, <1>3
<1>10. Above(f, t, m)
  BY <1>3, <1>4, <1>5, <1>8, <1>9 DEF Above, K
<1> QED BY <1>10 DEF t, m
-----------------------------------------------------------------------------
(* What each instruction of a stub does. *)

LEMMA DoesPushNumber ==
  ASSUME NEW v \in Delivered, NEW i \in Nat, NEW n, Execute,
         eip = <<"stub", v, i>>, Stub(v)[i] = Op("push_number", n)
  PROVE  /\ stack' = << Num(n) >> \o stack /\ eip' = <<"stub", v, i + 1>>
         /\ UNCHANGED <<regs, enabled, frames>>
  BY NextPlace DEF Execute, Op, Push

LEMMA DoesPush ==
  ASSUME NEW v \in Delivered, NEW i \in Nat, NEW r, Execute,
         eip = <<"stub", v, i>>, Stub(v)[i] = Op("push", r)
  PROVE  /\ stack' = << regs[r] >> \o stack /\ eip' = <<"stub", v, i + 1>>
         /\ UNCHANGED <<regs, enabled, frames>>
  BY NextPlace DEF Execute, Op, Push

LEMMA DoesPop ==
  ASSUME NEW v \in Delivered, NEW i \in Nat, NEW r, Execute,
         eip = <<"stub", v, i>>, Stub(v)[i] = Op("pop", r)
  PROVE  /\ regs' = [regs EXCEPT ![r] = stack[1]] /\ stack' = SubSeq(stack, 2, Len(stack))
         /\ eip' = <<"stub", v, i + 1>> /\ UNCHANGED <<enabled, frames>>
  BY NextPlace DEF Execute, Op, Drop

LEMMA DoesLoad ==
  ASSUME NEW v \in Delivered, NEW i \in Nat, NEW n \in Nat, Execute,
         eip = <<"stub", v, i>>, Stub(v)[i] = Op("load", n)
  PROVE  /\ regs' = [regs EXCEPT !["eax"] = stack[n + 1]]
         /\ eip' = <<"stub", v, i + 1>> /\ UNCHANGED <<stack, enabled, frames>>
  BY NextPlace DEF Execute, Op

LEMMA DoesDrop ==
  ASSUME NEW v \in Delivered, NEW i \in Nat, NEW n \in Nat, Execute,
         eip = <<"stub", v, i>>, Stub(v)[i] = Op("drop", n)
  PROVE  /\ stack' = SubSeq(stack, n + 1, Len(stack))
         /\ eip' = <<"stub", v, i + 1>> /\ UNCHANGED <<regs, enabled, frames>>
<1> DEFINE op == Stub(eip[2])[eip[3]]
<1>1. eip[1] = "stub" /\ eip[2] = v /\ eip[3] = i
  OBVIOUS
<1>2. op.do = "drop" /\ op.arg = n
  BY <1>1 DEF Op
<1>3. [eip EXCEPT ![3] = @ + 1] = <<"stub", v, i + 1>>
  BY NextPlace
<1> QED BY <1>2, <1>3 DEF Execute, Drop

LEMMA DoesCall ==
  ASSUME NEW v \in Delivered, NEW i \in Nat, NEW n, Execute,
         eip = <<"stub", v, i>>, Stub(v)[i] = Op("call", n)
  PROVE  /\ stack' = << <<"stub", v, i + 1>> >> \o stack
         /\ eip' = <<"interrupt_handler", 1, "poll">>
         /\ regs' = [regs EXCEPT !["ecx"] = Junk, !["edx"] = Junk]
         /\ UNCHANGED <<enabled, frames>>
<1> DEFINE op == Stub(eip[2])[eip[3]]
<1>1. eip[1] = "stub" /\ eip[2] = v /\ eip[3] = i
  OBVIOUS
<1>2. op.do = "call" /\ op.arg = n
  BY <1>1 DEF Op
<1>3. [eip EXCEPT ![3] = @ + 1] = <<"stub", v, i + 1>>
  BY NextPlace
<1> QED BY <1>2, <1>3 DEF Execute, Push

LEMMA DoesIret ==
  ASSUME NEW v \in Delivered, NEW i \in Nat, NEW n, Execute,
         eip = <<"stub", v, i>>, Stub(v)[i] = Op("iret", n)
  PROVE  /\ eip' = stack[1] /\ enabled' = stack[3][2]
         /\ stack' = SubSeq(stack, 4, Len(stack))
         /\ frames' = Tail(frames) /\ UNCHANGED regs
  BY DEF Execute, Op, Drop
-----------------------------------------------------------------------------
(* The running stub, one instruction on. *)

(* What is known at instruction j of the stub of the last interrupt. *)
At(f, j) ==
  /\ frames \in Seq(Frame) /\ frames # <<>> /\ f = frames[1]
  /\ eip = StubPlace(f.vector, j)
  /\ Above(f, stack, Depth(j)) /\ RegistersAt(f, regs, j)
  /\ j = 7 => stack[1] = Num(f.vector)

LEMMA AtFacts ==
  ASSUME NEW f, NEW j \in -1 .. 14, j >= 1 - Preamble(f.vector), At(f, j)
  PROVE  /\ f \in Frame /\ f.vector \in Delivered /\ f.regs \in Registers
         /\ Preamble(f.vector) + j \in Nat
         /\ eip = <<"stub", f.vector, Preamble(f.vector) + j>>
<1>1. f \in Frame
  BY DEF At
<1>2. f.vector \in Delivered /\ f.regs \in Registers
  BY <1>1 DEF Frame
<1>3. Preamble(f.vector) \in {1, 2}
  BY <1>2, StubOps
<1> QED BY <1>1, <1>2, <1>3 DEF At, StubPlace

LEMMA StepNumber ==
  ASSUME NEW f, NEW j \in -1 .. 0, j >= 1 - Preamble(f.vector), At(f, j),
         MachineOK, Execute
  PROVE  /\ MachineOK' /\ frames' = frames /\ At(f, j + 1)'
<1> DEFINE v == f.vector
           i == Preamble(v) + j
<1>1. f \in Frame /\ v \in Delivered /\ i \in Nat /\ eip = <<"stub", v, i>>
  BY AtFacts
<1>2. PICK n \in 0 .. 255 : Stub(v)[i] = Op("push_number", n) /\ (j = 0 => n = v)
  <2>1. Preamble(v) \in {1, 2}
    BY <1>1, StubOps
  <2>2. CASE j = 0
    <3>1. i = Preamble(v)
      BY <2>1, <2>2
    <3>2. v \in 0 .. 255
      BY <1>1, DeliveredFacts DEF Vectors
    <3> QED BY <1>1, <2>2, <3>1, <3>2, StubOps
  <2>3. CASE j = -1
    <3>1. Preamble(v) = 2 /\ i = 1
      BY <2>1, <2>3
    <3> QED BY <1>1, <2>3, <3>1, StubOps
  <2> QED BY <2>2, <2>3
<1>3. /\ stack' = << Num(n) >> \o stack /\ eip' = <<"stub", v, i + 1>>
      /\ UNCHANGED <<regs, enabled, frames>>
  BY <1>1, <1>2, DoesPushNumber
<1>4. Num(n) \in Word
  BY WordFacts
<1>5. Depth(j) = j + 1 /\ Depth(j + 1) = j + 2 /\ j + 1 \in Nat
  BY DEF Depth
<1>6. Above(f, stack', j + 2)
  <2>1. Above(f, stack, j + 1)
    BY <1>5 DEF At
  <2>2. Above(f, << Num(n) >> \o stack, (j + 1) + 1)
    BY <1>1, <1>2, <1>4, <1>5, <2>1, PushAbove
  <2> QED BY <1>3, <2>2
<1>7. eip' = StubPlace(v, j + 1)
  <2>1. Preamble(v) \in {1, 2}
    BY <1>1, StubOps
  <2> QED BY <1>3, <2>1 DEF StubPlace
<1>8. RegistersAt(f, regs', j + 1)
  BY <1>3 DEF At, RegistersAt
<1>9. MachineOK'
  <2>1. Preamble(v) \in {1, 2}
    BY <1>1, StubOps
  <2>2. i + 1 \in 1 .. 16
    BY <1>1, <2>1
  <2>3. eip' \in Place
    BY <1>1, <1>3, <2>2, WordFacts
  <2> QED BY <1>3, <1>6, <2>3 DEF MachineOK, Above
<1> QED BY <1>3, <1>5, <1>6, <1>7, <1>8, <1>9 DEF At
(* The next instruction follows. *)
LEMMA Continues ==
  ASSUME NEW f, NEW j \in -1 .. 13, j >= 1 - Preamble(f.vector), At(f, j), MachineOK,
         eip' = <<"stub", f.vector, Preamble(f.vector) + j + 1>>,
         UNCHANGED <<enabled, frames>>, regs' \in Registers,
         Above(f, stack', Depth(j + 1)), RegistersAt(f, regs', j + 1),
         j + 1 = 7 => stack'[1] = Num(f.vector)
  PROVE  MachineOK' /\ frames' = frames /\ At(f, j + 1)'
<1>1. f \in Frame /\ f.vector \in Delivered /\ Preamble(f.vector) + j \in Nat
  BY AtFacts
<1>2. Preamble(f.vector) \in {1, 2}
  BY <1>1, StubOps
<1>3. eip' = StubPlace(f.vector, j + 1)
  BY <1>2 DEF StubPlace
<1>4. Preamble(f.vector) + j + 1 \in 1 .. 16
  BY <1>1, <1>2
<1>5. MachineOK'
  <2>1. eip' \in Place
    BY <1>1, <1>4, WordFacts
  <2> QED BY <2>1 DEF MachineOK, Above
<1> QED BY <1>3, <1>5 DEF At

LEMMA StepSave ==
  ASSUME NEW f, NEW j \in {1, 2, 3, 4, 6}, At(f, j), MachineOK, Execute
  PROVE  MachineOK' /\ frames' = frames /\ At(f, j + 1)'
<1> DEFINE v == f.vector
           i == Preamble(v) + j
<1>0. j >= 1 - Preamble(v) /\ j \in 1 .. 14
  BY DEF Preamble
<1>1. f \in Frame /\ v \in Delivered /\ i \in Nat /\ eip = <<"stub", v, i>>
  BY <1>0, AtFacts
<1>2. PICK r \in {"eax", "ebx", "ecx", "edx"} :
        /\ Stub(v)[i] = Op("push", r)
        /\ j \in {1, 6} => r = "eax"
        /\ j = 2 => r = "ebx"
        /\ j = 3 => r = "ecx"
        /\ j = 4 => r = "edx"
  <2>1. Stub(v)[i] = common_interrupt_handler[j]
    BY <1>0, <1>1, StubOps
  <2> QED BY <2>1, CommonOps
<1>3. /\ stack' = << regs[r] >> \o stack /\ eip' = <<"stub", v, i + 1>>
      /\ UNCHANGED <<regs, enabled, frames>>
  BY <1>1, <1>2, DoesPush
<1>4. regs[r] \in Word /\ regs \in Registers
  <2>1. regs[r] \in Numbers /\ regs \in Registers
    BY <1>2 DEF MachineOK, Registers
  <2> QED BY <2>1, WordFacts
<1>5. /\ j = 1 => regs[r] = f.regs.eax
      /\ j = 2 => regs[r] = f.regs.ebx
      /\ j = 3 => regs[r] = f.regs.ecx
      /\ j = 4 => regs[r] = f.regs.edx
      /\ j = 6 => regs[r] = Num(v)
  BY <1>2 DEF At, RegistersAt
<1>6. Depth(j) = (IF j = 6 THEN 6 ELSE j + 1) /\ Depth(j + 1) = Depth(j) + 1
      /\ Depth(j) \in Nat
  BY DEF Depth
<1>7. Above(f, stack', Depth(j + 1))
  <2>1. Above(f, stack, Depth(j))
    BY DEF At
  <2>2. Above(f, << regs[r] >> \o stack, Depth(j) + 1)
    BY <1>1, <1>4, <1>5, <1>6, <2>1, PushAbove
  <2> QED BY <1>3, <1>6, <2>2
<1>8. RegistersAt(f, regs', j + 1)
  BY <1>3 DEF At, RegistersAt
<1>9. j + 1 = 7 => stack'[1] = Num(v)
  <2>1. stack \in Seq(Word)
    BY DEF MachineOK
  <2>2. (<< regs[r] >> \o stack)[1] = regs[r]
    BY <1>4, <2>1, PushFacts
  <2> QED BY <1>3, <1>5, <2>2
<1> QED BY <1>0, <1>3, <1>4, <1>7, <1>8, <1>9, Continues

LEMMA StepLoad ==
  ASSUME NEW f, NEW j \in {5}, At(f, j), MachineOK, Execute
  PROVE  MachineOK' /\ frames' = frames /\ At(f, j + 1)'
<1> DEFINE v == f.vector
           i == Preamble(v) + j
<1>0. j = 5 /\ j >= 1 - Preamble(v)
  BY DEF Preamble
<1>1. f \in Frame /\ v \in Delivered /\ i \in Nat /\ eip = <<"stub", v, i>>
  BY <1>0, AtFacts
<1>2. Stub(v)[i] = Op("load", 4)
  <2>1. Stub(v)[i] = common_interrupt_handler[j]
    BY <1>0, <1>1, StubOps
  <2> QED BY <1>0, <2>1, CommonOps
<1>3. /\ regs' = [regs EXCEPT !["eax"] = stack[4 + 1]]
      /\ eip' = <<"stub", v, i + 1>> /\ UNCHANGED <<stack, enabled, frames>>
  BY <1>1, <1>2, DoesLoad
<1>4. Above(f, stack, 6) /\ Depth(j + 1) = 6
  BY <1>0 DEF At, Depth
<1>5. stack[5] = Num(v)
  BY <1>4 DEF Above
<1>6. regs' \in Registers /\ regs'.eax = Num(v)
  <2>1. Num(v) \in Numbers
    <3>1. v \in 0 .. 255
      BY <1>1, DeliveredFacts DEF Vectors
    <3> QED BY <3>1, WordFacts
  <2>2. regs \in Registers /\ regs' = [regs EXCEPT !["eax"] = Num(v)]
    <3>1. stack[4 + 1] = Num(v)
      BY <1>5
    <3> QED BY <1>3, <3>1 DEF MachineOK
  <2> QED BY <2>1, <2>2 DEF Registers
<1>7. RegistersAt(f, regs', j + 1)
  BY <1>0, <1>6 DEF RegistersAt
<1>8. Above(f, stack', Depth(j + 1))
  BY <1>3, <1>4
<1>9. j \in -1 .. 13 /\ j + 1 # 7
  BY <1>0
<1> QED BY <1>0, <1>3, <1>6, <1>7, <1>8, <1>9, Continues

LEMMA StepDrop ==
  ASSUME NEW f, NEW j \in {8, 13}, At(f, j), MachineOK, Execute
  PROVE  MachineOK' /\ frames' = frames /\ At(f, j + 1)'
<1> DEFINE v == f.vector
           i == Preamble(v) + j
           n == IF j = 8 THEN 1 ELSE 2
<1>0. j >= 1 - Preamble(v) /\ j \in 1 .. 14
  BY DEF Preamble
<1>1. f \in Frame /\ v \in Delivered /\ i \in Nat /\ eip = <<"stub", v, i>>
  BY <1>0, AtFacts
<1>2. Stub(v)[i] = Op("drop", n)
  <2>1. Stub(v)[i] = common_interrupt_handler[j]
    BY <1>0, <1>1, StubOps
  <2> QED BY <2>1, CommonOps
<1>3. /\ stack' = SubSeq(stack, n + 1, Len(stack))
      /\ eip' = <<"stub", v, i + 1>> /\ UNCHANGED <<regs, enabled, frames>>
  BY <1>1, <1>2, DoesDrop
<1>4. Depth(j) \in Nat /\ n \in 0 .. Depth(j) /\ Depth(j + 1) = Depth(j) - n
  BY DEF Depth
<1>5. Above(f, stack', Depth(j + 1))
  <2>1. Above(f, stack, Depth(j))
    BY DEF At
  <2>2. Above(f, SubSeq(stack, n + 1, Len(stack)), Depth(j) - n)
    BY <1>1, <1>4, <2>1, DropAbove
  <2> QED BY <1>3, <1>4, <2>2
<1>6. RegistersAt(f, regs', j + 1) /\ regs' \in Registers
  BY <1>3 DEF At, RegistersAt, MachineOK
<1> QED BY <1>0, <1>3, <1>5, <1>6, Continues

LEMMA StepRestore ==
  ASSUME NEW f, NEW j \in 9 .. 12, At(f, j), MachineOK, Execute
  PROVE  MachineOK' /\ frames' = frames /\ At(f, j + 1)'
<1> DEFINE v == f.vector
           i == Preamble(v) + j
<1>0. j >= 1 - Preamble(v) /\ j \in 1 .. 14
  BY DEF Preamble
<1>1. f \in Frame /\ v \in Delivered /\ i \in Nat /\ eip = <<"stub", v, i>>
  BY <1>0, AtFacts
<1>2. PICK r \in {"eax", "ebx", "ecx", "edx"} :
        /\ Stub(v)[i] = Op("pop", r)
        /\ j = 9 <=> r = "edx"
        /\ j = 10 <=> r = "ecx"
        /\ j = 11 <=> r = "ebx"
        /\ j = 12 <=> r = "eax"
  <2>1. Stub(v)[i] = common_interrupt_handler[j]
    BY <1>0, <1>1, StubOps
  <2> QED BY <2>1, CommonOps
<1>3. /\ regs' = [regs EXCEPT ![r] = stack[1]] /\ stack' = SubSeq(stack, 2, Len(stack))
      /\ eip' = <<"stub", v, i + 1>> /\ UNCHANGED <<enabled, frames>>
  BY <1>1, <1>2, DoesPop
<1>4. Depth(j) = 15 - j /\ Depth(j + 1) = Depth(j) - 1 /\ Depth(j) \in Nat
  BY DEF Depth
<1>5. Above(f, stack, Depth(j))
  BY DEF At
<1>6. /\ j = 9 => stack[1] = f.regs.edx
      /\ j = 10 => stack[1] = f.regs.ecx
      /\ j = 11 => stack[1] = f.regs.ebx
      /\ j = 12 => stack[1] = f.regs.eax
  <2>1. /\ j = 9 => Above(f, stack, 6)
        /\ j = 10 => Above(f, stack, 5)
        /\ j = 11 => Above(f, stack, 4)
        /\ j = 12 => Above(f, stack, 3)
    BY <1>4, <1>5
  <2>2. /\ Above(f, stack, 6) => stack[1] = f.regs.edx
        /\ Above(f, stack, 5) => stack[1] = f.regs.ecx
        /\ Above(f, stack, 4) => stack[1] = f.regs.ebx
        /\ Above(f, stack, 3) => stack[1] = f.regs.eax
    BY DEF Above
  <2> QED BY <2>1, <2>2
<1>7. Above(f, stack', Depth(j + 1))
  <2>1. Above(f, SubSeq(stack, 1 + 1, Len(stack)), Depth(j) - 1)
    <3> DEFINE d == Depth(j)
    <3>1. d \in 0 .. 8 /\ Above(f, stack, d) /\ 1 \in 0 .. d
      BY <1>4, <1>5
    <3> HIDE DEF d
    <3>2. \A k \in 0 .. d : Above(f, SubSeq(stack, k + 1, Len(stack)), d - k)
      BY <1>1, <3>1, DropAbove
    <3>3. Above(f, SubSeq(stack, 1 + 1, Len(stack)), d - 1)
      BY <3>1, <3>2
    <3> QED BY <3>3 DEF d
  <2> QED BY <1>3, <1>4, <2>1
<1>8. f.regs \in Registers /\ regs \in Registers
  BY <1>1 DEF Frame, MachineOK
<1>9. stack[1] \in Numbers
  <2>1. /\ f.regs.eax \in Numbers /\ f.regs.ebx \in Numbers
        /\ f.regs.ecx \in Numbers /\ f.regs.edx \in Numbers
    BY <1>8 DEF Registers
  <2> QED BY <1>6, <2>1
<1>10. regs' \in Registers
  BY <1>2, <1>3, <1>8, <1>9 DEF Registers
<1>11. RegistersAt(f, regs', j + 1)
  BY <1>2, <1>3, <1>6, <1>8 DEF At, RegistersAt, Registers
<1>12. j \in -1 .. 13 /\ j + 1 # 7
  OBVIOUS
<1> QED BY <1>0, <1>3, <1>7, <1>10, <1>11, <1>12, Continues
LEMMA StepCall ==
  ASSUME NEW f, NEW j \in {7}, At(f, j), MachineOK, Execute
  PROVE  MachineOK' /\ frames' = frames /\ InC(f, eip, stack)'
<1> DEFINE v == f.vector
           i == Preamble(v) + j
<1>0. j = 7 /\ j >= 1 - Preamble(v)
  BY DEF Preamble
<1>1. f \in Frame /\ v \in Delivered /\ i \in Nat /\ eip = <<"stub", v, i>>
  BY <1>0, AtFacts
<1>2. Stub(v)[i] = Op("call", 0)
  <2>1. Stub(v)[i] = common_interrupt_handler[j]
    BY <1>0, <1>1, StubOps
  <2> QED BY <1>0, <2>1, CommonOps
<1> DEFINE w == <<"stub", v, i + 1>>
<1>3. /\ stack' = << w >> \o stack /\ eip' = <<"interrupt_handler", 1, "poll">>
      /\ regs' = [regs EXCEPT !["ecx"] = Junk, !["edx"] = Junk]
      /\ UNCHANGED <<enabled, frames>>
  BY <1>1, <1>2, DoesCall
<1>4. w \in Word /\ w = StubPlace(v, 8)
  <2>1. i + 1 \in 1 .. 16
    <3>1. Preamble(v) \in {1, 2}
      BY <1>1, StubOps
    <3> QED BY <1>0, <3>1
  <2>2. w \in Word
    BY <1>1, <2>1, WordFacts
  <2>3. Preamble(v) \in {1, 2}
    BY <1>1, StubOps
  <2>4. i + 1 = Preamble(v) + 8
    BY <1>0, <2>3
  <2> QED BY <2>2, <2>4 DEF StubPlace
<1> HIDE DEF w
<1>5. Above(f, stack, 7) /\ stack[1] = Num(v)
  BY <1>0 DEF At, Depth
<1>6. stack \in Seq(Word) /\ Len(stack) >= 1
  <2>1. Len(stack) = 7 + 3 + Len(f.stack) /\ Len(f.stack) \in Nat
    BY <1>1, <1>5 DEF Above, Frame
  <2> QED BY <1>5, <2>1 DEF Above
<1>7. Above(f, stack', 7 + 1)
  BY <1>1, <1>3, <1>4, <1>5, PushAbove
<1>8. stack'[1] = w /\ stack'[2] = Num(v)
  <2>1. (<< w >> \o stack)[1] = w /\ (<< w >> \o stack)[1 + 1] = stack[1]
    BY <1>4, <1>6, PushFacts
  <2>2. (<< w >> \o stack)[2] = (<< w >> \o stack)[1 + 1]
    OBVIOUS
  <2> QED BY <1>3, <1>5, <2>1, <2>2
<1>9. InC(f, eip', stack')
  <2>1. eip' \in HandlerPlaces
    BY <1>3, IndexFacts DEF HandlerPlaces
  <2>2. Above(f, stack', 8)
    BY <1>7
  <2> QED BY <1>4, <1>8, <2>1, <2>2 DEF InC
<1>10. MachineOK'
  <2>1. Junk \in Numbers
    BY WordFacts DEF Junk
  <2>2. regs' \in Registers
    BY <1>3, <2>1 DEF MachineOK, Registers
  <2>3. eip' \in Place
    BY <1>9, CPlaces DEF InC
  <2> QED BY <1>3, <1>7, <2>2, <2>3 DEF MachineOK, Above
<1> QED BY <1>3, <1>9, <1>10 DEF InC

(* The iret brings back what the interrupt found. *)
LEMMA StepIret ==
  ASSUME NEW f, NEW j \in {14}, At(f, j), MachineOK, Execute
  PROVE  /\ frames' = Tail(frames)
         /\ eip' = f.eip /\ regs' = f.regs /\ enabled' = f.enabled /\ stack' = f.stack
<1> DEFINE v == f.vector
           i == Preamble(v) + j
<1>0. j = 14 /\ j >= 1 - Preamble(v)
  BY DEF Preamble
<1>1. f \in Frame /\ v \in Delivered /\ i \in Nat /\ eip = <<"stub", v, i>>
  BY <1>0, AtFacts
<1>2. Stub(v)[i] = Op("iret", 0)
  <2>1. Stub(v)[i] = common_interrupt_handler[j]
    BY <1>0, <1>1, StubOps
  <2> QED BY <1>0, <2>1, CommonOps
<1>3. /\ eip' = stack[1] /\ enabled' = stack[3][2]
      /\ stack' = SubSeq(stack, 4, Len(stack))
      /\ frames' = Tail(frames) /\ UNCHANGED regs
  BY <1>1, <1>2, DoesIret
<1>4. Above(f, stack, 0)
  BY <1>0 DEF At, Depth
<1>5. /\ stack \in Seq(Word) /\ Len(stack) = 3 + Len(f.stack)
      /\ stack[1] = f.eip /\ stack[3] = Flags(f.enabled)
      /\ \A k \in 1 .. Len(f.stack) : stack[3 + k] = f.stack[k]
  BY <1>4 DEF Above
<1>6. f.stack \in Seq(Word) /\ f.regs \in Registers
  BY <1>1 DEF Frame
<1>7. eip' = f.eip /\ enabled' = f.enabled
  BY <1>3, <1>5 DEF Flags
<1>8. regs' = f.regs
  <2>1. regs.eax = f.regs.eax /\ regs.ebx = f.regs.ebx /\ regs.ecx = f.regs.ecx
        /\ regs.edx = f.regs.edx
    BY <1>0 DEF At, RegistersAt
  <2>2. regs \in Registers
    BY DEF MachineOK
  <2>3. regs = f.regs
    BY <1>6, <2>1, <2>2 DEF Registers
  <2> QED BY <1>3, <2>3
<1>9. stack' = f.stack
  <2> DEFINE K == Len(f.stack)
             t == SubSeq(stack, 3 + 1, Len(stack))
  <2>1. K \in Nat /\ 3 \in 0 .. Len(stack) /\ Len(stack) - 3 = K
    BY <1>5, <1>6
  <2>2. t \in Seq(Word) /\ Len(t) = K /\ \A k \in 1 .. K : t[k] = stack[k + 3]
    BY <1>5, <2>1, DropFacts
  <2>3. \A k \in 1 .. K : t[k] = f.stack[k]
    <3> SUFFICES ASSUME NEW k \in 1 .. K PROVE t[k] = f.stack[k]
      OBVIOUS
    <3>1. k + 3 = 3 + k
      BY <2>1
    <3> QED BY <1>5, <2>2, <3>1
  <2>4. t = SubSeq(stack, 4, Len(stack))
    OBVIOUS
  <2> HIDE DEF t
  <2>5. t = f.stack
    BY <1>6, <2>2, <2>3
  <2> QED BY <1>3, <2>4, <2>5
<1> QED BY <1>3, <1>7, <1>8, <1>9
-----------------------------------------------------------------------------
(* Each action preserves the invariant. *)

LEMMA SameFrames ==
  ASSUME ReturnInv, MachineOK', frames' = frames, Running'
  PROVE  ReturnInv'
  BY DEF ReturnInv, Interrupted

(* A program that is in a stub is the stub of the last interrupt. *)
LEMMA WhereStub ==
  ASSUME ReturnInv, eip[1] = "stub"
  PROVE  /\ frames # <<>> /\ frames[1] \in Frame /\ Len(frames) >= 1
         /\ \E j \in 1 - Preamble(frames[1].vector) .. 14 : At(frames[1], j)
<1>1. frames # <<>>
  BY DEF ReturnInv, Running, InKmain
<1>2. Serving(frames[1], eip, regs, stack)
  BY <1>1 DEF ReturnInv, Running
<1>3. InStub(frames[1], eip, regs, stack)
  BY <1>2 DEF Serving, InC, HandlerPlaces
<1>4. frames \in Seq(Frame)
  BY DEF ReturnInv, MachineOK
<1>5. frames[1] \in Frame /\ Len(frames) >= 1
  BY <1>1, <1>4
<1> QED BY <1>1, <1>3, <1>4, <1>5 DEF InStub, At

LEMMA ExecuteStep ==
  ASSUME ReturnInv, Execute
  PROVE  \/ frames' = frames /\ ReturnInv'
         \/ /\ frames # <<>> /\ frames' = Tail(frames)
            /\ eip' = frames[1].eip /\ regs' = frames[1].regs
            /\ enabled' = frames[1].enabled /\ stack' = frames[1].stack
<1> DEFINE f == frames[1]
<1>1. frames # <<>> /\ f \in Frame /\ \E j \in 1 - Preamble(f.vector) .. 14 : At(f, j)
  BY WhereStub DEF Execute
<1>2. PICK j \in 1 - Preamble(f.vector) .. 14 : At(f, j)
  BY <1>1
<1>3. Preamble(f.vector) \in {1, 2} /\ MachineOK
  BY StubOps, <1>1 DEF Frame, ReturnInv
<1>4. j \in -1 .. 14 /\ j >= 1 - Preamble(f.vector)
  BY <1>3
<1>5. ASSUME j \in -1 .. 13, MachineOK', frames' = frames, At(f, j + 1)'
      PROVE  ReturnInv'
  <2>0. j + 1 \in 1 - Preamble(f.vector) .. 14
    BY <1>3, <1>4, <1>5
  <2>1. /\ eip' = StubPlace(f.vector, j + 1)
        /\ Above(f, stack', Depth(j + 1)) /\ RegistersAt(f, regs', j + 1)
        /\ j + 1 = 7 => stack'[1] = Num(f.vector)
    BY <1>5 DEF At
  <2>2. InStub(f, eip', regs', stack')
    BY <2>0, <2>1 DEF InStub
  <2>3. Running'
    BY <1>1, <1>5, <2>2 DEF Running, Serving
  <2> QED BY <1>5, <2>3, SameFrames
<1>6. CASE j \in -1 .. 0
  <2>1. MachineOK' /\ frames' = frames /\ At(f, j + 1)'
    BY <1>2, <1>3, <1>4, <1>6, StepNumber
  <2> QED BY <1>5, <1>6, <2>1
<1>7. CASE j \in {1, 2, 3, 4, 6}
  <2>1. MachineOK' /\ frames' = frames /\ At(f, j + 1)'
    BY <1>2, <1>3, <1>7, StepSave
  <2> QED BY <1>5, <1>7, <2>1
<1>8. CASE j \in {5}
  <2>1. MachineOK' /\ frames' = frames /\ At(f, j + 1)'
    BY <1>2, <1>3, <1>8, StepLoad
  <2> QED BY <1>5, <1>8, <2>1
<1>9. CASE j \in {8, 13}
  <2>1. MachineOK' /\ frames' = frames /\ At(f, j + 1)'
    BY <1>2, <1>3, <1>9, StepDrop
  <2> QED BY <1>5, <1>9, <2>1
<1>10. CASE j \in 9 .. 12
  <2>1. MachineOK' /\ frames' = frames /\ At(f, j + 1)'
    BY <1>2, <1>3, <1>10, StepRestore
  <2> QED BY <1>5, <1>10, <2>1
<1>11. CASE j \in {7}
  <2>1. MachineOK' /\ frames' = frames /\ InC(f, eip, stack)'
    BY <1>2, <1>3, <1>11, StepCall
  <2>2. Running'
    BY <1>1, <2>1 DEF Running, Serving
  <2> QED BY <2>1, <2>2, SameFrames
<1>12. CASE j \in {14}
  <2>1. /\ frames' = Tail(frames)
        /\ eip' = f.eip /\ regs' = f.regs /\ enabled' = f.enabled /\ stack' = f.stack
    BY <1>2, <1>3, <1>12, StepIret
  <2> QED BY <1>1, <2>1
<1>13. \/ j \in -1 .. 0 \/ j \in {1, 2, 3, 4, 6} \/ j \in {5} \/ j \in {8, 13}
       \/ j \in 9 .. 12 \/ j \in {7} \/ j \in {14}
  BY <1>4
<1> QED BY <1>6, <1>7, <1>8, <1>9, <1>10, <1>11, <1>12, <1>13

(* After an iret what was interrupted runs again. *)
LEMMA ReturnStep ==
  ASSUME ReturnInv, frames # <<>>, frames' = Tail(frames),
         eip' = frames[1].eip, regs' = frames[1].regs,
         enabled' = frames[1].enabled, stack' = frames[1].stack
  PROVE  ReturnInv' /\ Len(frames') = Len(frames) - 1
<1> DEFINE f == frames[1]
           n == Len(frames)
<1>1. frames \in Seq(Frame) /\ n \in Nat /\ n >= 1 /\ f \in Frame
  <2>1. frames \in Seq(Frame)
    BY DEF ReturnInv, MachineOK
  <2> QED BY <2>1
<1>2. /\ frames' \in Seq(Frame) /\ Len(frames') = n - 1
      /\ \A k \in 1 .. n - 1 : frames'[k] = frames[k + 1]
  BY <1>1
<1>3. MachineOK'
  BY <1>1, <1>2 DEF MachineOK, Frame
<1>4. \A k \in 1 .. n :
        IF k = n THEN InKmain(frames[k].eip, frames[k].stack)
        ELSE Serving(frames[k + 1], frames[k].eip, frames[k].regs, frames[k].stack)
  BY DEF ReturnInv, Interrupted
<1>5. Running'
  <2>1. CASE n = 1
    <3>1. frames' = <<>>
      BY <1>2, <2>1
    <3>2. InKmain(f.eip, f.stack)
      BY <1>1, <1>4, <2>1
    <3> QED BY <3>1, <3>2 DEF Running, InKmain
  <2>2. CASE n > 1
    <3>0. 1 \in 1 .. n - 1
      BY <1>1, <2>2
    <3>1. frames' # <<>> /\ frames'[1] = frames[1 + 1]
      <4>1. Len(frames') # 0
        <5> HIDE DEF n
        <5> QED BY <1>1, <1>2, <2>2
      <4>2. frames' # <<>>
        BY <4>1
      <4> QED BY <1>2, <3>0, <4>2
    <3>2. Serving(frames[1 + 1], f.eip, f.regs, f.stack)
      BY <1>1, <1>4, <2>2
    <3>3. Serving(frames'[1], eip', regs', stack')
      BY <3>1, <3>2
    <3> QED BY <3>1, <3>3 DEF Running
  <2>3. n = 1 \/ n > 1
    <3> HIDE DEF n
    <3> QED BY <1>1
  <2> QED BY <2>1, <2>2, <2>3
<1>6. Interrupted'
  <2> SUFFICES ASSUME NEW k \in 1 .. n - 1
               PROVE  IF k = n - 1 THEN InKmain(frames'[k].eip, frames'[k].stack)
                      ELSE Serving(frames'[k + 1], frames'[k].eip, frames'[k].regs,
                                   frames'[k].stack)
    BY <1>2 DEF Interrupted, InKmain
  <2> HIDE DEF n
  <2>1. k + 1 \in 1 .. n /\ frames'[k] = frames[k + 1]
    BY <1>1, <1>2
  <2>2. CASE k = n - 1
    <3>1. k + 1 = n
      BY <1>1, <2>2
    <3> QED BY <1>4, <2>1, <2>2, <3>1
  <2>3. CASE k # n - 1
    <3>1. k + 1 # n /\ k + 1 \in 1 .. n - 1
      BY <1>1, <2>3
    <3>2. frames'[k + 1] = frames[(k + 1) + 1]
      BY <1>2, <3>1
    <3> QED BY <1>4, <2>1, <2>3, <3>1, <3>2
  <2> QED BY <2>2, <2>3
<1> QED BY <1>2, <1>3, <1>5, <1>6 DEF ReturnInv
(* A gate leads to a stub, which finds a new frame under it. *)
LEMMA TakeStep ==
  ASSUME NEW v \in Delivered, ReturnInv, Take(v)
  PROVE  ReturnInv' /\ Len(frames') = Len(frames) + 1
<1> DEFINE f == [vector |-> v, eip |-> eip, regs |-> regs, enabled |-> enabled, stack |-> stack]
           n == Len(frames)
           pushed == << eip, Num(CodeSelector), Flags(enabled) >>
<1>1. /\ eip \in Place /\ regs \in Registers /\ enabled \in BOOLEAN /\ stack \in Seq(Word)
      /\ frames \in Seq(Frame) /\ n \in Nat
  BY DEF ReturnInv, MachineOK
<1>2. f \in Frame
  BY <1>1 DEF Frame
<1>3. /\ f.vector = v /\ f.eip = eip /\ f.regs = regs /\ f.enabled = enabled /\ f.stack = stack
  OBVIOUS
<1>4. frames' = << f >> \o frames /\ UNCHANGED regs
  BY DEF Take
<1>5. eip' = <<"stub", v, 1>> /\ enabled' \in BOOLEAN
  <2>1. StubAt(GateOffset(idt_init[v])) = v
    BY GateLeads
  <2> QED BY <1>1, <2>1 DEF Take
<1>6. stack' = (IF v \in PushesErrorCode THEN << Num(0) >> ELSE << >>) \o pushed \o stack
  BY DEF Take
<1> HIDE DEF f
<1>7. /\ frames' \in Seq(Frame) /\ Len(frames') = n + 1 /\ frames'[1] = f
      /\ \A k \in 1 .. n : frames'[k + 1] = frames[k]
  <2>1. << f >> \in Seq(Frame) /\ Len(<< f >>) = 1 /\ << f >>[1] = f
    BY <1>2
  <2> QED BY <1>1, <1>4, <2>1
<1>8. /\ pushed \in Seq(Word) /\ Len(pushed) = 3
      /\ pushed[1] = eip /\ pushed[3] = Flags(enabled)
  <2>1. eip \in Word /\ Num(CodeSelector) \in Word /\ Flags(enabled) \in Word
    BY <1>1, WordFacts DEF CodeSelector
  <2> QED BY <2>1
<1> DEFINE bare == pushed \o stack
<1>9. Above(f, bare, 0)
  <2> HIDE DEF pushed
  <2>1. /\ bare \in Seq(Word) /\ Len(bare) = 3 + Len(stack)
        /\ bare[1] = eip /\ bare[3] = Flags(enabled)
        /\ \A i \in 1 .. Len(stack) : bare[3 + i] = stack[i]
    <3>1. pushed \in Seq(Word) /\ stack \in Seq(Word)
      BY <1>1, <1>8
    <3>2. /\ bare \in Seq(Word) /\ Len(bare) = Len(pushed) + Len(stack)
          /\ \A i \in 1 .. Len(pushed) : bare[i] = pushed[i]
          /\ \A i \in 1 .. Len(stack) : bare[Len(pushed) + i] = stack[i]
      BY <3>1, ConcatFacts
    <3> HIDE DEF bare
    <3> QED BY <1>8, <3>2
  <2> HIDE DEF bare
  <2> QED BY <1>3, <2>1 DEF Above
<1>10. \E j \in 1 - Preamble(v) .. 14 :
         j \in {0, -1} /\ Above(f, stack', Depth(j)) /\ eip' = StubPlace(v, j)
  <2> HIDE DEF pushed
  <2>1. CASE v \in PushesErrorCode
    <3>1. Preamble(v) = 1
      BY <2>1 DEF Preamble, PushesErrorCode, ErrorCodeStubs
    <3>2. stack' = << Num(0) >> \o bare
      BY <1>1, <1>6, <1>8, <2>1
    <3>3. Num(0) \in Word /\ Depth(0) = 0 + 1
      BY WordFacts DEF Depth
    <3>4. Above(f, << Num(0) >> \o bare, 0 + 1)
      BY <1>2, <1>9, <3>3, PushAbove
    <3>5. eip' = StubPlace(v, 0)
      BY <1>5, <3>1 DEF StubPlace
    <3>6. Above(f, stack', Depth(0))
      BY <3>2, <3>3, <3>4
    <3> QED BY <3>1, <3>5, <3>6
  <2>2. CASE v \notin PushesErrorCode
    <3>1. Preamble(v) = 2
      BY <2>2 DEF Preamble, PushesErrorCode, ErrorCodeStubs
    <3>2. stack' = bare
      BY <1>1, <1>6, <1>8, <2>2
    <3>3. Depth(-1) = 0
      BY DEF Depth
    <3>4. eip' = StubPlace(v, -1)
      BY <1>5, <3>1 DEF StubPlace
    <3> QED BY <1>9, <3>1, <3>2, <3>3, <3>4
  <2> QED BY <2>1, <2>2
<1>11. InStub(f, eip', regs', stack')
  <2>1. PICK j \in 1 - Preamble(v) .. 14 :
          j \in {0, -1} /\ Above(f, stack', Depth(j)) /\ eip' = StubPlace(v, j)
    BY <1>10
  <2>2. RegistersAt(f, regs', j)
    BY <1>3, <1>4, <2>1 DEF RegistersAt
  <2> QED BY <1>3, <2>1, <2>2 DEF InStub
<1>12. Running'
  <2>1. frames' # <<>>
    BY <1>1, <1>7
  <2> QED BY <1>7, <1>11, <2>1 DEF Running, Serving
<1>13. MachineOK'
  <2>1. stack' \in Seq(Word)
    BY <1>10 DEF Above
  <2>2. eip' \in Place
    <3>1. 1 \in 1 .. 16
      OBVIOUS
    <3> QED BY <1>5, <3>1, WordFacts
  <2> QED BY <1>1, <1>4, <1>5, <1>7, <2>1, <2>2 DEF MachineOK
<1>14. Interrupted'
  <2> SUFFICES ASSUME NEW k \in 1 .. n + 1
               PROVE  IF k = n + 1 THEN InKmain(frames'[k].eip, frames'[k].stack)
                      ELSE Serving(frames'[k + 1], frames'[k].eip, frames'[k].regs,
                                   frames'[k].stack)
    BY <1>7 DEF Interrupted, InKmain
  <2>0. /\ IF frames = <<>> THEN InKmain(eip, stack) ELSE Serving(frames[1], eip, regs, stack)
        /\ \A i \in 1 .. n :
             IF i = n THEN InKmain(frames[i].eip, frames[i].stack)
             ELSE Serving(frames[i + 1], frames[i].eip, frames[i].regs, frames[i].stack)
    BY DEF ReturnInv, Running, Interrupted
  <2>1. CASE k = 1
    <3>1. n = 0 <=> frames = <<>>
      BY <1>1
    <3>2. CASE n = 0
      <4> HIDE DEF n
      <4> QED BY <1>3, <1>7, <2>0, <2>1, <3>1, <3>2
    <3>3. CASE n # 0
      <4> HIDE DEF n
      <4>1. 1 \in 1 .. n /\ 1 # n + 1
        BY <1>1, <3>3
      <4>2. frames'[1 + 1] = frames[1] /\ frames'[1] = f
        BY <1>7, <4>1
      <4>3. Serving(frames[1], f.eip, f.regs, f.stack)
        BY <1>3, <2>0, <3>1, <3>3
      <4> QED BY <2>1, <4>1, <4>2, <4>3
    <3> QED BY <3>2, <3>3
  <2>2. CASE k # 1
    <3> HIDE DEF n
    <3> DEFINE i == k - 1
    <3>1. i \in 1 .. n /\ i + 1 = k
      BY <1>1, <2>2
    <3> HIDE DEF i
    <3>2. frames'[k] = frames[i]
      BY <1>7, <3>1
    <3>3. CASE i = n
      BY <2>0, <3>1, <3>2, <3>3
    <3>4. CASE i # n
      <4>1. k \in 1 .. n /\ k # n + 1
        BY <1>1, <3>1, <3>4
      <4>2. frames'[k + 1] = frames[k]
        BY <1>7, <4>1
      <4>3. Serving(frames[i + 1], frames[i].eip, frames[i].regs, frames[i].stack)
        BY <2>0, <3>1, <3>4
      <4> QED BY <3>1, <3>2, <4>1, <4>2, <4>3
    <3> QED BY <3>3, <3>4
  <2> QED BY <2>1, <2>2
<1> QED BY <1>7, <1>12, <1>13, <1>14 DEF ReturnInv
(* A step of a C program: another place in it, and the stack as it was. *)
LEMMA InProgram ==
  ASSUME ReturnInv, eip[1] # "stub", UNCHANGED <<stack, frames>>,
         regs' \in Registers, enabled' \in BOOLEAN,
         \/ eip[1] = "kmain" /\ eip' \in {"kmain"} \X Index \X KmainPart
         \/ eip[1] = "interrupt_handler" /\ eip' \in HandlerPlaces
  PROVE  ReturnInv'
<1>1. eip' \in Place
  BY CPlaces
<1>2. MachineOK'
  BY <1>1 DEF ReturnInv, MachineOK
<1>3. CASE frames = <<>>
  <2>1. eip[1] = "kmain" /\ stack = <<>>
    BY <1>3 DEF ReturnInv, Running, InKmain
  <2>2. InKmain(eip', stack')
    BY <2>1 DEF InKmain
  <2>3. Running'
    BY <1>3, <2>2 DEF Running, InKmain
  <2> QED BY <1>2, <2>3, SameFrames
<1>4. CASE frames # <<>>
  <2>1. Serving(frames[1], eip, regs, stack)
    BY <1>4 DEF ReturnInv, Running
  <2>2. InC(frames[1], eip, stack)
    BY <2>1 DEF Serving, InStub, StubPlace
  <2>3. eip' \in HandlerPlaces
    BY <2>2 DEF InC, HandlerPlaces
  <2>4. InC(frames[1], eip', stack)
    BY <2>2, <2>3 DEF InC
  <2>5. Running'
    BY <1>4, <2>4 DEF Running, Serving, InC
  <2> QED BY <1>2, <2>5, SameFrames
<1> QED BY <1>3, <1>4

(* Where a program is that is not in a stub. *)
LEMMA WhereC ==
  ASSUME ReturnInv, eip[1] # "stub"
  PROVE  \/ frames = <<>> /\ eip \in {"kmain"} \X Index \X KmainPart
         \/ frames # <<>> /\ eip \in HandlerPlaces
<1>1. CASE frames = <<>>
  BY <1>1 DEF ReturnInv, Running, InKmain
<1>2. CASE frames # <<>>
  BY <1>2 DEF ReturnInv, Running, Serving, InStub, StubPlace, InC
<1> QED BY <1>1, <1>2

(* The same for a program about to write a character. *)
LEMMA WhereWriting ==
  ASSUME ReturnInv, eip[1] # "stub", NEW o \in {"poll", "test", "send"}, eip[3] = o
  PROVE  \/ frames = <<>> /\ \E n \in Index : eip = <<"kmain", n, o>>
         \/ frames # <<>> /\ \E n \in 1 .. Message : eip = <<"interrupt_handler", n, o>>
  BY WhereC DEF HandlerPlaces

LEMMA PollStep ==
  ASSUME ReturnInv, Poll PROVE ReturnInv' /\ frames' = frames
<1>1. regs' \in Registers
  <2>1. Num(LineStatus) \in Numbers
    <3>1. LineStatus \in 0 .. 255
      BY DEF LineStatus, TransmitterEmpty
    <3> QED BY <3>1, WordFacts
  <2> QED BY <2>1 DEF Poll, ReturnInv, MachineOK, Registers
<1>2. \/ \E n \in Index : eip = <<"kmain", n, "poll">>
      \/ \E n \in 1 .. Message : eip = <<"interrupt_handler", n, "poll">>
  BY WhereWriting DEF Poll
<1>3. \/ eip[1] = "kmain" /\ eip' \in {"kmain"} \X Index \X KmainPart
      \/ eip[1] = "interrupt_handler" /\ eip' \in HandlerPlaces
  BY <1>2 DEF Poll, KmainPart, HandlerPlaces
<1> QED BY <1>1, <1>3, InProgram DEF Poll, ReturnInv, MachineOK

LEMMA TestStep ==
  ASSUME ReturnInv, Test PROVE ReturnInv' /\ frames' = frames
<1>1. \/ \E n \in Index : eip = <<"kmain", n, "test">>
      \/ \E n \in 1 .. Message : eip = <<"interrupt_handler", n, "test">>
  BY WhereWriting DEF Test
<1>2. \E o \in {"send", "poll"} : eip' = [eip EXCEPT ![3] = o]
  BY DEF Test
<1>3. \/ eip[1] = "kmain" /\ eip' \in {"kmain"} \X Index \X KmainPart
      \/ eip[1] = "interrupt_handler" /\ eip' \in HandlerPlaces
  BY <1>1, <1>2 DEF KmainPart, HandlerPlaces
<1>4. regs' \in Registers /\ enabled' \in BOOLEAN
  BY DEF Test, ReturnInv, MachineOK
<1> QED BY <1>3, <1>4, InProgram DEF Test

LEMMA SendStep ==
  ASSUME ReturnInv, Send PROVE ReturnInv' /\ frames' = frames
<1>1. regs' \in Registers /\ enabled' \in BOOLEAN
  BY DEF Send, ReturnInv, MachineOK
<1>2. CASE \E n \in Index : eip = <<"kmain", n, "send">>
  <2>1. PICK n \in Index : eip = <<"kmain", n, "send">>
    BY <1>2
  <2>2. \/ n < KmainLength /\ eip' = <<"kmain", n + 1, "poll">>
        \/ eip' = <<"kmain", n, "sti">> \/ eip' = <<"kmain", n, "modules">>
        \/ eip' = <<"kmain", 0, "hlt">>
    BY <2>1 DEF Send, AfterCharacter, InHandler
  <2>3. eip' \in {"kmain"} \X Index \X KmainPart
    BY <2>2, IndexFacts DEF KmainPart
  <2> QED BY <1>1, <2>1, <2>3, InProgram DEF Send
<1>3. CASE \E n \in 1 .. Message : eip = <<"interrupt_handler", n, "send">>
  <2>1. PICK n \in 1 .. Message : eip = <<"interrupt_handler", n, "send">>
    BY <1>3
  <2>2. \/ n < Message /\ eip' = <<"interrupt_handler", n + 1, "poll">>
        \/ eip' = <<"interrupt_handler", 0, "return">>
    BY <2>1 DEF Send, AfterCharacter, InHandler
  <2>3. eip' \in HandlerPlaces
    BY <2>2, IndexFacts DEF HandlerPlaces
  <2> QED BY <1>1, <2>1, <2>3, InProgram DEF Send
<1> QED BY <1>2, <1>3, WhereWriting DEF Send

(* kmain goes on when there is no module list to read. *)
LEMMA ModulesRead ==
  ASSUME ReturnInv, ReadModules, frames' = frames
  PROVE  /\ eip' = <<"kmain", BeforeModules + 1, "poll">>
         /\ UNCHANGED <<regs, enabled, nmiMasked, stack, left, serialVars>>
<1>1. CASE Take(PageFault)
  <2>1. Len(frames') = Len(frames) + 1 /\ Len(frames) \in Nat
    BY <1>1, TakeStep, DeliveredFacts DEF ReturnInv, MachineOK
  <2> QED BY <2>1
<1> QED BY <1>1 DEF ReadModules

LEMMA KmainStep ==
  ASSUME ReturnInv, SerialInit \/ Sti \/ (ReadModules /\ frames' = frames)
  PROVE  ReturnInv' /\ frames' = frames
<1>1. CASE SerialInit
  <2>1. PICK n \in Index : eip = <<"kmain", n, "serial_init">> /\ n <= Len(serial_init)
    <3>1. eip[1] = "kmain"
      BY <1>1 DEF SerialInit
    <3>2. eip \in {"kmain"} \X Index \X KmainPart
      BY <3>1, WhereC DEF HandlerPlaces
    <3> QED BY <1>1, <3>2 DEF SerialInit
  <2>2. eip' = <<"kmain", n + 1, "serial_init">> \/ eip' = <<"kmain", 1, "poll">>
    BY <1>1, <2>1 DEF SerialInit
  <2>3. n + 1 \in Index
    BY <2>1, SerialProgram, IndexFacts DEF Index
  <2>4. eip' \in {"kmain"} \X Index \X KmainPart
    BY <2>2, <2>3, IndexFacts DEF KmainPart
  <2> QED BY <1>1, <2>1, <2>4, InProgram DEF SerialInit, ReturnInv, MachineOK
<1>2. CASE Sti
  <2>1. eip' \in {"kmain"} \X Index \X KmainPart
    BY <1>2, IndexFacts DEF Sti, KmainPart
  <2> QED BY <1>2, <2>1, InProgram DEF Sti, ReturnInv, MachineOK
<1>3. CASE ReadModules /\ frames' = frames
  <2>1. eip' = <<"kmain", BeforeModules + 1, "poll">> /\ UNCHANGED <<regs, enabled, stack>>
    BY <1>3, ModulesRead
  <2>2. eip' \in {"kmain"} \X Index \X KmainPart
    BY <2>1, IndexFacts DEF KmainPart
  <2> QED BY <1>3, <2>1, <2>2, InProgram DEF ReadModules, ReturnInv, MachineOK
<1> QED BY <1>1, <1>2, <1>3

(* interrupt_handler returns into the stub that called it. *)
LEMMA HandlerReturnStep ==
  ASSUME ReturnInv, HandlerReturn PROVE ReturnInv' /\ frames' = frames
<1> DEFINE f == frames[1]
           rest == SubSeq(stack, 3, Len(stack))
<1>1. frames # <<>>
  BY DEF ReturnInv, Running, InKmain, HandlerReturn
<1>2. f \in Frame
  BY <1>1 DEF ReturnInv, MachineOK
<1>3. Above(f, stack, 8) /\ stack[1] = StubPlace(f.vector, 8)
  <2>1. Serving(f, eip, regs, stack)
    BY <1>1 DEF ReturnInv, Running
  <2> QED BY <2>1 DEF Serving, InStub, StubPlace, InC, HandlerReturn
<1>4. /\ eip' = stack[1] /\ regs' = [regs EXCEPT !["eax"] = Junk]
      /\ stack' = << Junk >> \o rest /\ UNCHANGED <<enabled, frames>>
  BY DEF HandlerReturn
<1>5. Junk \in Word /\ Junk \in Numbers
  BY WordFacts DEF Junk
<1>6. Above(f, rest, 6)
  <2>1. Above(f, SubSeq(stack, 2 + 1, Len(stack)), 8 - 2)
    <3>1. \A k \in 0 .. 8 : Above(f, SubSeq(stack, k + 1, Len(stack)), 8 - k)
      BY <1>2, <1>3, DropAbove
    <3> QED BY <3>1
  <2>2. SubSeq(stack, 2 + 1, Len(stack)) = rest
    OBVIOUS
  <2> QED BY <2>1, <2>2
<1> HIDE DEF rest
<1>7. Above(f, stack', 7)
  <2>1. Above(f, << Junk >> \o rest, 6 + 1)
    BY <1>2, <1>5, <1>6, PushAbove
  <2> QED BY <1>4, <2>1
<1>8. InStub(f, eip', regs', stack')
  <2>1. Preamble(f.vector) \in {1, 2}
    BY <1>2, StubOps DEF Frame
  <2>2. Depth(8) = 7 /\ RegistersAt(f, regs', 8) /\ 8 \in 1 - Preamble(f.vector) .. 14
    BY <2>1 DEF Depth, RegistersAt
  <2>3. Above(f, stack', Depth(8))
    BY <1>7, <2>2
  <2> QED BY <1>3, <1>4, <2>2, <2>3 DEF InStub
<1>9. MachineOK'
  <2>1. eip' \in Place
    <3>0. Preamble(f.vector) \in {1, 2}
      BY <1>2, StubOps DEF Frame
    <3>1. f.vector \in Delivered /\ Preamble(f.vector) + 8 \in 1 .. 16
      BY <1>2, <3>0 DEF Frame
    <3> QED BY <1>3, <1>4, <3>1, WordFacts DEF StubPlace
  <2>2. regs' \in Registers
    BY <1>4, <1>5 DEF ReturnInv, MachineOK, Registers
  <2> QED BY <1>4, <1>7, <2>1, <2>2 DEF ReturnInv, MachineOK, Above
<1>10. Running'
  BY <1>1, <1>4, <1>8 DEF Running, Serving
<1> QED BY <1>4, <1>9, <1>10, SameFrames
-----------------------------------------------------------------------------
(* What a step does, and the theorems. *)

Returned ==
  /\ eip' = Head(frames).eip /\ regs' = Head(frames).regs
  /\ enabled' = Head(frames).enabled /\ stack' = Head(frames).stack

LEMMA InitReturnInv ==
  ASSUME Init PROVE ReturnInv
<1>1. MachineOK
  <2>1. \A n \in {0, 1, 2, 3} : Num(n) \in Numbers
    BY WordFacts
  <2>2. regs \in Registers
    BY <2>1 DEF Init, Registers
  <2>3. eip \in Place
    BY IndexFacts, CPlaces DEF Init, KmainPart
  <2>4. stack = <<>> /\ frames = <<>> /\ enabled = FALSE
    BY DEF Init
  <2>5. <<>> \in Seq(Word) /\ <<>> \in Seq(Frame)
    OBVIOUS
  <2> QED BY <2>2, <2>3, <2>4, <2>5 DEF MachineOK
<1>2. Running
  BY IndexFacts DEF Init, Running, InKmain, KmainPart
<1>3. Interrupted
  BY DEF Init, Interrupted
<1> QED BY <1>1, <1>2, <1>3 DEF ReturnInv

LEMMA NextStep ==
  ASSUME ReturnInv, [Next]_vars
  PROVE  ReturnInv' /\ (Len(frames') < Len(frames) => Returned)
<1>0. frames \in Seq(Frame) /\ Len(frames) \in Nat
  BY DEF ReturnInv, MachineOK
<1>1. CASE Execute
  <2>1. CASE frames' = frames /\ ReturnInv'
    BY <1>0, <2>1
  <2>2. CASE /\ frames # <<>> /\ frames' = Tail(frames)
             /\ eip' = frames[1].eip /\ regs' = frames[1].regs
             /\ enabled' = frames[1].enabled /\ stack' = frames[1].stack
    BY <1>0, <2>2, ReturnStep DEF Returned
  <2> QED BY <1>1, <2>1, <2>2, ExecuteStep
<1>2. CASE Poll \/ Test \/ Send \/ HandlerReturn \/ SerialInit \/ Sti
  <2>1. ReturnInv' /\ frames' = frames
    BY <1>2, PollStep, TestStep, SendStep, HandlerReturnStep, KmainStep
  <2> QED BY <1>0, <2>1
<1>3. ASSUME NEW v \in Delivered, Take(v)
      PROVE  ReturnInv' /\ (Len(frames') < Len(frames) => Returned)
  BY <1>0, <1>3, TakeStep
<1>4. CASE NonMaskable
  BY <1>3, <1>4, DeliveredFacts DEF NonMaskable
<1>5. CASE \E v \in Irqs : Irq(v)
  <2>1. PICK v \in Irqs : Take(v)
    BY <1>5 DEF Irq
  <2>2. v \in Delivered
    BY DeliveredFacts
  <2> QED BY <1>3, <2>1, <2>2
<1>6. CASE ReadModules
  <2>1. CASE Take(PageFault)
    BY <1>3, <2>1, DeliveredFacts
  <2>2. CASE frames' = frames
    BY <1>0, <1>6, <2>2, KmainStep
  <2> QED BY <1>6, <2>1, <2>2 DEF ReadModules
<1>7. CASE Uart \/ UNCHANGED vars
  <2>1. UNCHANGED <<eip, regs, enabled, stack, frames>>
    BY <1>7 DEF Uart, vars, cpu
  <2>2. MachineOK' /\ Running'
    BY <2>1 DEF ReturnInv, MachineOK, Running, InKmain, Serving, InStub, InC
  <2>3. ReturnInv'
    BY <2>1, <2>2, SameFrames
  <2> QED BY <1>0, <2>1, <2>3
<1> QED BY <1>1, <1>2, <1>4, <1>5, <1>6, <1>7 DEF Next, Program

(* The invariant holds of every behaviour. *)
THEOREM InterruptInvariant == Spec => []ReturnInv
<1>1. Init => ReturnInv
  BY InitReturnInv
<1>2. ReturnInv /\ [Next]_vars => ReturnInv'
  BY NextStep
<1> QED BY <1>1, <1>2, PTL DEF Spec

(* Every iret brings back the place, the registers, the flag and the stack *)
(* that its interrupt found (common_interrupt_handler and the two kinds of *)
(* stub), however many interrupts came in between.                         *)
THEOREM ReturnsAlwaysRestore == Spec => ReturnsRestore
<1>1. ReturnInv /\ [Next]_vars => (Len(frames') < Len(frames) => Returned)
  BY NextStep
<1>2. ReturnInv /\ [Next]_vars =>
        [Len(frames') < Len(frames) =>
           LET f == Head(frames) IN
           eip' = f.eip /\ regs' = f.regs /\ enabled' = f.enabled /\ stack' = f.stack]_vars
  BY <1>1 DEF Returned
<1> QED BY <1>2, InterruptInvariant, PTL DEF Spec, ReturnsRestore

(* interrupt_handler is told the vector of the interrupt it runs for, in   *)
(* every state (the gate, the stub and the argument on the stack).         *)
THEOREM HandlerAlwaysTold == Spec => []HandlerToldVector
<1>1. ReturnInv => HandlerToldVector
  <2> SUFFICES ASSUME ReturnInv, InHandler PROVE Argument = Num(Head(frames).vector)
    BY DEF HandlerToldVector
  <2>1. frames # <<>>
    BY DEF ReturnInv, Running, InKmain, InHandler
  <2>2. InC(frames[1], eip, stack)
    BY <2>1 DEF ReturnInv, Running, Serving, InStub, StubPlace, InHandler
  <2> QED BY <2>1, <2>2 DEF InC, Argument, ReturnInv, MachineOK
<1> QED BY <1>1, InterruptInvariant, PTL
-----------------------------------------------------------------------------
(* The serial line.  Gates clear the interrupt flag, and an NMI holds back *)
(* the next one: two handlers at most are on the stack.                    *)

AtPeace == frames = <<>> /\ nmiMasked = FALSE

OneHandler ==
  /\ Len(frames) = 1 /\ enabled = FALSE
  /\ \/ frames[1].vector = NMI /\ nmiMasked = TRUE
     \/ frames[1].vector # NMI /\ nmiMasked = FALSE

TwoHandlers ==
  /\ Len(frames) = 2 /\ enabled = FALSE /\ nmiMasked = TRUE
  /\ frames[1].vector = NMI /\ frames[1].enabled = FALSE /\ frames[2].vector # NMI

Nesting == AtPeace \/ OneHandler \/ TwoHandlers

(* Where kmain is, interrupted or not. *)
KmainAt == IF frames = <<>> THEN eip ELSE frames[Len(frames)].eip

UartRegisters == [dlab : BOOLEAN, low : Nat, high : Nat, fifoOn : BOOLEAN]

(* What serial_init has set up before its k-th write, and in the end. *)
UartAt(k) ==
  /\ uart \in UartRegisters
  /\ k \in 2 .. 4 => uart.dlab = TRUE
  /\ k >= 3 => uart.low = 1 % ByteSize
  /\ k >= 4 => uart.high = 1 \div ByteSize
  /\ k >= 5 => uart.dlab = FALSE
  /\ k >= 7 => uart.fifoOn = TRUE

SettingUp ==
  /\ eip \in {"kmain"} \X (1 .. 7) \X {"serial_init"} /\ UartAt(eip[2])
  /\ frames = <<>> /\ enabled = FALSE /\ fifo = <<>> /\ line = <<>> /\ written = <<>>

SetUp == SettingUp \/ (UartAt(8) /\ KmainAt[3] # "serial_init")

SetUpInv ==
  /\ ReturnInv /\ Nesting /\ SetUp
  /\ modules \in BOOLEAN /\ left \in 0 .. MaxInterrupts
-----------------------------------------------------------------------------
(* A writer that has seen the FIFO empty puts one character there, at any  *)
(* time later.  Each of the programs on the stack may be such a writer.    *)
Pends(ip, r) ==
  /\ ip[1] # "stub"
  /\ ip[3] = "send" \/ (ip[3] = "test" /\ serial_is_transmit_fifo_empty(r.eax[1]))

Pending(ip, r) == IF Pends(ip, r) THEN 1 ELSE 0

PendingUnder(k) == IF k <= Len(frames) THEN Pending(frames[k].eip, frames[k].regs) ELSE 0

LineCharacters == ({"int"} \X Vectors \X Nat) \cup ({"kmain"} \X {0} \X Nat)

LineTypes ==
  fifo \in Seq(LineCharacters) /\ line \in Seq(LineCharacters) /\ written \in Seq(LineCharacters)

RoomKept == Len(fifo) <= Room

(* The characters that wait and those that may be written unseen. *)
WaitingFew == Len(fifo) + Pending(eip, regs) + PendingUnder(1) + PendingUnder(2) <= 3

LineInv == SetUpInv /\ LineTypes /\ RoomKept

LossInv == LineInv /\ WaitingFew /\ NothingLost
-----------------------------------------------------------------------------
(* The number of the character that kmain writes next. *)
NextCharacter(ip) == IF ip[3] \in {"sti", "modules"} THEN ip[2] + 1 ELSE ip[2]

(* kmain's next character comes after all it has written. *)
KmainOrder ==
  /\ \A p, q \in DOMAIN written :
       p < q /\ written[p][1] = "kmain" /\ written[q][1] = "kmain" => written[p][3] < written[q][3]
  /\ KmainAt[3] \in {"poll", "test", "send", "sti", "modules"} =>
       \A p \in DOMAIN written :
         written[p][1] = "kmain" => written[p][3] < NextCharacter(KmainAt)

(* What may come right before character i of vector v's message. *)
Previous(v, i) ==
  {<<"int", v, i - 1>>} \cup (IF v # NMI THEN {<<"int", NMI, Message>>} ELSE {})

EndsIn(S) == written # <<>> /\ written[Len(written)] \in S

(* A handler of vector v, running or interrupted, can go on at ip. *)
GoesOn(ip, v) ==
  ip[1] = "interrupt_handler" /\ ip[2] > 1 => EndsIn(Previous(v, ip[2]))

(* An NMI's handler has written nothing yet, or its whole message. *)
Before(ip) ==
  \/ ip[1] = "stub" /\ ip[3] <= Preamble(ip[2]) + 7
  \/ ip[1] = "interrupt_handler" /\ ip[2] = 1

After(ip) ==
  \/ ip[1] = "stub" /\ ip[3] >= Preamble(ip[2]) + 8
  \/ ip = <<"interrupt_handler", 0, "return">>

MessagesWhole ==
  /\ \A p \in DOMAIN written :
       written[p][1] = "int" /\ written[p][3] > 1 =>
         p > 1 /\ written[p - 1] \in Previous(written[p][2], written[p][3])
  /\ frames # <<>> => GoesOn(eip, frames[1].vector)
  /\ Len(frames) = 2 => /\ Before(eip) => GoesOn(frames[1].eip, frames[2].vector)
                        /\ After(eip) => EndsIn({<<"int", NMI, Message>>})

LogInv == LineInv /\ KmainOrder /\ MessagesWhole
-----------------------------------------------------------------------------
(* What a stub's instruction, an interrupt and an iret do to the nesting.  *)

LEMMA StubStep ==
  ASSUME ReturnInv, Execute
  PROVE  /\ frames # <<>> /\ UNCHANGED <<modules, left, serialVars>>
         /\ \/ /\ UNCHANGED <<enabled, nmiMasked, frames>>
               /\ \E j \in 1 - Preamble(frames[1].vector) .. 13 :
                    /\ eip = StubPlace(frames[1].vector, j)
                    /\ \/ j # 7 /\ eip' = StubPlace(frames[1].vector, j + 1)
                       \/ j = 7 /\ eip' = <<"interrupt_handler", 1, "poll">>
            \/ /\ eip = StubPlace(frames[1].vector, 14)
               /\ frames' = Tail(frames) /\ nmiMasked' = FALSE
               /\ eip' = frames[1].eip /\ regs' = frames[1].regs
               /\ enabled' = frames[1].enabled /\ stack' = frames[1].stack
<1> DEFINE f == frames[1]
           v == f.vector
<1>1. frames # <<>> /\ f \in Frame /\ \E j \in 1 - Preamble(v) .. 14 : At(f, j)
  BY WhereStub DEF Execute
<1>2. PICK j \in 1 - Preamble(v) .. 14 : At(f, j)
  BY <1>1
<1>3. Preamble(v) \in {1, 2} /\ v \in Delivered
  BY StubOps, <1>1 DEF Frame
<1> DEFINE i == Preamble(v) + j
<1>4. j \in -1 .. 14 /\ i \in Nat /\ eip = <<"stub", v, i>>
  BY <1>2, <1>3 DEF At, StubPlace
<1> DEFINE op == Stub(v)[i]
<1>5. /\ j < 1 => op.do = "push_number"
      /\ j \in 1 .. 14 => op = common_interrupt_handler[j]
  <2>1. CASE j = 0
    <3>1. i = Preamble(v)
      BY <1>3, <2>1
    <3>2. op = Op("push_number", v)
      BY <1>3, <3>1, StubOps
    <3> QED BY <2>1, <3>2 DEF Op
  <2>2. CASE j = -1
    <3>1. Preamble(v) = 2 /\ i = 1
      BY <1>2, <1>3, <2>2
    <3>2. op = Op("push_number", 0)
      BY <1>3, <3>1, StubOps
    <3> QED BY <2>2, <3>2 DEF Op
  <2>3. CASE j \in 1 .. 14
    BY <1>3, <2>3, StubOps
  <2> QED BY <1>4, <2>1, <2>2, <2>3
<1>6. /\ j \notin {7, 14} => op.do \notin {"call", "iret"}
      /\ j = 7 => op.do = "call"
      /\ j = 14 => op = Op("iret", 0)
  <2>1. CASE j < 1
    BY <1>5, <2>1
  <2>2. CASE j \in 1 .. 14
    BY <1>5, <2>2, CommonOps DEF Op
  <2> QED BY <1>4, <2>1, <2>2
<1>7. eip[1] = "stub" /\ eip[2] = v /\ eip[3] = i
  BY <1>4
<1>8. [eip EXCEPT ![3] = @ + 1] = <<"stub", v, i + 1>>
  BY <1>3, <1>4, NextPlace
<1> HIDE DEF op, i
<1>9. UNCHANGED <<modules, left, serialVars>>
  BY DEF Execute
<1>10. CASE j \notin {7, 14}
  <2>1. eip' = <<"stub", v, i + 1>> /\ UNCHANGED <<enabled, nmiMasked, frames>>
    BY <1>6, <1>7, <1>8, <1>10 DEF Execute, op
  <2>2. eip' = StubPlace(v, j + 1) /\ eip = StubPlace(v, j) /\ j \in 1 - Preamble(v) .. 13
    BY <1>2, <1>3, <1>4, <1>10, <2>1 DEF StubPlace, i
  <2> QED BY <1>1, <1>9, <1>10, <2>1, <2>2
<1>11. CASE j = 7
  <2>1. eip' = <<"interrupt_handler", 1, "poll">> /\ UNCHANGED <<enabled, nmiMasked, frames>>
    BY <1>6, <1>7, <1>11 DEF Execute, op
  <2>2. eip = StubPlace(v, j) /\ j \in 1 - Preamble(v) .. 13
    BY <1>2, <1>3, <1>4, <1>11 DEF StubPlace, i
  <2> QED BY <1>1, <1>9, <1>11, <2>1, <2>2
<1>12. CASE j = 14
  <2>1. nmiMasked' = FALSE
    <3>1. op.do = "iret"
      BY <1>6, <1>12 DEF Op
    <3> QED BY <1>7, <3>1 DEF Execute, op
  <2>2. eip = StubPlace(v, 14)
    BY <1>4, <1>12 DEF StubPlace, i
  <2>3. /\ frames' = Tail(frames) /\ eip' = f.eip /\ regs' = f.regs
        /\ enabled' = f.enabled /\ stack' = f.stack
    BY <1>2, <1>12, StepIret DEF ReturnInv
  <2> QED BY <1>1, <1>9, <2>1, <2>2, <2>3
<1> QED BY <1>10, <1>11, <1>12

LEMMA TakeFacts ==
  ASSUME NEW v \in Delivered, ReturnInv, Take(v)
  PROVE  /\ frames' \in Seq(Frame) /\ Len(frames') = Len(frames) + 1
         /\ frames'[1] = [vector |-> v, eip |-> eip, regs |-> regs,
                          enabled |-> enabled, stack |-> stack]
         /\ \A k \in 1 .. Len(frames) : frames'[k + 1] = frames[k]
         /\ eip' = <<"stub", v, 1>> /\ enabled' = FALSE
         /\ left > 0 /\ left' = left - 1 /\ UNCHANGED <<regs, modules, serialVars>>
<1> DEFINE f == [vector |-> v, eip |-> eip, regs |-> regs, enabled |-> enabled, stack |-> stack]
<1>1. frames \in Seq(Frame) /\ f \in Frame
  BY DEF ReturnInv, MachineOK, Frame
<1>2. frames' = << f >> \o frames
  BY DEF Take
<1>3. eip' = <<"stub", v, 1>>
  <2>1. StubAt(GateOffset(idt_init[v])) = v
    BY GateLeads
  <2> QED BY <2>1 DEF Take
<1>4. enabled' = FALSE
  <2>1. ClearsFlag(idt_init[v])
    BY DeliveredFacts DEF ClearsFlag, idt_init, idt_set_entry
  <2> QED BY <2>1 DEF Take
<1>5. left > 0 /\ left' = left - 1 /\ UNCHANGED <<regs, modules, serialVars>>
  BY DEF Take
<1> HIDE DEF f
<1>6. /\ frames' \in Seq(Frame) /\ Len(frames') = Len(frames) + 1 /\ frames'[1] = f
      /\ \A k \in 1 .. Len(frames) : frames'[k + 1] = frames[k]
  <2>1. << f >> \in Seq(Frame) /\ Len(<< f >>) = 1 /\ << f >>[1] = f
    BY <1>1
  <2> QED BY <1>1, <1>2, <2>1
<1> QED BY <1>3, <1>4, <1>5, <1>6 DEF f

(* All that changes frames: the interrupts, by the condition they come on. *)
LEMMA TakeWhen ==
  ASSUME ReturnInv, NonMaskable \/ (\E v \in Irqs : Irq(v)) \/ (ReadModules /\ frames' # frames)
  PROVE  \E v \in Delivered :
           /\ Take(v)
           /\ \/ enabled # FALSE /\ v # NMI /\ UNCHANGED nmiMasked
              \/ frames = <<>> /\ v # NMI /\ UNCHANGED nmiMasked
              \/ /\ v = NMI /\ nmiMasked # TRUE /\ nmiMasked' = TRUE
                 /\ IdtLoaded
<1>1. CASE NonMaskable
  BY <1>1, DeliveredFacts DEF NonMaskable
<1>2. CASE \E v \in Irqs : Irq(v)
  <2>1. \A v \in Irqs : v \in Delivered /\ v # NMI
    BY DeliveredFacts, InterruptsAssumption DEF NMI
  <2> QED BY <1>2, <2>1 DEF Irq
<1>3. CASE ReadModules /\ frames' # frames
  <2>1. eip = <<"kmain", BeforeModules, "modules">>
    BY <1>3 DEF ReadModules
  <2>2. frames = <<>>
    BY <2>1, WhereC DEF HandlerPlaces
  <2>3. Take(PageFault) /\ UNCHANGED nmiMasked
    BY <1>3 DEF ReadModules
  <2>4. PageFault \in Delivered /\ PageFault # NMI
    BY DeliveredFacts DEF NMI, PageFault
  <2> QED BY <2>2, <2>3, <2>4
<1> QED BY <1>1, <1>2, <1>3

LEMMA KmainWhere ==
  ASSUME ReturnInv
  PROVE  KmainAt \in {"kmain"} \X Index \X KmainPart
<1>1. CASE frames = <<>>
  BY <1>1 DEF ReturnInv, Running, InKmain, KmainAt
<1>2. CASE frames # <<>>
  <2>1. Len(frames) \in 1 .. Len(frames)
    BY <1>2 DEF ReturnInv, MachineOK
  <2> QED BY <1>2, <2>1 DEF ReturnInv, Interrupted, InKmain, KmainAt
<1> QED BY <1>1, <1>2

LEMMA KmainStays ==
  ASSUME ReturnInv, \/ \E v \in Delivered : Take(v)
                    \/ /\ frames # <<>> /\ frames' = Tail(frames)
                       /\ eip' = frames[1].eip
                    \/ frames # <<>> /\ frames' = frames
                    \/ eip' = eip /\ frames' = frames
  PROVE  KmainAt' = KmainAt
<1> DEFINE n == Len(frames)
<1>0. frames \in Seq(Frame) /\ n \in Nat /\ (n = 0 <=> frames = <<>>)
  BY DEF ReturnInv, MachineOK
<1>1. CASE \E v \in Delivered : Take(v)
  <2>1. PICK v \in Delivered : Take(v)
    BY <1>1
  <2>2. Len(frames') = n + 1 /\ frames'[1].eip = eip /\ \A k \in 1 .. n : frames'[k + 1] = frames[k]
    <3>1. /\ Len(frames') = n + 1 /\ \A k \in 1 .. n : frames'[k + 1] = frames[k]
          /\ frames'[1] = [vector |-> v, eip |-> eip, regs |-> regs,
                           enabled |-> enabled, stack |-> stack]
      BY <2>1, TakeFacts
    <3> QED BY <3>1
  <2>3. frames' # <<>> /\ KmainAt' = frames'[n + 1].eip
    <3>1. frames' # <<>>
      <4> HIDE DEF n
      <4>1. Len(frames') # 0
        BY <1>0, <2>2
      <4> QED BY <4>1
    <3> QED BY <2>2, <3>1 DEF KmainAt
  <2>4. CASE n = 0
    <3>1. n + 1 = 1
      BY <2>4
    <3> QED BY <1>0, <2>2, <2>3, <2>4, <3>1 DEF KmainAt
  <2>5. CASE n # 0
    <3>1. n \in 1 .. n
      <4> HIDE DEF n
      <4> QED BY <1>0, <2>5
    <3>2. frames'[n + 1] = frames[n]
      BY <2>2, <3>1
    <3> QED BY <1>0, <2>3, <2>5, <3>2 DEF KmainAt
  <2> QED BY <2>4, <2>5
<1>2. CASE frames # <<>> /\ frames' = Tail(frames) /\ eip' = frames[1].eip
  <2>1. n \in Nat \ {0} /\ Len(frames') = n - 1 /\ \A k \in 1 .. n - 1 : frames'[k] = frames[k + 1]
    BY <1>0, <1>2
  <2>2. CASE n = 1
    <3>1. Len(frames') = 0 /\ frames' \in Seq(Frame)
      BY <1>0, <1>2, <2>1, <2>2
    <3>2. frames' = <<>>
      BY <3>1
    <3> QED BY <1>2, <2>2, <3>2 DEF KmainAt
  <2>3. CASE n # 1
    <3>0. n - 1 \in 1 .. n - 1 /\ (n - 1) + 1 = n /\ n - 1 # 0
      <4> HIDE DEF n
      <4> QED BY <2>1, <2>3
    <3>1. frames'[n - 1] = frames[n]
      BY <2>1, <3>0
    <3>2. frames' # <<>>
      BY <2>1, <3>0
    <3> QED BY <1>2, <2>1, <3>1, <3>2 DEF KmainAt
  <2> QED BY <2>2, <2>3
<1>3. CASE frames # <<>> /\ frames' = frames
  BY <1>3 DEF KmainAt
<1>4. CASE eip' = eip /\ frames' = frames
  BY <1>4 DEF KmainAt
<1> QED BY <1>1, <1>2, <1>3, <1>4

LEMMA NestingKept ==
  ASSUME ReturnInv, Nesting, [Next]_vars
  PROVE  Nesting'
<1>0. frames \in Seq(Frame) /\ Len(frames) \in Nat /\ (Len(frames) = 0 <=> frames = <<>>)
  BY DEF ReturnInv, MachineOK
<1>1. CASE UNCHANGED <<enabled, nmiMasked, frames>>
  BY <1>1 DEF Nesting, AtPeace, OneHandler, TwoHandlers
<1>2. CASE Execute
  <2>1. CASE UNCHANGED <<enabled, nmiMasked, frames>>
    BY <1>1, <2>1
  <2>2. CASE /\ frames # <<>> /\ frames' = Tail(frames) /\ nmiMasked' = FALSE
             /\ enabled' = frames[1].enabled
    <3>1. CASE OneHandler
      <4>1. frames' = <<>>
        BY <1>0, <2>2, <3>1 DEF OneHandler
      <4> QED BY <2>2, <4>1 DEF Nesting, AtPeace
    <3>2. CASE TwoHandlers
      <4>1. Len(frames') = 1 /\ frames'[1] = frames[2]
        BY <1>0, <2>2, <3>2 DEF TwoHandlers
      <4>2. enabled' = FALSE /\ frames'[1].vector # NMI
        BY <2>2, <3>2, <4>1 DEF TwoHandlers
      <4> QED BY <2>2, <4>1, <4>2 DEF Nesting, OneHandler
    <3> QED BY <2>2, <3>1, <3>2 DEF Nesting, AtPeace
  <2> QED BY <1>2, <2>1, <2>2, StubStep
<1>3. CASE NonMaskable \/ (\E v \in Irqs : Irq(v)) \/ (ReadModules /\ frames' # frames)
  <2>1. PICK v \in Delivered :
           /\ Take(v)
           /\ \/ enabled # FALSE /\ v # NMI /\ nmiMasked' = nmiMasked
              \/ frames = <<>> /\ v # NMI /\ nmiMasked' = nmiMasked
              \/ v = NMI /\ nmiMasked # TRUE /\ nmiMasked' = TRUE
    BY <1>3, TakeWhen
  <2>2. /\ Len(frames') = Len(frames) + 1 /\ enabled' = FALSE
        /\ frames'[1].vector = v /\ frames'[1].enabled = enabled
        /\ \A k \in 1 .. Len(frames) : frames'[k + 1] = frames[k]
    <3>1. /\ Len(frames') = Len(frames) + 1 /\ enabled' = FALSE
          /\ \A k \in 1 .. Len(frames) : frames'[k + 1] = frames[k]
          /\ frames'[1] = [vector |-> v, eip |-> eip, regs |-> regs,
                           enabled |-> enabled, stack |-> stack]
      BY <2>1, TakeFacts
    <3> QED BY <3>1
  <2>3. CASE AtPeace
    <3>1. Len(frames') = 1
      BY <1>0, <2>2, <2>3 DEF AtPeace
    <3>2. (v = NMI /\ nmiMasked' = TRUE) \/ (v # NMI /\ nmiMasked' = FALSE)
      BY <2>1, <2>3 DEF AtPeace
    <3>3. enabled' = FALSE /\ frames'[1].vector = v
      BY <2>2
    <3> QED BY <3>1, <3>2, <3>3 DEF Nesting, OneHandler
  <2>4. CASE OneHandler \/ TwoHandlers
    <3>0. frames # <<>>
      BY <1>0, <2>4 DEF OneHandler, TwoHandlers
    <3>1. v = NMI /\ nmiMasked # TRUE /\ nmiMasked' = TRUE /\ enabled = FALSE
      BY <2>1, <2>4, <3>0 DEF OneHandler, TwoHandlers
    <3>2. Len(frames) = 1 /\ frames[1].vector # NMI
      BY <2>4, <3>1 DEF OneHandler, TwoHandlers
    <3>3. Len(frames') = 2 /\ frames'[2] = frames[1]
      <4>1. 1 \in 1 .. Len(frames) /\ 1 + 1 = 2
        BY <3>2
      <4> QED BY <2>2, <3>2, <4>1
    <3>4. enabled' = FALSE /\ frames'[1].vector = NMI /\ frames'[1].enabled = FALSE
      BY <2>2, <3>1
    <3>5. frames'[2].vector # NMI
      BY <3>2, <3>3
    <3> QED BY <3>1, <3>3, <3>4, <3>5 DEF Nesting, TwoHandlers
  <2> QED BY <2>3, <2>4 DEF Nesting
<1>4. CASE Poll \/ Test \/ Send \/ HandlerReturn \/ SerialInit
  BY <1>1, <1>4 DEF Poll, Test, Send, HandlerReturn, SerialInit
<1>5. CASE Sti
  <2>1. frames = <<>>
    <3>1. eip[1] = "kmain"
      BY <1>5 DEF Sti
    <3> QED BY <3>1, WhereC DEF HandlerPlaces
  <2> QED BY <1>5, <2>1 DEF Sti, Nesting, AtPeace, OneHandler, TwoHandlers
<1>6. CASE ReadModules /\ frames' = frames
  <2>1. UNCHANGED <<enabled, nmiMasked>>
    BY <1>6, ModulesRead
  <2> QED BY <1>1, <1>6, <2>1
<1>7. CASE Uart \/ UNCHANGED vars
  BY <1>1, <1>7 DEF Uart, vars, cpu
<1> QED BY <1>2, <1>3, <1>4, <1>5, <1>6, <1>7 DEF Next, Program
-----------------------------------------------------------------------------
(* What serial_init leaves in the UART stays there. *)

(* A step of kmain is its own; during all others it stays where it is. *)
LEMMA KmainMoves ==
  ASSUME ReturnInv, [Next]_vars
  PROVE  \/ KmainAt' = KmainAt
         \/ /\ frames = <<>> /\ frames' = <<>> /\ eip[1] = "kmain"
            /\ \/ Poll \/ Test \/ Send \/ SerialInit \/ Sti
               \/ ReadModules /\ eip' = <<"kmain", BeforeModules + 1, "poll">>
<1>1. CASE Execute
  BY <1>1, StubStep, KmainStays
<1>2. CASE NonMaskable \/ (\E v \in Irqs : Irq(v)) \/ (ReadModules /\ frames' # frames)
  BY <1>2, TakeWhen, KmainStays
<1>3. CASE Uart \/ UNCHANGED vars
  <2>1. eip' = eip /\ frames' = frames
    BY <1>3 DEF Uart, vars, cpu
  <2> QED BY <2>1, KmainStays
<1>4. CASE HandlerReturn
  <2>1. frames' = frames /\ frames # <<>>
    BY <1>4 DEF HandlerReturn, ReturnInv, Running, InKmain
  <2> QED BY <2>1, KmainStays
<1>5. CASE \/ Poll \/ Test \/ Send \/ SerialInit \/ Sti \/ (ReadModules /\ frames' = frames)
  <2>1. frames' = frames
    BY <1>5 DEF Poll, Test, Send, SerialInit, Sti
  <2>2. CASE frames # <<>>
    BY <2>1, <2>2, KmainStays
  <2>3. CASE frames = <<>>
    <3>1. eip[1] = "kmain"
      BY <2>3 DEF ReturnInv, Running, InKmain
    <3>2. ReadModules => eip' = <<"kmain", BeforeModules + 1, "poll">>
      BY <2>1, ModulesRead
    <3> QED BY <1>5, <2>1, <2>3, <3>1, <3>2
  <2> QED BY <2>2, <2>3
<1> QED BY <1>1, <1>2, <1>3, <1>4, <1>5 DEF Next, Program

LEMMA RegisterLine ==
  ASSUME NEW value, Register("line", value)
  PROVE  uart' = [uart EXCEPT !.dlab = (value >= 128)]
  BY DEF Register

LEMMA RegisterData ==
  ASSUME NEW value, Register("data", value), uart.dlab = TRUE
  PROVE  uart' = [uart EXCEPT !.low = value]
  BY DEF Register

LEMMA RegisterDataHigh ==
  ASSUME NEW value, Register("data+1", value), uart.dlab = TRUE
  PROVE  uart' = [uart EXCEPT !.high = value]
  BY DEF Register

LEMMA RegisterFifo ==
  ASSUME NEW value, Register("fifo", value)
  PROVE  uart' = [uart EXCEPT !.fifoOn = (value % 2 = 1)]
  BY DEF Register

LEMMA RegisterModem ==
  ASSUME NEW value, Register("modem", value) PROVE uart' = uart
  BY DEF Register

(* The divisor's bytes. *)
LEMMA DivisorBytes ==
  /\ 1 % ByteSize = 1 /\ 1 \div ByteSize = 0 /\ ByteSize \in Nat
  /\ 1 % ByteSize \in Nat /\ 1 \div ByteSize \in Nat
<1>1. \A b \in Nat : b > 1 => 1 % b = 1 /\ 1 \div b = 0
  BY Z3
<1> QED BY <1>1, SerialAssumption

LEMMA LatchSet ==
  ASSUME NEW u \in UartRegisters, NEW b \in BOOLEAN
  PROVE  LET w == [u EXCEPT !.dlab = b] IN
         /\ w \in UartRegisters /\ w.dlab = b
         /\ w.low = u.low /\ w.high = u.high /\ w.fifoOn = u.fifoOn
  BY DEF UartRegisters

LEMMA FifoSet ==
  ASSUME NEW u \in UartRegisters, NEW b \in BOOLEAN
  PROVE  LET w == [u EXCEPT !.fifoOn = b] IN
         /\ w \in UartRegisters /\ w.fifoOn = b
         /\ w.low = u.low /\ w.high = u.high /\ w.dlab = u.dlab
  BY DEF UartRegisters

LEMMA DivisorSet ==
  ASSUME NEW u \in UartRegisters, NEW n \in Nat
  PROVE  /\ LET w == [u EXCEPT !.low = n] IN
            /\ w \in UartRegisters /\ w.low = n
            /\ w.dlab = u.dlab /\ w.high = u.high /\ w.fifoOn = u.fifoOn
         /\ LET w == [u EXCEPT !.high = n] IN
            /\ w \in UartRegisters /\ w.high = n
            /\ w.dlab = u.dlab /\ w.low = u.low /\ w.fifoOn = u.fifoOn
  BY DEF UartRegisters

(* One write of serial_init. *)
LEMMA SerialStep ==
  ASSUME NEW k \in 1 .. 7, UartAt(k), Register(serial_init[k].port, serial_init[k].value)
  PROVE  UartAt(k + 1)'
<1>0. uart \in UartRegisters
  BY DEF UartAt
<1>1. CASE k = 1
  <2>1. Register("line", 128)
    BY <1>1, SerialProgram DEF Out
  <2>2. uart' = [uart EXCEPT !.dlab = (128 >= 128)]
    BY <2>1, RegisterLine
  <2>3. uart' = [uart EXCEPT !.dlab = TRUE]
    <3>1. (128 >= 128) = TRUE
      OBVIOUS
    <3> QED BY <2>2, <3>1
  <2>4. /\ uart' \in UartRegisters /\ uart'.dlab = TRUE
        /\ uart'.low = uart.low /\ uart'.high = uart.high /\ uart'.fifoOn = uart.fifoOn
    BY <1>0, <2>3, LatchSet
  <2> QED BY <1>1, <2>4 DEF UartAt
<1>2. CASE k = 2
  <2>1. Register("data", 1 % ByteSize) /\ uart.dlab = TRUE
    BY <1>2, SerialProgram DEF Out, UartAt
  <2>2. uart' = [uart EXCEPT !.low = 1 % ByteSize]
    BY <2>1, RegisterData
  <2>3. /\ uart' \in UartRegisters /\ uart'.low = 1 % ByteSize
        /\ uart'.dlab = uart.dlab /\ uart'.high = uart.high /\ uart'.fifoOn = uart.fifoOn
    BY <1>0, <2>2, DivisorBytes, DivisorSet
  <2> QED BY <1>2, <2>1, <2>3 DEF UartAt
<1>3. CASE k = 3
  <2>1. Register("data+1", 1 \div ByteSize) /\ uart.dlab = TRUE
    BY <1>3, SerialProgram DEF Out, UartAt
  <2>2. uart' = [uart EXCEPT !.high = 1 \div ByteSize]
    BY <2>1, RegisterDataHigh
  <2>3. /\ uart' \in UartRegisters /\ uart'.high = 1 \div ByteSize
        /\ uart'.dlab = uart.dlab /\ uart'.low = uart.low /\ uart'.fifoOn = uart.fifoOn
    BY <1>0, <2>2, DivisorBytes, DivisorSet
  <2> QED BY <1>3, <2>1, <2>3 DEF UartAt
<1>4. CASE k = 4 \/ k = 5
  <2>1. Register("line", 3)
    BY <1>4, SerialProgram DEF Out
  <2>2. uart' = [uart EXCEPT !.dlab = (3 >= 128)]
    BY <2>1, RegisterLine
  <2>3. uart' = [uart EXCEPT !.dlab = FALSE]
    <3>1. (3 >= 128) = FALSE
      OBVIOUS
    <3> QED BY <2>2, <3>1
  <2>4. /\ uart' \in UartRegisters /\ uart'.dlab = FALSE
        /\ uart'.low = uart.low /\ uart'.high = uart.high /\ uart'.fifoOn = uart.fifoOn
    BY <1>0, <2>3, LatchSet
  <2> QED BY <1>4, <2>4 DEF UartAt
<1>5. CASE k = 6
  <2>1. Register("fifo", 199)
    BY <1>5, SerialProgram DEF Out
  <2>2. uart' = [uart EXCEPT !.fifoOn = (199 % 2 = 1)]
    BY <2>1, RegisterFifo
  <2>3. 199 % 2 = 1
    BY Z3
  <2>4. uart' = [uart EXCEPT !.fifoOn = TRUE]
    BY <2>2, <2>3
  <2>5. /\ uart' \in UartRegisters /\ uart'.fifoOn = TRUE
        /\ uart'.dlab = uart.dlab /\ uart'.low = uart.low /\ uart'.high = uart.high
    BY <1>0, <2>4, FifoSet
  <2> QED BY <1>5, <2>5 DEF UartAt
<1>6. CASE k = 7
  <2>1. Register("modem", 11)
    BY <1>6, SerialProgram DEF Out
  <2>2. uart' = uart
    BY <2>1, RegisterModem
  <2> QED BY <1>0, <1>6, <2>2 DEF UartAt
<1> QED BY <1>1, <1>2, <1>3, <1>4, <1>5, <1>6

LEMMA InitSetUp ==
  ASSUME Init PROVE SetUpInv
<1>1. uart \in UartRegisters
  <2>1. \A b \in Nat : b > 1 => 12 % b \in Nat
    BY Z3
  <2> QED BY <2>1, SerialAssumption DEF Init, UartRegisters
<1>2. UartAt(1)
  BY <1>1 DEF UartAt
<1>3. SettingUp
  BY <1>2 DEF Init, SettingUp
<1>4. Nesting
  BY DEF Init, Nesting, AtPeace
<1>5. modules \in BOOLEAN /\ left \in 0 .. MaxInterrupts
  BY InterruptsAssumption DEF Init
<1> QED BY <1>3, <1>4, <1>5, InitReturnInv DEF SetUpInv, SetUp

LEMMA CountersKept ==
  ASSUME modules \in BOOLEAN, left \in 0 .. MaxInterrupts, [Next]_vars
  PROVE  modules' \in BOOLEAN /\ left' \in 0 .. MaxInterrupts
<1>1. ASSUME NEW v, Take(v) PROVE modules' = modules /\ left' \in 0 .. MaxInterrupts
  BY <1>1, InterruptsAssumption DEF Take
<1>2. CASE NonMaskable \/ (\E v \in Irqs : Irq(v)) \/ (ReadModules /\ Take(PageFault))
  BY <1>1, <1>2 DEF NonMaskable, Irq
<1>3. CASE ReadModules /\ ~Take(PageFault)
  BY <1>3 DEF ReadModules
<1>4. CASE Execute \/ Poll \/ Test \/ Send \/ HandlerReturn \/ SerialInit \/ Sti
  <2>1. modules' = modules /\ left' = left
    BY <1>4 DEF Execute, Poll, Test, Send, HandlerReturn, SerialInit, Sti
  <2> QED BY <2>1
<1>5. CASE Uart \/ UNCHANGED vars
  <2>1. modules' = modules /\ left' = left
    BY <1>5 DEF Uart, vars
  <2> QED BY <2>1
<1> QED BY <1>2, <1>3, <1>4, <1>5 DEF Next, Program

(* serial_init runs alone. *)
LEMMA SettingUpStep ==
  ASSUME SetUpInv, SettingUp, [Next]_vars
  PROVE  \/ UNCHANGED vars
         \/ SettingUp'
         \/ UartAt(8)' /\ KmainAt'[3] # "serial_init"
<1>1. PICK k \in 1 .. 7 : eip = <<"kmain", k, "serial_init">>
  BY DEF SettingUp
<1>2. frames = <<>> /\ enabled = FALSE /\ fifo = <<>> /\ line = <<>> /\ written = <<>> /\ UartAt(k)
  BY <1>1 DEF SettingUp
<1>3. Len(serial_init) = 7
  BY SerialProgram
<1>4. SerialInit \/ UNCHANGED vars
  <2>1. ~Execute /\ ~Poll /\ ~Test /\ ~Send /\ ~HandlerReturn /\ ~ReadModules /\ ~Sti
    BY <1>1 DEF Execute, Poll, Test, Send, HandlerReturn, ReadModules, Sti
  <2>2. ~Uart /\ ~(\E v \in Irqs : Irq(v))
    BY <1>2 DEF Uart, Transmit, Irq
  <2>3. ~NonMaskable
    BY <1>1 DEF NonMaskable, IdtLoaded
  <2> QED BY <2>1, <2>2, <2>3 DEF Next, Program
<1>5. CASE SerialInit
  <2>1. Register(serial_init[k].port, serial_init[k].value)
    BY <1>1, <1>5 DEF SerialInit
  <2>2. UartAt(k + 1)'
    BY <1>2, <2>1, SerialStep
  <2>3. UNCHANGED <<frames, enabled, fifo, line, written>>
    BY <1>5 DEF SerialInit
  <2>4. CASE k < 7
    <3>1. eip' = <<"kmain", k + 1, "serial_init">> /\ k + 1 \in 1 .. 7
      BY <1>1, <1>3, <1>5, <2>4 DEF SerialInit
    <3> QED BY <1>2, <2>2, <2>3, <3>1 DEF SettingUp
  <2>5. CASE k = 7
    <3>1. eip' = <<"kmain", 1, "poll">>
      BY <1>1, <1>3, <1>5, <2>5 DEF SerialInit
    <3>2. KmainAt' = <<"kmain", 1, "poll">>
      BY <1>2, <2>3, <3>1 DEF KmainAt
    <3> QED BY <2>2, <2>5, <3>2
  <2> QED BY <2>4, <2>5
<1> QED BY <1>4, <1>5

(* After serial_init nothing is written to the UART but characters. *)
LEMMA ServingStep ==
  ASSUME SetUpInv, UartAt(8), KmainAt[3] # "serial_init", [Next]_vars
  PROVE  UNCHANGED uart /\ UartAt(8)' /\ KmainAt'[3] # "serial_init"
<1>0. ReturnInv
  BY DEF SetUpInv
<1>1. ~SerialInit
  <2> SUFFICES ASSUME SerialInit PROVE FALSE
    OBVIOUS
  <2>1. eip[1] = "kmain" /\ eip[3] = "serial_init"
    BY DEF SerialInit
  <2>2. frames = <<>>
    BY <1>0, <2>1, WhereC DEF HandlerPlaces
  <2> QED BY <2>1, <2>2 DEF KmainAt
<1>2. UNCHANGED uart
  <2>1. ASSUME NEW v, Take(v) PROVE UNCHANGED uart
    BY <2>1 DEF Take, serialVars
  <2>2. CASE NonMaskable \/ (\E v \in Irqs : Irq(v)) \/ ReadModules
    BY <2>1, <2>2 DEF NonMaskable, Irq, ReadModules, serialVars
  <2>3. CASE Execute \/ Poll \/ Test \/ Send \/ HandlerReturn \/ Sti
    BY <2>3 DEF Execute, Poll, Test, Send, HandlerReturn, Sti, serialVars, OutbData
  <2>4. CASE Uart \/ UNCHANGED vars
    BY <2>4 DEF Uart, Transmit, vars, serialVars
  <2> QED BY <1>1, <2>2, <2>3, <2>4 DEF Next, Program
<1>3. UartAt(8)'
  BY <1>2 DEF UartAt
<1>4. KmainAt'[3] # "serial_init"
  <2>1. CASE KmainAt' = KmainAt
    BY <2>1
  <2>2. CASE /\ frames = <<>> /\ frames' = <<>> /\ eip[1] = "kmain"
             /\ \/ Poll \/ Test \/ Send \/ SerialInit \/ Sti
                \/ ReadModules /\ eip' = <<"kmain", BeforeModules + 1, "poll">>
    <3>1. KmainAt' = eip'
      BY <2>2 DEF KmainAt
    <3>2. eip \in {"kmain"} \X Index \X KmainPart
      BY <1>0, <2>2, WhereC
    <3>3. eip'[3] # "serial_init"
      BY <1>1, <2>2, <3>2 DEF Poll, Test, Send, Sti, AfterCharacter, InHandler
    <3> QED BY <3>1, <3>3
  <2> QED BY <1>0, <2>1, <2>2, KmainMoves
<1> QED BY <1>2, <1>3, <1>4

LEMMA SetUpStep ==
  ASSUME SetUpInv, [Next]_vars PROVE SetUpInv'
<1>1. ReturnInv' /\ Nesting'
  BY NextStep, NestingKept DEF SetUpInv
<1>2. modules' \in BOOLEAN /\ left' \in 0 .. MaxInterrupts
  BY CountersKept DEF SetUpInv
<1>3. CASE SettingUp
  <2>1. CASE UNCHANGED vars
    <3>1. UNCHANGED <<eip, frames, enabled, serialVars>>
      BY <2>1 DEF vars, cpu
    <3> QED BY <1>1, <1>2, <1>3, <3>1 DEF SetUpInv, SetUp, SettingUp, UartAt, serialVars
  <2> QED BY <1>1, <1>2, <1>3, <2>1, SettingUpStep DEF SetUpInv, SetUp
<1>4. CASE UartAt(8) /\ KmainAt[3] # "serial_init"
  BY <1>1, <1>2, <1>4, ServingStep DEF SetUpInv, SetUp
<1> QED BY <1>3, <1>4 DEF SetUpInv, SetUp

(* The interrupt flag and the NMI mask keep the nesting, and serial_init   *)
(* sets the line up before anything else runs.                             *)
LEMMA SetUpInvariant == Spec => []SetUpInv
<1>1. Init => SetUpInv
  BY InitSetUp
<1>2. SetUpInv /\ [Next]_vars => SetUpInv'
  BY SetUpStep
<1> QED BY <1>1, <1>2, PTL DEF Spec

(* Whatever is written goes out at 115200 baud: no character comes before  *)
(* serial_init's divisor, and none of them gets into the divisor latch     *)
(* (serial_configure_baud_rate, serial_configure_line).                    *)
THEOREM SpeedAlwaysSet == Spec => []LineSpeed
<1>1. SetUpInv => LineSpeed
  <2> SUFFICES ASSUME SetUpInv, written # <<>> PROVE Divisor = SERIAL_BAUD_115200
    BY DEF LineSpeed
  <2>1. UartAt(8)
    BY DEF SetUpInv, SetUp, SettingUp
  <2>2. uart.low = 1 /\ uart.high = 0
    BY <2>1, DivisorBytes DEF UartAt
  <2>3. 0 * ByteSize + 1 = 1
    <3>1. \A b \in Nat : 0 * b + 1 = 1
      BY Z3
    <3> QED BY <3>1, SerialAssumption
  <2> QED BY <2>2, <2>3 DEF Divisor, SERIAL_BAUD_115200
<1> QED BY <1>1, SetUpInvariant, PTL
-----------------------------------------------------------------------------
(* The characters: written, waiting, sent.                                 *)

LEMMA AppendFacts ==
  ASSUME NEW S, NEW s \in Seq(S), NEW c \in S
  PROVE  /\ Append(s, c) \in Seq(S) /\ Len(Append(s, c)) = Len(s) + 1
         /\ Append(s, c)[Len(s) + 1] = c
         /\ \A i \in 1 .. Len(s) : Append(s, c)[i] = s[i]
  OBVIOUS

LEMMA OneMore ==
  ASSUME NEW S, NEW s \in Seq(S), NEW t \in Seq(S), NEW c \in S
  PROVE  s \o Append(t, c) = Append(s \o t, c)
  OBVIOUS

LEMMA OneOver ==
  ASSUME NEW S, NEW s \in Seq(S), NEW t \in Seq(S), t # <<>>
  PROVE  /\ Append(s, Head(t)) \o Tail(t) = s \o t
         /\ Head(t) \in S /\ Tail(t) \in Seq(S) /\ Len(Tail(t)) = Len(t) - 1
  OBVIOUS

(* What a writer sends. *)
LEMMA CharacterFacts ==
  ASSUME ReturnInv, Send
  PROVE  /\ Character \in LineCharacters
         /\ \/ /\ frames = <<>> /\ \E n \in Index : /\ eip = <<"kmain", n, "send">>
                                                    /\ Character = <<"kmain", 0, n>>
            \/ /\ frames # <<>>
               /\ \E n \in 1 .. Message : /\ eip = <<"interrupt_handler", n, "send">>
                                          /\ Character = <<"int", frames[1].vector, n>>
<1>1. CASE frames = <<>> /\ \E n \in Index : eip = <<"kmain", n, "send">>
  <2>1. PICK n \in Index : eip = <<"kmain", n, "send">>
    BY <1>1
  <2>2. Character = <<"kmain", 0, n>>
    BY <2>1 DEF Character, InHandler
  <2>3. n \in Nat
    BY IndexFacts DEF Index
  <2> QED BY <1>1, <2>1, <2>2, <2>3 DEF LineCharacters
<1>2. CASE frames # <<>> /\ \E n \in 1 .. Message : eip = <<"interrupt_handler", n, "send">>
  <2>1. PICK n \in 1 .. Message : eip = <<"interrupt_handler", n, "send">>
    BY <1>2
  <2>2. frames[1] \in Frame
    BY <1>2 DEF ReturnInv, MachineOK
  <2>3. stack[2] = Num(frames[1].vector)
    <3>1. Serving(frames[1], eip, regs, stack)
      BY <1>2 DEF ReturnInv, Running
    <3> QED BY <2>1, <3>1 DEF Serving, InStub, StubPlace, InC
  <2>4. Character = <<"int", frames[1].vector, n>>
    BY <2>1, <2>3 DEF Character, InHandler, Argument, Num
  <2>5. frames[1].vector \in Vectors /\ n \in Nat
    <3>1. frames[1].vector \in Delivered
      BY <2>2 DEF Frame
    <3>2. frames[1].vector \in Vectors
      BY <3>1, DeliveredFacts
    <3>3. n \in Nat
      BY <2>1, IndexFacts
    <3> QED BY <3>2, <3>3
  <2> QED BY <1>2, <2>1, <2>4, <2>5 DEF LineCharacters
<1> QED BY <1>1, <1>2, WhereWriting DEF Send

(* All that touches the line once it is set up. *)
LEMMA LineMoves ==
  ASSUME SetUpInv, [Next]_vars
  PROVE  \/ UNCHANGED <<fifo, line, written>>
         \/ /\ UartAt(8) /\ UartAt(8)'
            /\ \/ Send
               \/ Transmit /\ UNCHANGED <<cpu, frames>>
<1>1. ASSUME NEW v, Take(v) PROVE UNCHANGED <<fifo, line, written>>
  BY <1>1 DEF Take, serialVars
<1>2. CASE NonMaskable \/ (\E v \in Irqs : Irq(v)) \/ ReadModules
  BY <1>1, <1>2 DEF NonMaskable, Irq, ReadModules, serialVars
<1>3. CASE Execute \/ Poll \/ Test \/ HandlerReturn \/ Sti \/ SerialInit
  BY <1>3 DEF Execute, Poll, Test, HandlerReturn, Sti, SerialInit, serialVars
<1>4. CASE UNCHANGED vars
  BY <1>4 DEF vars, serialVars
<1>5. CASE Send \/ Uart
  <2>1. ~SettingUp
    BY <1>5 DEF SettingUp, Send, Uart, Transmit
  <2>2. UartAt(8) /\ KmainAt[3] # "serial_init"
    BY <2>1 DEF SetUpInv, SetUp
  <2> QED BY <1>5, <2>2, ServingStep DEF Uart
<1> QED BY <1>2, <1>3, <1>4, <1>5 DEF Next, Program

LEMMA RoomFacts ==
  /\ Room \in Nat \ {0}
  /\ UartAt(8) => Room = FifoDepth /\ uart.dlab = FALSE
  BY SerialAssumption DEF Room, UartAt

LEMMA LineStep ==
  ASSUME LineInv, [Next]_vars PROVE LineInv'
<1>0. SetUpInv /\ SetUpInv'
  BY SetUpStep DEF LineInv
<1>1. /\ fifo \in Seq(LineCharacters) /\ line \in Seq(LineCharacters)
      /\ written \in Seq(LineCharacters)
  BY DEF LineInv, LineTypes
<1>2. CASE UNCHANGED <<fifo, line, written>>
  <2>1. LineTypes'
    BY <1>1, <1>2 DEF LineTypes
  <2>2. Len(fifo') <= Room'
    <3>1. CASE fifo = <<>>
      <4>1. Len(fifo') = 0
        BY <1>2, <3>1
      <4>2. Room' \in Nat \ {0}
        BY SerialAssumption DEF Room
      <4> QED BY <4>1, <4>2
    <3>2. CASE fifo # <<>>
      <4>1. UartAt(8) /\ KmainAt[3] # "serial_init"
        BY <1>0, <3>2 DEF SetUpInv, SetUp, SettingUp
      <4>2. UNCHANGED uart
        BY <1>0, <4>1, ServingStep
      <4> QED BY <1>2, <4>2 DEF LineInv, RoomKept, Room
    <3> QED BY <3>1, <3>2
  <2> QED BY <1>0, <2>1, <2>2 DEF LineInv, RoomKept
<1>3. CASE UartAt(8) /\ UartAt(8)' /\ Send
  <2>0. Room = FifoDepth /\ uart' = uart /\ Room' = Room /\ FifoDepth \in Nat
    BY <1>3, RoomFacts, SerialAssumption DEF Send, OutbData, Room
  <2>1. Character \in LineCharacters
    BY <1>0, <1>3, CharacterFacts DEF SetUpInv
  <2>2. line' = line /\ written' = Append(written, Character)
    BY <1>3 DEF Send, OutbData
  <2>3. \/ fifo' = fifo
        \/ fifo' = Append(fifo, Character) /\ Len(fifo) < Room
    BY <1>3 DEF Send, OutbData
  <2>4. LineTypes'
    BY <1>1, <2>1, <2>2, <2>3, AppendFacts DEF LineTypes
  <2>5. CASE fifo' = fifo
    BY <1>0, <2>0, <2>4, <2>5 DEF LineInv, RoomKept
  <2>6. CASE fifo' = Append(fifo, Character) /\ Len(fifo) < Room
    <3>1. Len(fifo') = Len(fifo) + 1
      BY <1>1, <2>1, <2>6, AppendFacts
    <3>2. Len(fifo') <= Room'
      BY <1>1, <2>0, <2>6, <3>1
    <3> QED BY <1>0, <2>4, <3>2 DEF LineInv, RoomKept
  <2> QED BY <2>3, <2>5, <2>6
<1>4. CASE UartAt(8) /\ UartAt(8)' /\ Transmit
  <2>0. /\ uart' = uart /\ Room' = Room /\ Room \in Nat /\ written' = written
        /\ fifo # <<>> /\ fifo' = Tail(fifo) /\ line' = Append(line, Head(fifo))
    BY <1>4, RoomFacts DEF Transmit, Room
  <2>1. Head(fifo) \in LineCharacters /\ fifo' \in Seq(LineCharacters) /\ Len(fifo') = Len(fifo) - 1
    BY <1>1, <2>0, OneOver
  <2>2. LineTypes'
    BY <1>1, <2>0, <2>1, AppendFacts DEF LineTypes
  <2>3. Len(fifo') <= Room'
    <3>1. Len(fifo) <= Room /\ Len(fifo) \in Nat
      BY <1>1 DEF LineInv, RoomKept
    <3> QED BY <2>0, <2>1, <3>1
  <2> QED BY <1>0, <2>2, <2>3 DEF LineInv, RoomKept
<1> QED BY <1>0, <1>2, <1>3, <1>4, LineMoves

LEMMA InitLine ==
  ASSUME Init PROVE LineInv
<1>1. LineTypes
  BY DEF Init, LineTypes
<1>2. RoomKept
  <2>1. Len(fifo) = 0
    BY DEF Init
  <2> QED BY <2>1, RoomFacts DEF RoomKept
<1> QED BY <1>1, <1>2, InitSetUp DEF LineInv

LEMMA LineInvariant == Spec => []LineInv
<1>1. Init => LineInv
  BY InitLine
<1>2. LineInv /\ [Next]_vars => LineInv'
  BY LineStep
<1> QED BY <1>1, <1>2, PTL DEF Spec

LEMMA ServingHeight ==
  ASSUME NEW f \in Frame, NEW ip, NEW r, NEW s, Serving(f, ip, r, s)
  PROVE  Len(s) <= 11 + Len(f.stack)
<1>1. Len(f.stack) \in Nat
  BY DEF Frame
<1>2. CASE InC(f, ip, s)
  BY <1>1, <1>2 DEF InC, Above
<1>3. CASE InStub(f, ip, r, s)
  <2>1. f.vector \in Delivered
    BY DEF Frame
  <2>2. Preamble(f.vector) \in {1, 2}
    BY <2>1, StubOps
  <2>3. PICK j \in 1 - Preamble(f.vector) .. 14 : Above(f, s, Depth(j))
    BY <1>3 DEF InStub
  <2>4. j \in -1 .. 14
    BY <2>2
  <2>5. Depth(j) \in 0 .. 8
    BY <2>4 DEF Depth
  <2> QED BY <1>1, <2>3, <2>5 DEF Above
<1> QED BY <1>2, <1>3 DEF Serving

LEMMA WordTypes ==
  Place \subseteq Places /\ Word \subseteq Words
<1>1. Place \subseteq Places
  <2> SUFFICES ASSUME NEW p \in Place PROVE p \in Places
    OBVIOUS
  <2>1. CASE p \in {"stub"} \X Delivered \X (1 .. 16)
    <3>1. PICK v \in Delivered, n \in 1 .. 16 : p = <<"stub", v, n>>
      BY <2>1
    <3> QED BY <3>1 DEF Places
  <2>2. CASE p \in {"kmain", "interrupt_handler"} \X Index \X (CPart \cup KmainPart)
    <3>1. PICK c \in {"kmain", "interrupt_handler"}, n \in Index, o \in CPart \cup KmainPart :
            p = <<c, n, o>>
      BY <2>2
    <3>2. o \in {"serial_init", "poll", "test", "send", "sti", "modules", "hlt", "return"}
      BY <3>1 DEF CPart, KmainPart
    <3> QED BY <3>1, <3>2 DEF Places, Index
  <2> QED BY <2>1, <2>2 DEF Place
<1>2. {Flags(b) : b \in BOOLEAN} \subseteq Words
  BY DEF Words
<1> QED BY <1>1, <1>2 DEF Word, Words

LEMMA DepthFacts ==
  ASSUME Nesting
  PROVE  (frames = <<>> /\ Len(frames) = 0) \/ Len(frames) = 1 \/ Len(frames) = 2
<1>1. AtPeace => Len(frames) = 0 /\ frames = <<>>
  BY DEF AtPeace
<1> QED BY <1>1 DEF Nesting, OneHandler, TwoHandlers

(* Two handlers at most, and no more words on the stack than they need. *)
LEMMA StackBound ==
  ASSUME ReturnInv, Nesting PROVE Len(frames) <= 2 /\ Len(stack) <= 11 * Len(frames)
<1>0. frames \in Seq(Frame) /\ Len(frames) \in Nat /\ Len(stack) \in Nat
  BY DEF ReturnInv, MachineOK
<1>1. CASE AtPeace
  <2>1. Len(frames) = 0 /\ Len(stack) = 0
    BY <1>1 DEF AtPeace, ReturnInv, Running, InKmain
  <2> QED BY <2>1
<1>2. CASE OneHandler
  <2>1. Len(frames) = 1 /\ frames # <<>> /\ frames[1] \in Frame
    <3>1. Len(frames) = 1
      BY <1>2 DEF OneHandler
    <3> QED BY <1>0, <3>1
  <2>2. Serving(frames[1], eip, regs, stack)
    BY <2>1 DEF ReturnInv, Running
  <2>3. Len(stack) <= 11 + Len(frames[1].stack)
    BY <2>1, <2>2, ServingHeight
  <2>4. InKmain(frames[1].eip, frames[1].stack)
    BY <2>1 DEF ReturnInv, Interrupted
  <2>5. Len(frames[1].stack) = 0
    BY <2>4 DEF InKmain
  <2> QED BY <1>0, <2>1, <2>3, <2>5
<1>3. CASE TwoHandlers
  <2>1. Len(frames) = 2 /\ frames # <<>> /\ frames[1] \in Frame /\ frames[2] \in Frame
    BY <1>0, <1>3 DEF TwoHandlers
  <2>2. Serving(frames[1], eip, regs, stack)
    BY <2>1 DEF ReturnInv, Running
  <2>3. Len(stack) <= 11 + Len(frames[1].stack) /\ Len(frames[1].stack) \in Nat
    BY <2>1, <2>2, ServingHeight DEF Frame
  <2>4. \A k \in 1 .. 2 :
          IF k = 2 THEN InKmain(frames[k].eip, frames[k].stack)
          ELSE Serving(frames[k + 1], frames[k].eip, frames[k].regs, frames[k].stack)
    BY <2>1 DEF ReturnInv, Interrupted
  <2>5. /\ Serving(frames[2], frames[1].eip, frames[1].regs, frames[1].stack)
        /\ InKmain(frames[2].eip, frames[2].stack)
    <3>1. 1 + 1 = 2 /\ 1 \in 1 .. 2 /\ 2 \in 1 .. 2 /\ 1 # 2
      OBVIOUS
    <3>2. Serving(frames[1 + 1], frames[1].eip, frames[1].regs, frames[1].stack)
      BY <2>4, <3>1
    <3> QED BY <2>4, <3>1, <3>2
  <2>6. Len(frames[1].stack) <= 11 + Len(frames[2].stack)
    BY <2>1, <2>5, ServingHeight
  <2>7. Len(frames[2].stack) = 0
    BY <2>5 DEF InKmain
  <2> QED BY <1>0, <2>1, <2>3, <2>6, <2>7
<1> QED BY <1>1, <1>2, <1>3 DEF Nesting

(* The variables keep their types, and two nested handlers of at most 11   *)
(* words are all that is ever on the stack (idt_set_entry's interrupt      *)
(* gates, common_interrupt_handler).                                       *)
THEOREM TypeCorrect == Spec => []TypeOK
<1>1. LineInv => TypeOK
  <2> SUFFICES ASSUME LineInv PROVE TypeOK
    OBVIOUS
  <2>1. ReturnInv /\ Nesting /\ MachineOK
    BY DEF LineInv, SetUpInv, ReturnInv
  <2>2. eip \in Places /\ enabled \in BOOLEAN
    BY <2>1, WordTypes DEF MachineOK
  <2>3. DOMAIN regs = {"eax", "ebx", "ecx", "edx"} /\ \A r \in DOMAIN regs : regs[r] \in Numbers
    BY <2>1 DEF MachineOK, Registers
  <2>4. \A i \in DOMAIN stack : stack[i] \in Words
    <3>1. stack \in Seq(Word)
      BY <2>1 DEF MachineOK
    <3>2. \A i \in DOMAIN stack : stack[i] \in Word
      BY <3>1
    <3> QED BY <3>2, WordTypes
  <2>5. Len(frames) <= 2 /\ Len(stack) <= 11 * Len(frames)
    BY <2>1, StackBound
  <2>6. nmiMasked \in BOOLEAN
    BY <2>1 DEF Nesting, AtPeace, OneHandler, TwoHandlers
  <2>7. modules \in BOOLEAN /\ left \in 0 .. MaxInterrupts /\ Len(fifo) <= Room
    BY DEF LineInv, SetUpInv, RoomKept
  <2> QED BY <2>2, <2>3, <2>4, <2>5, <2>6, <2>7 DEF TypeOK
<1> QED BY <1>1, LineInvariant, PTL
-----------------------------------------------------------------------------
(* No character is lost.                                                   *)

LEMMA PendingBit ==
  ASSUME NEW ip, NEW r PROVE Pending(ip, r) \in {0, 1}
  BY DEF Pending

LEMMA UnderBits ==
  ASSUME NEW k PROVE PendingUnder(k) \in {0, 1}
  BY PendingBit DEF PendingUnder

LEMMA TailOfOne ==
  ASSUME NEW S, NEW s \in Seq(S), Len(s) = 1 PROVE Tail(s) = <<>>
<1>1. s # <<>> /\ Len(s) - 1 = 0
  OBVIOUS
<1>2. Tail(s) \in Seq(S) /\ Len(Tail(s)) = Len(s) - 1
  BY <1>1
<1>3. Len(Tail(s)) = 0
  BY <1>1, <1>2
<1>4. \A t \in Seq(S) : Len(t) = 0 => t = <<>>
  OBVIOUS
<1> QED BY <1>2, <1>3, <1>4

LEMMA TailOfTwo ==
  ASSUME NEW S, NEW s \in Seq(S), Len(s) = 2
  PROVE  Len(Tail(s)) = 1 /\ Tail(s)[1] = s[2]
<1>1. s # <<>>
  OBVIOUS
<1>2. Len(Tail(s)) = Len(s) - 1 /\ \A i \in 1 .. Len(s) - 1 : Tail(s)[i] = s[i + 1]
  BY <1>1
<1>3. 1 \in 1 .. Len(s) - 1 /\ 1 + 1 = 2 /\ Len(s) - 1 = 1
  OBVIOUS
<1> QED BY <1>2, <1>3

(* A step that is not a writer's leaves as many of them as there were. *)
LEMMA PendingKept ==
  ASSUME SetUpInv, [Next]_vars, ~Poll, ~Send
  PROVE  Pending(eip', regs') + PendingUnder(1)' + PendingUnder(2)'
           = Pending(eip, regs) + PendingUnder(1) + PendingUnder(2)
<1>0. ReturnInv /\ Nesting /\ frames \in Seq(Frame) /\ Len(frames) \in {0, 1, 2}
  BY DepthFacts DEF SetUpInv, ReturnInv, MachineOK
<1>a. /\ Pending(eip, regs) \in {0, 1} /\ Pending(eip', regs') \in {0, 1}
      /\ PendingUnder(1) \in {0, 1} /\ PendingUnder(2) \in {0, 1}
  BY PendingBit, UnderBits
<1>1. CASE frames' = frames /\ (Pends(eip', regs') <=> Pends(eip, regs))
  <2>1. Pending(eip', regs') = Pending(eip, regs)
    BY <1>1 DEF Pending
  <2>2. PendingUnder(1)' = PendingUnder(1) /\ PendingUnder(2)' = PendingUnder(2)
    BY <1>1 DEF PendingUnder
  <2> QED BY <2>1, <2>2
<1>2. CASE Execute
  <2>1. eip[1] = "stub"
    BY <1>2 DEF Execute
  <2>2. Pending(eip, regs) = 0
    BY <2>1 DEF Pending, Pends
  <2>3. CASE frames' = frames /\ ~Pends(eip', regs')
    BY <1>1, <2>1, <2>3 DEF Pends
  <2>4. CASE /\ frames # <<>> /\ frames' = Tail(frames)
             /\ eip' = frames[1].eip /\ regs' = frames[1].regs
    <3>1. \/ Len(frames) = 1 /\ Len(frames') = 0
          \/ Len(frames) = 2 /\ Len(frames') = 1 /\ frames'[1] = frames[2]
      <4>1. CASE Len(frames) = 0
        BY <1>0, <2>4, <4>1
      <4>2. CASE Len(frames) = 1
        BY <1>0, <2>4, <4>2
      <4>3. CASE Len(frames) = 2
        <5>1. Len(frames') = 1 /\ frames'[1] = frames[2]
          BY <1>0, <2>4, <4>3, TailOfTwo
        <5> QED BY <4>3, <5>1
      <4> QED BY <1>0, <4>1, <4>2, <4>3
    <3>3. Pending(eip', regs') = PendingUnder(1)
      BY <2>4, <3>1 DEF PendingUnder
    <3>4. PendingUnder(1)' = PendingUnder(2) /\ PendingUnder(2)' = 0
      BY <3>1 DEF PendingUnder
    <3> QED BY <1>a, <2>2, <3>3, <3>4
  <2>5. \/ frames' = frames /\ ~Pends(eip', regs')
        \/ /\ frames # <<>> /\ frames' = Tail(frames)
           /\ eip' = frames[1].eip /\ regs' = frames[1].regs
    <3>1. \/ frames' = frames /\ (eip'[1] = "stub" \/ eip'[3] = "poll")
          \/ /\ frames # <<>> /\ frames' = Tail(frames)
             /\ eip' = frames[1].eip /\ regs' = frames[1].regs
      <4>1. \A v, j : StubPlace(v, j)[1] = "stub"
        BY DEF StubPlace
      <4>2. <<"interrupt_handler", 1, "poll">>[3] = "poll"
        OBVIOUS
      <4> QED BY <1>0, <1>2, <4>1, <4>2, StubStep
    <3> QED BY <3>1 DEF Pends
  <2> QED BY <2>3, <2>4, <2>5
<1>3. CASE NonMaskable \/ (\E v \in Irqs : Irq(v)) \/ (ReadModules /\ frames' # frames)
  <2>1. PICK v \in Delivered : Take(v)
    BY <1>0, <1>3, TakeWhen
  <2>2. /\ Len(frames') = Len(frames) + 1 /\ eip' = <<"stub", v, 1>>
        /\ frames'[1].eip = eip /\ frames'[1].regs = regs
        /\ \A k \in 1 .. Len(frames) : frames'[k + 1] = frames[k]
    <3>1. /\ Len(frames') = Len(frames) + 1 /\ eip' = <<"stub", v, 1>>
          /\ \A k \in 1 .. Len(frames) : frames'[k + 1] = frames[k]
          /\ frames'[1] = [vector |-> v, eip |-> eip, regs |-> regs,
                           enabled |-> enabled, stack |-> stack]
      BY <1>0, <2>1, TakeFacts
    <3> QED BY <3>1
  <2>4. Len(frames) \in {0, 1}
    <3>1. ~TwoHandlers
      <4> SUFFICES ASSUME TwoHandlers PROVE FALSE
        OBVIOUS
      <4>1. enabled = FALSE /\ nmiMasked = TRUE /\ frames # <<>>
        BY DEF TwoHandlers
      <4> QED BY <1>0, <1>3, <4>1, TakeWhen
    <3> QED BY <1>0, <3>1, DepthFacts DEF Nesting, AtPeace, OneHandler
  <2>5. Pending(eip', regs') = 0
    BY <2>2 DEF Pending, Pends
  <2>6. PendingUnder(1)' = Pending(eip, regs)
    BY <2>2, <2>4 DEF PendingUnder
  <2>7. PendingUnder(2)' = PendingUnder(1)
    <3>1. Len(frames) = 1 => frames'[2] = frames[1]
      <4>1. Len(frames) = 1 => 1 \in 1 .. Len(frames) /\ 1 + 1 = 2
        OBVIOUS
      <4> QED BY <2>2, <4>1
    <3> QED BY <2>2, <2>4, <3>1 DEF PendingUnder
  <2>8. PendingUnder(2) = 0
    BY <2>4 DEF PendingUnder
  <2> QED BY <1>a, <2>5, <2>6, <2>7, <2>8
<1>4. CASE Uart \/ UNCHANGED vars
  <2>1. eip' = eip /\ regs' = regs /\ frames' = frames
    BY <1>4 DEF Uart, vars, cpu
  <2> QED BY <1>1, <2>1
<1>5. CASE Test
  <2>1. regs' = regs /\ frames' = frames
    BY <1>5 DEF Test
  <2>2. Pends(eip', regs') <=> Pends(eip, regs)
    <3>1. \/ \E n \in Index : eip = <<"kmain", n, "test">>
          \/ \E n \in 1 .. Message : eip = <<"interrupt_handler", n, "test">>
      BY <1>0, <1>5, WhereWriting DEF Test
    <3>2. PICK p \in {"kmain", "interrupt_handler"}, n \in Nat : eip = <<p, n, "test">>
      BY <3>1, IndexFacts DEF Index
    <3>3. CASE serial_is_transmit_fifo_empty(regs["eax"][1])
      <4>1. eip' = <<p, n, "send">>
        BY <1>5, <3>2, <3>3 DEF Test
      <4> QED BY <3>2, <3>3, <4>1 DEF Pends
    <3>4. CASE ~serial_is_transmit_fifo_empty(regs["eax"][1])
      <4>1. eip' = <<p, n, "poll">>
        BY <1>5, <3>2, <3>4 DEF Test
      <4> QED BY <2>1, <3>2, <3>4, <4>1 DEF Pends
    <3> QED BY <3>3, <3>4
  <2> QED BY <1>1, <2>1, <2>2
<1>6. CASE HandlerReturn
  <2>1. frames' = frames /\ frames # <<>> /\ ~Pends(eip, regs)
    BY <1>6 DEF HandlerReturn, ReturnInv, Pends, SetUpInv, Running, InKmain
  <2>2. eip' = StubPlace(frames[1].vector, 8)
    <3>1. Serving(frames[1], eip, regs, stack)
      BY <1>0, <2>1 DEF ReturnInv, Running
    <3> QED BY <1>6, <3>1 DEF Serving, InStub, StubPlace, InC, HandlerReturn
  <2> QED BY <1>1, <2>1, <2>2 DEF Pends, StubPlace
<1>7. CASE SerialInit \/ Sti \/ (ReadModules /\ frames' = frames)
  <2>1. frames' = frames /\ eip[3] \notin {"test", "send"}
    BY <1>7 DEF SerialInit, Sti, ReadModules
  <2>2. eip'[3] \notin {"test", "send"}
    <3>1. CASE SerialInit
      <4>1. eip \in {"kmain"} \X Index \X KmainPart
        BY <1>0, <3>1, WhereC DEF SerialInit, HandlerPlaces
      <4> QED BY <3>1, <4>1 DEF SerialInit
    <3>2. CASE Sti
      BY <3>2 DEF Sti
    <3>3. CASE ReadModules /\ frames' = frames
      BY <1>0, <3>3, ModulesRead
    <3> QED BY <1>7, <3>1, <3>2, <3>3
  <2> QED BY <1>1, <2>1, <2>2 DEF Pends
<1> QED BY <1>2, <1>3, <1>4, <1>5, <1>6, <1>7 DEF Next, Program

(* A writer sees the FIFO empty, and only then may it count on room. *)
LEMMA PollPends ==
  ASSUME SetUpInv, Poll
  PROVE  /\ fifo' = fifo /\ PendingUnder(1)' = PendingUnder(1) /\ PendingUnder(2)' = PendingUnder(2)
         /\ Pending(eip, regs) = 0 /\ (fifo # <<>> => Pending(eip', regs') = 0)
<1>1. frames' = frames /\ fifo' = fifo
  BY DEF Poll, serialVars
<1>2. Pending(eip, regs) = 0
  BY DEF Poll, Pending, Pends
<1>3. ASSUME fifo # <<>> PROVE Pending(eip', regs') = 0
  <2>1. regs' = [regs EXCEPT !["eax"] = Num(0)] /\ regs \in Registers
    BY <1>3 DEF Poll, LineStatus, SetUpInv, ReturnInv, MachineOK
  <2>2. regs'.eax = Num(0)
    BY <2>1 DEF Registers
  <2>3. ~serial_is_transmit_fifo_empty(regs'.eax[1])
    <3>1. (0 \div 32) % 2 = 0
      BY Z3
    <3> QED BY <2>2, <3>1 DEF serial_is_transmit_fifo_empty, Num
  <2>4. eip'[3] = "test"
    <3>1. \/ \E n \in Index : eip = <<"kmain", n, "poll">>
          \/ \E n \in 1 .. Message : eip = <<"interrupt_handler", n, "poll">>
      BY WhereWriting DEF Poll, SetUpInv
    <3> QED BY <3>1 DEF Poll
  <2> QED BY <2>3, <2>4 DEF Pending, Pends
<1> QED BY <1>1, <1>2, <1>3 DEF PendingUnder

LEMMA SendPends ==
  ASSUME SetUpInv, Send
  PROVE  /\ PendingUnder(1)' = PendingUnder(1) /\ PendingUnder(2)' = PendingUnder(2)
         /\ Pending(eip, regs) = 1 /\ Pending(eip', regs') = 0
<1>1. frames' = frames
  BY DEF Send
<1>2. Pending(eip, regs) = 1
  BY DEF Send, Pending, Pends
<1>3. eip'[3] \notin {"send", "test"}
  BY DEF Send, AfterCharacter
<1> QED BY <1>1, <1>2, <1>3 DEF PendingUnder, Pending, Pends

LEMMA LossStep ==
  ASSUME FifoDepth >= 3, LossInv, [Next]_vars PROVE LossInv'
<1> DEFINE pending == Pending(eip, regs) + PendingUnder(1) + PendingUnder(2)
<1>0. LineInv /\ LineInv' /\ SetUpInv
  BY LineStep DEF LossInv, LineInv
<1>1. fifo \in Seq(LineCharacters) /\ line \in Seq(LineCharacters) /\ Len(fifo) \in Nat
  BY <1>0 DEF LineInv, LineTypes
<1>2. pending \in 0 .. 3 /\ pending' \in 0 .. 3
  <2>1. /\ Pending(eip, regs) \in {0, 1} /\ Pending(eip', regs') \in {0, 1}
        /\ PendingUnder(1) \in {0, 1} /\ PendingUnder(2) \in {0, 1}
        /\ PendingUnder(1)' \in {0, 1} /\ PendingUnder(2)' \in {0, 1}
    BY PendingBit DEF PendingUnder
  <2> QED BY <2>1
<1>3. Len(fifo) + pending <= 3 /\ line \o fifo = written
  <2>1. Len(fifo) + Pending(eip, regs) + PendingUnder(1) + PendingUnder(2) <= 3
    BY DEF LossInv, WaitingFew
  <2>2. /\ Pending(eip, regs) \in {0, 1} /\ PendingUnder(1) \in {0, 1}
        /\ PendingUnder(2) \in {0, 1}
    BY PendingBit, UnderBits
  <2>3. Len(fifo) + pending <= 3
    BY <1>1, <2>1, <2>2
  <2> QED BY <2>3 DEF LossInv, NothingLost
<1>4. WaitingFew' <=> Len(fifo') + pending' <= 3
  <2>1. /\ Pending(eip', regs') \in {0, 1}
        /\ PendingUnder(1)' \in {0, 1} /\ PendingUnder(2)' \in {0, 1}
    BY PendingBit DEF PendingUnder
  <2>2. Len(fifo') \in Nat
    BY <1>0 DEF LineInv, LineTypes
  <2> QED BY <2>1, <2>2 DEF WaitingFew
<1>5. CASE Poll
  <2>1. UNCHANGED <<fifo, line, written>>
    BY <1>5 DEF Poll, serialVars
  <2>2. Len(fifo') + pending' <= 3
    <3>1. CASE fifo = <<>>
      <4>1. Len(fifo') = 0
        BY <2>1, <3>1
      <4> QED BY <1>2, <4>1
    <3>2. CASE fifo # <<>>
      <4>1. pending' = pending
        BY <1>0, <1>5, <3>2, PollPends
      <4> QED BY <1>3, <2>1, <4>1
    <3> QED BY <3>1, <3>2
  <2> QED BY <1>0, <1>3, <1>4, <2>1, <2>2 DEF LossInv, NothingLost
<1>6. CASE Send
  <2>1. pending = pending' + 1
    <3>1. PendingUnder(1) \in {0, 1} /\ PendingUnder(2) \in {0, 1}
      BY UnderBits
    <3> QED BY <1>0, <1>6, <3>1, SendPends
  <2>2. ~SettingUp
    BY <1>6 DEF SettingUp, Send
  <2>3. Room = FifoDepth /\ uart.dlab = FALSE
    BY <1>0, <2>2, RoomFacts DEF SetUpInv, SetUp
  <2>4. Len(fifo) < Room
    <3> HIDE DEF pending
    <3> QED BY <1>1, <1>2, <1>3, <2>1, <2>3, SerialAssumption
  <2>5. /\ fifo' = Append(fifo, Character) /\ line' = line
        /\ written' = Append(written, Character)
    BY <1>6, <2>3, <2>4 DEF Send, OutbData
  <2>6. Character \in LineCharacters
    BY <1>0, <1>6, CharacterFacts DEF SetUpInv
  <2>7. Len(fifo') = Len(fifo) + 1 /\ line' \o fifo' = written'
    BY <1>1, <1>3, <2>5, <2>6, AppendFacts, OneMore
  <2>8. Len(fifo') + pending' <= 3
    <3> HIDE DEF pending
    <3> QED BY <1>1, <1>2, <1>3, <2>1, <2>7
  <2> QED BY <1>0, <1>4, <2>7, <2>8 DEF LossInv, NothingLost
<1>7. CASE ~Poll /\ ~Send
  <2>1. pending' = pending
    BY <1>0, <1>7, PendingKept
  <2>2. CASE UNCHANGED <<fifo, line, written>>
    BY <1>0, <1>3, <1>4, <2>1, <2>2 DEF LossInv, NothingLost
  <2>3. CASE Transmit
    <3>1. /\ fifo # <<>> /\ fifo' = Tail(fifo) /\ line' = Append(line, Head(fifo))
          /\ written' = written
      BY <2>3 DEF Transmit
    <3>2. Len(fifo') = Len(fifo) - 1 /\ line' \o fifo' = line \o fifo
      BY <1>1, <3>1, OneOver
    <3>3. Len(fifo') + pending' <= 3
      <4> HIDE DEF pending
      <4> QED BY <1>1, <1>2, <1>3, <2>1, <3>2
    <3> QED BY <1>0, <1>3, <1>4, <3>1, <3>2, <3>3 DEF LossInv, NothingLost
  <2> QED BY <1>0, <1>7, <2>2, <2>3, LineMoves
<1> QED BY <1>5, <1>6, <1>7

LEMMA InitLoss ==
  ASSUME Init PROVE LossInv
<1>1. Len(fifo) = 0 /\ line \o fifo = written /\ frames = <<>> /\ Len(frames) = 0
  BY DEF Init
<1>2. Pending(eip, regs) = 0
  BY DEF Init, Pending, Pends
<1>3. PendingUnder(1) = 0 /\ PendingUnder(2) = 0
  BY <1>1 DEF PendingUnder
<1> QED BY <1>1, <1>2, <1>3, InitLine DEF LossInv, WaitingFew, NothingLost

(* No character is lost, however the writes of kmain, of an interrupt's    *)
(* handler and of an NMI's come between the polls of the others, when the  *)
(* FIFO holds at least as many characters as there are writers             *)
(* (serial_write_char, serial_configure_fifo; a 16550 holds 16).           *)
THEOREM CharactersNeverLost ==
  ASSUME FifoDepth >= 3 PROVE Spec => []NothingLost
<1>1. Init => LossInv
  BY InitLoss
<1>2. LossInv /\ [Next]_vars => LossInv'
  BY LossStep
<1>3. LossInv => NothingLost
  BY DEF LossInv
<1> QED BY <1>1, <1>2, <1>3, PTL DEF Spec
-----------------------------------------------------------------------------
(* The log can be read.                                                    *)

LEMMA WriteFacts ==
  ASSUME LineInv, Send
  PROVE  /\ written \in Seq(LineCharacters) /\ Character \in LineCharacters
         /\ written' \in Seq(LineCharacters)
         /\ Len(written') = Len(written) + 1 /\ written'[Len(written) + 1] = Character
         /\ \A i \in 1 .. Len(written) : written'[i] = written[i]
<1>1. written \in Seq(LineCharacters) /\ Character \in LineCharacters
  BY CharacterFacts DEF LineInv, LineTypes, SetUpInv
<1>2. written' = Append(written, Character)
  BY DEF Send, OutbData
<1> QED BY <1>1, <1>2, AppendFacts

(* kmain's own step, if it is one, is past what it has written. *)
LEMMA OrderStep ==
  ASSUME LineInv, KmainOrder, [Next]_vars PROVE KmainOrder'
<1> DEFINE Writing(p) == p[3] \in {"poll", "test", "send", "sti", "modules"}
<1>0. SetUpInv /\ ReturnInv
  BY DEF LineInv, SetUpInv
<1>1. CASE ~Send
  <2>1. written' = written
    BY <1>0, <1>1, LineMoves DEF Transmit
  <2>2. ASSUME Writing(KmainAt')
        PROVE  \A p \in DOMAIN written :
                 written[p][1] = "kmain" => written[p][3] < NextCharacter(KmainAt')
    <3>1. CASE KmainAt' = KmainAt
      BY <2>2, <3>1 DEF KmainOrder
    <3>2. CASE /\ frames = <<>> /\ frames' = <<>> /\ eip[1] = "kmain"
               /\ \/ Poll \/ Test \/ SerialInit \/ Sti
                  \/ ReadModules /\ eip' = <<"kmain", BeforeModules + 1, "poll">>
      <4>1. KmainAt = eip /\ KmainAt' = eip'
        BY <3>2 DEF KmainAt
      <4>2. PICK n \in Index, o \in KmainPart : eip = <<"kmain", n, o>>
        BY <1>0, <3>2, WhereC
      <4>3. CASE Poll \/ Test
        <5>1. NextCharacter(eip') = NextCharacter(eip) /\ Writing(eip)
          BY <4>2, <4>3 DEF Poll, Test, NextCharacter
        <5> QED BY <4>1, <5>1 DEF KmainOrder
      <4>4. CASE Sti \/ (ReadModules /\ eip' = <<"kmain", BeforeModules + 1, "poll">>)
        <5>1. NextCharacter(eip') = NextCharacter(eip) /\ Writing(eip)
          BY <4>4 DEF Sti, ReadModules, NextCharacter
        <5> QED BY <4>1, <5>1 DEF KmainOrder
      <4>5. CASE SerialInit
        <5>1. eip[3] = "serial_init"
          BY <4>5 DEF SerialInit
        <5>2. written = <<>>
          BY <1>0, <4>1, <5>1 DEF SetUpInv, SetUp, SettingUp
        <5> QED BY <5>2
      <4> QED BY <3>2, <4>3, <4>4, <4>5
    <3> QED BY <1>0, <1>1, <3>1, <3>2, KmainMoves
  <2> QED BY <2>1, <2>2 DEF KmainOrder
<1>2. CASE Send
  <2> DEFINE n == Len(written)
  <2>1. /\ n \in Nat /\ DOMAIN written = 1 .. n /\ DOMAIN written' = 1 .. n + 1
        /\ written'[n + 1] = Character /\ \A i \in 1 .. n : written'[i] = written[i]
    BY <1>2, WriteFacts
  <2> HIDE DEF n
  <2>2. CASE frames # <<>>
    <3>1. Character[1] = "int"
      BY <1>0, <1>2, <2>2, CharacterFacts
    <3>2. KmainAt' = KmainAt
      <4>1. frames' = frames
        BY <1>2 DEF Send
      <4> QED BY <1>0, <2>2, <4>1, KmainStays
    <3>3. \A p \in 1 .. n + 1 : written'[p][1] = "kmain" => p \in 1 .. n /\ written'[p] = written[p]
      BY <2>1, <3>1
    <3> QED BY <2>1, <3>2, <3>3 DEF KmainOrder
  <2>3. CASE frames = <<>>
    <3>1. PICK i \in Index : eip = <<"kmain", i, "send">> /\ Character = <<"kmain", 0, i>>
      BY <1>0, <1>2, <2>3, CharacterFacts
    <3>2. KmainAt = eip /\ KmainAt' = eip' /\ i \in Nat
      BY <1>2, <2>3, IndexFacts DEF KmainAt, Send, Index
    <3>3. \A p \in 1 .. n : written[p][1] = "kmain" => written[p][3] < i
      <4>1. Writing(eip) /\ NextCharacter(eip) = i
        BY <3>1 DEF NextCharacter
      <4> QED BY <2>1, <3>2, <4>1 DEF KmainOrder
    <3>4. \A p \in 1 .. n : p < n + 1 /\ p # n + 1
      BY <2>1
    <3>5. \A p, q \in 1 .. n + 1 :
            p < q /\ written'[p][1] = "kmain" /\ written'[q][1] = "kmain"
              => written'[p][3] < written'[q][3]
      <4> TAKE p, q \in 1 .. n + 1
      <4> HAVE p < q /\ written'[p][1] = "kmain" /\ written'[q][1] = "kmain"
      <4>1. p \in 1 .. n
        BY <2>1
      <4>2. CASE q \in 1 .. n
        BY <2>1, <4>1, <4>2 DEF KmainOrder
      <4>3. CASE q = n + 1
        BY <2>1, <3>1, <3>3, <4>1, <4>3
      <4> QED BY <2>1, <4>2, <4>3
    <3>6. ASSUME Writing(eip')
          PROVE  \A p \in 1 .. n + 1 : written'[p][1] = "kmain" => written'[p][3] < NextCharacter(eip')
      <4>1. NextCharacter(eip') = i + 1
        BY <1>2, <3>1, <3>6 DEF Send, AfterCharacter, InHandler, NextCharacter
      <4> TAKE p \in 1 .. n + 1
      <4> HAVE written'[p][1] = "kmain"
      <4>2. CASE p = n + 1
        BY <2>1, <3>1, <3>2, <4>1, <4>2
      <4>3. CASE p \in 1 .. n
        <5>1. written[p] \in LineCharacters /\ written[p][1] = "kmain" /\ written[p][3] < i
          BY <1>2, <2>1, <3>3, <4>3, WriteFacts
        <5>2. written[p][3] \in Nat
          BY <5>1 DEF LineCharacters
        <5> QED BY <2>1, <3>2, <4>1, <4>3, <5>1, <5>2
      <4> QED BY <2>1, <4>2, <4>3
    <3> QED BY <2>1, <3>2, <3>5, <3>6 DEF KmainOrder
  <2> QED BY <2>2, <2>3
<1> QED BY <1>1, <1>2

(* The part of MessagesWhole about the messages that are under way. *)
UnderWay ==
  /\ frames # <<>> => GoesOn(eip, frames[1].vector)
  /\ Len(frames) = 2 => /\ Before(eip) => GoesOn(frames[1].eip, frames[2].vector)
                        /\ After(eip) => EndsIn({<<"int", NMI, Message>>})

LEMMA StubPlaces ==
  ASSUME NEW v \in Delivered, NEW j \in 1 - Preamble(v) .. 14, NEW ip, ip = StubPlace(v, j)
  PROVE  (Before(ip) <=> j <= 7) /\ (After(ip) <=> j >= 8) /\ ip[1] = "stub"
<1>1. Preamble(v) \in {1, 2}
  BY StubOps
<1>2. ip[1] = "stub" /\ ip[2] = v /\ ip[3] = Preamble(v) + j
  BY DEF StubPlace
<1>3. ip # <<"interrupt_handler", 0, "return">>
  BY <1>2
<1>4. Preamble(v) + j <= Preamble(v) + 7 <=> j <= 7
  BY <1>1
<1>5. Preamble(v) + j >= Preamble(v) + 8 <=> j >= 8
  BY <1>1
<1> QED BY <1>2, <1>3, <1>4, <1>5 DEF Before, After

(* A step that writes nothing leaves the messages as they are. *)
LEMMA UnderWayKept ==
  ASSUME SetUpInv, UnderWay, [Next]_vars, ~Send, written' = written
  PROVE  UnderWay'
<1>0. /\ ReturnInv /\ Nesting /\ frames \in Seq(Frame)
      /\ ((frames = <<>> /\ Len(frames) = 0) \/ Len(frames) = 1 \/ Len(frames) = 2)
  BY DepthFacts DEF SetUpInv, ReturnInv, MachineOK
<1>1. CASE /\ frames' = frames
           /\ eip'[1] # "interrupt_handler" \/ ~(eip'[2] > 1)
           /\ frames # <<>> => (Before(eip') => Before(eip)) /\ (After(eip') => After(eip))
  <2>1. \A v : GoesOn(eip, v)'
    BY <1>1 DEF GoesOn
  <2>2. ASSUME Len(frames') = 2
        PROVE  /\ (Before(eip) => GoesOn(frames[1].eip, frames[2].vector))'
               /\ (After(eip) => EndsIn({<<"int", NMI, Message>>}))'
    <3>1. Len(frames) = 2 /\ frames # <<>>
      BY <1>0, <1>1, <2>2
    <3>2. /\ Before(eip') => Before(eip) /\ GoesOn(frames[1].eip, frames[2].vector)
          /\ After(eip') => After(eip) /\ EndsIn({<<"int", NMI, Message>>})
      BY <1>1, <3>1 DEF UnderWay
    <3> QED BY <1>1, <3>2 DEF GoesOn, EndsIn, Before, After
  <2> QED BY <2>1, <2>2 DEF UnderWay
<1>2. CASE frames' = frames /\ frames = <<>>
  <2>1. Len(frames') # 2
    BY <1>2
  <2> QED BY <1>2, <2>1 DEF UnderWay
<1>3. CASE eip' = eip /\ frames' = frames
  BY <1>3 DEF UnderWay, GoesOn, EndsIn
<1>4. CASE Execute
  <2> DEFINE v == frames[1].vector
  <2>1. frames # <<>> /\ v \in Delivered /\ Preamble(v) \in {1, 2}
    <3>1. frames # <<>> /\ frames[1] \in Frame
      BY <1>0, <1>4, WhereStub DEF Execute
    <3>2. v \in Delivered
      BY <3>1 DEF Frame
    <3> QED BY <3>1, <3>2, StubOps
  <2>2. CASE /\ frames' = frames
             /\ \E j \in 1 - Preamble(v) .. 13 :
                  /\ eip = StubPlace(v, j)
                  /\ \/ j # 7 /\ eip' = StubPlace(v, j + 1)
                     \/ j = 7 /\ eip' = <<"interrupt_handler", 1, "poll">>
    <3>1. PICK j \in 1 - Preamble(v) .. 13 :
                  /\ eip = StubPlace(v, j)
                  /\ \/ j # 7 /\ eip' = StubPlace(v, j + 1)
                     \/ j = 7 /\ eip' = <<"interrupt_handler", 1, "poll">>
      BY <2>2
    <3>2. j \in 1 - Preamble(v) .. 14 /\ j + 1 \in 1 - Preamble(v) .. 14
      BY <2>1
    <3>3. (Before(eip) <=> j <= 7) /\ (After(eip) <=> j >= 8)
      BY <2>1, <3>1, <3>2, StubPlaces
    <3>4. CASE j # 7 /\ eip' = StubPlace(v, j + 1)
      <4>1. (Before(eip') <=> j + 1 <= 7) /\ (After(eip') <=> j + 1 >= 8) /\ eip'[1] = "stub"
        BY <2>1, <3>2, <3>4, StubPlaces
      <4>2. (Before(eip') => Before(eip)) /\ (After(eip') => After(eip))
        BY <2>1, <3>2, <3>3, <3>4, <4>1
      <4> QED BY <1>1, <2>2, <4>1, <4>2
    <3>5. CASE j = 7 /\ eip' = <<"interrupt_handler", 1, "poll">>
      <4>1. ~After(eip') /\ ~(eip'[2] > 1)
        BY <3>5 DEF After
      <4> QED BY <1>1, <2>2, <3>3, <3>5, <4>1
    <3> QED BY <3>1, <3>4, <3>5
  <2>3. CASE /\ eip = StubPlace(v, 14) /\ frames' = Tail(frames) /\ eip' = frames[1].eip
    <3>1. CASE Len(frames) = 1
      <4>1. frames' = <<>> /\ Len(frames') # 2
        <5>1. frames' = <<>>
          BY <1>0, <2>3, <3>1, TailOfOne
        <5> QED BY <5>1
      <4> QED BY <4>1 DEF UnderWay
    <3>2. CASE Len(frames) = 2
      <4>1. Len(frames') = 1 /\ frames'[1] = frames[2]
        BY <1>0, <2>3, <3>2, TailOfTwo
      <4>2. After(eip)
        <5>1. 14 \in 1 - Preamble(v) .. 14
          BY <2>1
        <5> QED BY <2>1, <2>3, <5>1, StubPlaces
      <4>3. EndsIn({<<"int", NMI, Message>>}) /\ frames[2].vector # NMI
        <5>1. TwoHandlers
          BY <1>0, <3>2 DEF Nesting, OneHandler, AtPeace
        <5> QED BY <3>2, <4>2, <5>1 DEF UnderWay, TwoHandlers
      <4>4. \A n : EndsIn(Previous(frames[2].vector, n))
        BY <4>3 DEF EndsIn, Previous
      <4>5. GoesOn(eip, frames[1].vector)'
        BY <4>1, <4>4 DEF GoesOn, EndsIn
      <4> QED BY <4>1, <4>5 DEF UnderWay
    <3> QED BY <1>0, <2>1, <3>1, <3>2
  <2> QED BY <1>0, <1>4, <2>2, <2>3, StubStep
<1>5. CASE NonMaskable \/ (\E v \in Irqs : Irq(v)) \/ (ReadModules /\ frames' # frames)
  <2>1. PICK v \in Delivered : Take(v)
    BY <1>0, <1>5, TakeWhen
  <2>2. /\ Len(frames') = Len(frames) + 1 /\ eip' = <<"stub", v, 1>>
        /\ frames'[1].eip = eip
        /\ \A k \in 1 .. Len(frames) : frames'[k + 1] = frames[k]
    <3>1. /\ Len(frames') = Len(frames) + 1 /\ eip' = <<"stub", v, 1>>
          /\ \A k \in 1 .. Len(frames) : frames'[k + 1] = frames[k]
          /\ frames'[1] = [vector |-> v, eip |-> eip, regs |-> regs,
                           enabled |-> enabled, stack |-> stack]
      BY <1>0, <2>1, TakeFacts
    <3> QED BY <3>1
  <2>3. ~After(eip') /\ eip'[1] # "interrupt_handler"
    <3>1. Preamble(v) \in {1, 2}
      BY StubOps
    <3> QED BY <2>2, <3>1 DEF After
  <2>4. \A w : GoesOn(eip, w)'
    BY <2>3 DEF GoesOn
  <2>5. Len(frames') = 2 => GoesOn(frames[1].eip, frames[2].vector)'
    <3> SUFFICES ASSUME Len(frames') = 2 PROVE GoesOn(frames[1].eip, frames[2].vector)'
      OBVIOUS
    <3>1. Len(frames) = 1
      BY <1>0, <2>2
    <3>2. frames'[2] = frames[1] /\ frames # <<>>
      <4>1. 1 \in 1 .. Len(frames) /\ 1 + 1 = 2
        BY <3>1
      <4> QED BY <2>2, <3>1, <4>1
    <3>3. GoesOn(eip, frames[1].vector)
      BY <3>2 DEF UnderWay
    <3> QED BY <2>2, <3>2, <3>3 DEF GoesOn, EndsIn
  <2> QED BY <2>3, <2>4, <2>5 DEF UnderWay
<1>6. CASE Poll \/ Test
  <2>1. frames' = frames
    BY <1>6 DEF Poll, Test
  <2>2. CASE frames # <<>>
    <3>1. PICK n \in 1 .. Message, o \in {"poll", "test"} : eip = <<"interrupt_handler", n, o>>
      <4>1. CASE Poll
        BY <1>0, <2>2, <4>1, WhereWriting DEF Poll
      <4>2. CASE Test
        BY <1>0, <2>2, <4>2, WhereWriting DEF Test
      <4> QED BY <1>6, <4>1, <4>2
    <3>2. PICK q \in {"poll", "test", "send"} : eip' = <<"interrupt_handler", n, q>>
      BY <1>6, <3>1 DEF Poll, Test
    <3>3. (Before(eip') <=> Before(eip)) /\ ~After(eip') /\ eip'[1] = eip[1] /\ eip'[2] = eip[2]
      BY <3>1, <3>2 DEF Before, After
    <3> QED BY <2>1, <3>3 DEF UnderWay, GoesOn, EndsIn
  <2> QED BY <1>2, <2>1, <2>2
<1>7. CASE HandlerReturn
  <2> DEFINE v == frames[1].vector
  <2>1. frames' = frames /\ frames # <<>> /\ After(eip)
    BY <1>7 DEF HandlerReturn, ReturnInv, SetUpInv, Running, InKmain, After
  <2>2. eip' = StubPlace(v, 8)
    <3>1. Serving(frames[1], eip, regs, stack)
      BY <1>0, <2>1 DEF ReturnInv, Running
    <3> QED BY <1>7, <3>1 DEF Serving, InStub, StubPlace, InC, HandlerReturn
  <2>3. v \in Delivered /\ 8 \in 1 - Preamble(v) .. 14
    <3>1. frames[1] \in Frame
      BY <1>0, <2>1
    <3>2. v \in Delivered
      BY <3>1 DEF Frame
    <3> QED BY <3>2, StubOps
  <2>4. ~Before(eip') /\ eip'[1] = "stub"
    <3>1. (Before(eip') <=> 8 <= 7) /\ eip'[1] = "stub"
      BY <2>2, <2>3, StubPlaces
    <3> QED BY <3>1
  <2> QED BY <1>1, <2>1, <2>4
<1>8. CASE SerialInit \/ Sti \/ (ReadModules /\ frames' = frames)
  <2>1. eip[1] = "kmain" /\ frames' = frames
    BY <1>8 DEF SerialInit, Sti, ReadModules
  <2>2. frames = <<>>
    BY <1>0, <2>1, WhereC DEF HandlerPlaces
  <2> QED BY <1>2, <2>1, <2>2
<1>9. CASE Uart \/ UNCHANGED vars
  <2>1. eip' = eip /\ frames' = frames
    BY <1>9 DEF Uart, vars, cpu
  <2> QED BY <1>3, <2>1
<1> QED BY <1>4, <1>5, <1>6, <1>7, <1>8, <1>9 DEF Next, Program

LEMMA WholeStep ==
  ASSUME LineInv, MessagesWhole, [Next]_vars PROVE MessagesWhole'
<1>0. SetUpInv /\ ReturnInv /\ Nesting /\ UnderWay
  BY DEF LineInv, SetUpInv, MessagesWhole, UnderWay
<1>1. CASE ~Send
  <2>1. written' = written
    BY <1>0, <1>1, LineMoves DEF Transmit
  <2>2. UnderWay'
    BY <1>0, <1>1, <2>1, UnderWayKept
  <2> QED BY <2>1, <2>2 DEF MessagesWhole, UnderWay
<1>2. CASE Send
  <2> DEFINE n == Len(written)
  <2>1. /\ n \in Nat /\ DOMAIN written = 1 .. n /\ DOMAIN written' = 1 .. n + 1
        /\ Len(written') = n + 1 /\ written' # <<>>
        /\ written'[n + 1] = Character /\ \A i \in 1 .. n : written'[i] = written[i]
    BY <1>2, WriteFacts
  <2>2. written # <<>> => n \in 1 .. n
    BY <1>2, WriteFacts
  <2>3. \A S : EndsIn(S) => n \in 1 .. n /\ written[n] \in S
    BY <2>2 DEF EndsIn
  <2>4. \A S : Character \in S => EndsIn(S)'
    BY <2>1 DEF EndsIn
  <2> HIDE DEF n
  <2>5. frames' = frames
    BY <1>2 DEF Send
  <2>6. Character[1] = "int" /\ Character[3] > 1 =>
          EndsIn(Previous(Character[2], Character[3]))
    <3>1. CASE frames = <<>>
      BY <1>0, <1>2, <3>1, CharacterFacts
    <3>2. CASE frames # <<>>
      <4>1. PICK i \in 1 .. Message : /\ eip = <<"interrupt_handler", i, "send">>
                                      /\ Character = <<"int", frames[1].vector, i>>
        BY <1>0, <1>2, <3>2, CharacterFacts
      <4> QED BY <1>0, <3>2, <4>1 DEF UnderWay, GoesOn
    <3> QED BY <3>1, <3>2
  <2>7. \A p \in DOMAIN written' :
          written'[p][1] = "int" /\ written'[p][3] > 1 =>
            p > 1 /\ written'[p - 1] \in Previous(written'[p][2], written'[p][3])
    <3> TAKE p \in DOMAIN written'
    <3> HAVE written'[p][1] = "int" /\ written'[p][3] > 1
    <3>1. CASE p = n + 1
      <4>1. n \in 1 .. n /\ written[n] \in Previous(Character[2], Character[3])
        BY <2>1, <2>3, <2>6, <3>1
      <4>2. p > 1 /\ p - 1 = n
        BY <2>1, <3>1, <4>1
      <4> QED BY <2>1, <3>1, <4>1, <4>2
    <3>2. CASE p \in 1 .. n
      <4>1. /\ written'[p] = written[p] /\ p > 1
            /\ written[p - 1] \in Previous(written[p][2], written[p][3])
        BY <2>1, <3>2 DEF MessagesWhole
      <4>2. p - 1 \in 1 .. n
        BY <2>1, <3>2, <4>1
      <4> QED BY <2>1, <4>1, <4>2
    <3> QED BY <2>1, <3>1, <3>2
  <2>8. UnderWay'
    <3>1. CASE frames = <<>>
      <4>1. Len(frames') # 2
        BY <2>5, <3>1
      <4> QED BY <2>5, <3>1, <4>1 DEF UnderWay
    <3>2. CASE frames # <<>>
      <4>1. PICK i \in 1 .. Message : /\ eip = <<"interrupt_handler", i, "send">>
                                      /\ Character = <<"int", frames[1].vector, i>>
        BY <1>0, <1>2, <3>2, CharacterFacts
      <4>2. \/ i < Message /\ eip' = <<"interrupt_handler", i + 1, "poll">>
            \/ i = Message /\ eip' = <<"interrupt_handler", 0, "return">>
        <5>1. \/ i < Message /\ eip' = <<"interrupt_handler", i + 1, "poll">>
              \/ ~(i < Message) /\ eip' = <<"interrupt_handler", 0, "return">>
          BY <1>2, <4>1 DEF Send, AfterCharacter, InHandler
        <5>2. i < Message \/ i = Message
          BY InterruptsAssumption
        <5> QED BY <5>1, <5>2, InterruptsAssumption
      <4>3. GoesOn(eip, frames[1].vector)'
        <5>1. CASE eip' = <<"interrupt_handler", i + 1, "poll">>
          <6>1. Character \in Previous(frames[1].vector, i + 1)
            <7>1. (i + 1) - 1 = i
              OBVIOUS
            <7> QED BY <4>1, <7>1 DEF Previous
          <6>2. eip'[2] = i + 1
            BY <5>1
          <6> QED BY <2>4, <2>5, <6>1, <6>2 DEF GoesOn
        <5>2. CASE eip' = <<"interrupt_handler", 0, "return">>
          BY <5>2 DEF GoesOn
        <5> QED BY <4>2, <5>1, <5>2
      <4>4. ~Before(eip')
        <5>1. i + 1 # 1
          OBVIOUS
        <5> QED BY <4>2, <5>1 DEF Before
      <4>5. ASSUME Len(frames') = 2, After(eip') PROVE EndsIn({<<"int", NMI, Message>>})'
        <5>1. frames[1].vector = NMI
          <6>1. Len(frames) = 2
            BY <2>5, <4>5
          <6> QED BY <1>0, <6>1 DEF Nesting, AtPeace, OneHandler, TwoHandlers
        <5>2. i = Message
          BY <4>2, <4>5 DEF After
        <5> QED BY <2>4, <4>1, <5>1, <5>2
      <4> QED BY <4>3, <4>4, <4>5 DEF UnderWay
    <3> QED BY <3>1, <3>2
  <2> QED BY <2>7, <2>8 DEF MessagesWhole, UnderWay
<1> QED BY <1>1, <1>2

(* kmain's characters come in order, and the message of a handler comes in *)
(* one piece, but for the NMI's message in the middle of another handler's *)
(* (idt_set_entry's gates, interrupt_handler).                             *)
THEOREM LogAlwaysReadable == Spec => []LogReadable
<1>1. Init => LogInv
  <2> SUFFICES ASSUME Init PROVE LogInv
    OBVIOUS
  <2>1. written = <<>> /\ frames = <<>> /\ Len(frames) # 2
    BY DEF Init
  <2>2. KmainAt[3] = "serial_init"
    BY DEF Init, KmainAt
  <2> QED BY <2>1, <2>2, InitLine DEF LogInv, KmainOrder, MessagesWhole
<1>2. LogInv /\ [Next]_vars => LogInv'
  BY LineStep, OrderStep, WholeStep DEF LogInv
<1>3. LogInv => LogReadable
  <2> SUFFICES ASSUME LogInv PROVE LogReadable
    OBVIOUS
  <2>1. \A p \in DOMAIN written :
          written[p][1] = "int" /\ written[p][3] > 1 =>
            p > 1 /\ written[p - 1] \in Previous(written[p][2], written[p][3])
    BY DEF LogInv, MessagesWhole
  <2>2. \A p, q \in DOMAIN written :
          p < q /\ written[p][1] = "kmain" /\ written[q][1] = "kmain"
            => written[p][3] < written[q][3]
    BY DEF LogInv, KmainOrder
  <2> QED BY <2>1, <2>2 DEF LogReadable, Previous
<1> QED BY <1>1, <1>2, <1>3, PTL DEF Spec
=============================================================================
