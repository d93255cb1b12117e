------------------------------ MODULE UserDemo ------------------------------
(***************************************************************************)
(* KernelSO-main: the older kernel, which builds page tables for one user  *)
(* program, goes to ring 3 with an iret and never comes back.  There is no *)
(* interrupt table and no TSS: any interrupt or exception shuts the        *)
(* processor down.                                                         *)
(*                                                                         *)
(* Addresses count words of four bytes, pages are numbered.  The user      *)
(* program reads its message at the address the linker has given it.       *)
(***************************************************************************)
EXTENDS Descriptors, Sequences

CONSTANTS
  PAGE_SIZE,             \* words of a page (1024); also of the code page (USER_CODE_SIZE)
  TableSize,             \* entries of a page table or directory (1024)
  VgaPage,               \* the page of the text screen (0xB8)
  KernelPages,           \* physical pages of the kernel's code, data and stack
  USER_CODE_VIRT_BASE,
  USER_VIRT_STACK_TOP,
  Frames,                \* where the user's code and stack pages may lie
  LinkBases,             \* addresses the user program may be linked for
  Sizes,                 \* words the user program may have
  Message                \* what it shows

PageOf(address) == address \div PAGE_SIZE
DirIndex(page) == (page \div TableSize) % TableSize
TabIndex(page) == page % TableSize

CodePage == PageOf(USER_CODE_VIRT_BASE)
StackPage == PageOf(USER_VIRT_STACK_TOP - 1)
Indices == 0 .. TableSize - 1
UserFrames == [code : Frames, stack : Frames]

ASSUME UserDemoAssumption ==
  /\ PAGE_SIZE \in Nat \ {0} /\ TableSize \in Nat \ {0}
  /\ USER_CODE_VIRT_BASE \in Nat /\ USER_VIRT_STACK_TOP \in Nat \ {0}
  /\ VgaPage \in Indices /\ KernelPages \subseteq Indices \ {VgaPage}
  /\ Frames \subseteq Indices \ {VgaPage}
  /\ CodePage < TableSize * TableSize /\ StackPage < TableSize * TableSize
  /\ DirIndex(CodePage) # 0 /\ DirIndex(StackPage) # 0
  /\ DirIndex(CodePage) # DirIndex(StackPage)
  /\ Message \in Seq(STRING)

VARIABLES
  pc,               \* the next step, of the kernel or of the user program
  frame,            \* physical pages of user_code_page and user_stack
  payload,          \* the user program: its size, and where it is linked
  gdt,
  page_directory,   \* entries name a page table
  tables,           \* the three page tables; their entries name a physical page
  paging,           \* switched on with page_directory
  user_code_page,   \* what the kernel has copied there
  kstack,           \* the frame built for iret, the last word first
  proc,             \* struct user_process: entry point and stack top
  ring, enabled,    \* privilege level, interrupt flag
  segments,         \* CS, SS and the data segments
  esp,              \* the user's stack pointer
  read,             \* characters of the message read
  vga,              \* the second line of the screen
  shutdown

memory == <<page_directory, tables, user_code_page>>
kernel == <<gdt, kstack, proc>>
registers == <<ring, enabled, segments>>
user == <<esp, read, vga>>
vars == <<pc, frame, payload, kernel, memory, paging, registers, user, shutdown>>
-----------------------------------------------------------------------------
(* Page tables and the processor's use of them. *)

Absent == [present |-> FALSE, rw |-> FALSE, user |-> FALSE, to |-> 0]
Present(p) == [present |-> TRUE, rw |-> TRUE, user |-> FALSE, to |-> p]
PresentUser(p) == [present |-> TRUE, rw |-> TRUE, user |-> TRUE, to |-> p]

(* The page tables. *)
Low == 0
Code == 1
Stack == 2

Pages == 0 .. TableSize * TableSize - 1

(* Ring 3 needs the user bit, and the right to write, at both levels.      *)
Allows(entry, cpl, write) == entry.present /\ (cpl = 3 => entry.user /\ (write => entry.rw))

Leaf(page) == tables[page_directory[DirIndex(page)].to][TabIndex(page)]

May(page, cpl, write) ==
  /\ Allows(page_directory[DirIndex(page)], cpl, write)
  /\ Allows(Leaf(page), cpl, write)

Reaches(page, cpl, write, p) == May(page, cpl, write) /\ Leaf(page).to = p
-----------------------------------------------------------------------------
(* paging.c *)

(* Mutant: the whole of the low 4 MB is the user's. *)
LowTableOpen == [i \in Indices |-> PresentUser(i)]

LowTable == [i \in Indices |-> IF i = VgaPage THEN PresentUser(i) ELSE Present(i)]

OnePage(page, p) == [i \in Indices |-> IF i = TabIndex(page) THEN PresentUser(p) ELSE Absent]

StackPageBelow(user_stack_top) == PageOf(user_stack_top - 1)

(* Mutant: the stack's entry in the directory is a supervisor's. *)
PageDirectorySupervisor(code, stack) ==
  [i \in Indices |-> IF i = 0 THEN PresentUser(Low)
                     ELSE IF i = DirIndex(code) THEN PresentUser(Code)
                     ELSE IF i = DirIndex(stack) THEN Present(Stack) ELSE Absent]

(* Mutant: the low 4 MB are left out. *)
PageDirectoryHigh(code, stack) ==
  [i \in Indices |-> IF i = DirIndex(code) THEN PresentUser(Code)
                     ELSE IF i = DirIndex(stack) THEN PresentUser(Stack) ELSE Absent]

PageDirectory(code, stack) ==
  [i \in Indices |-> IF i = 0 THEN PresentUser(Low)
                     ELSE IF i = DirIndex(code) THEN PresentUser(Code)
                     ELSE IF i = DirIndex(stack) THEN PresentUser(Stack) ELSE Absent]

paging_build_user_demo(code_phys, code_virt, stack_phys, stack_top) ==
  LET code == PageOf(code_virt)  stack == StackPageBelow(stack_top)
  IN  /\ page_directory' = PageDirectory(code, stack)
      /\ tables' = [t \in {Low, Code, Stack} |->
                      IF t = Low THEN LowTable
                      ELSE IF t = Code THEN OnePage(code, code_phys)
                      ELSE OnePage(stack, stack_phys)]
-----------------------------------------------------------------------------
(* The kernel. *)

After ==
  [gdt_install |-> "copy_payload", copy_payload |-> "prepare", prepare |-> "build",
   build |-> "activate", activate |-> "cli", cli |-> "data_segments",
   data_segments |-> "push_frame", push_frame |-> "iret", iret |-> "push_argv",
   push_argv |-> "push_argc", push_argc |-> "call_main", call_main |-> "read"]

(* The kernel runs at its physical addresses, before and after paging.     *)
KernelMapped == paging => \A p \in KernelPages : Reaches(p, 0, TRUE, p)

At(step) == pc = step /\ ~shutdown /\ KernelMapped

gdt_install ==
  [n \in 0 .. 4 |->
     IF n = 0 THEN gdt_set_gate(0, 0, 0, 0)
     ELSE IF n = 1 THEN gdt_set_gate(0, 1048575, 154, 207)
     ELSE IF n = 2 THEN gdt_set_gate(0, 1048575, 146, 207)
     ELSE IF n = 3 THEN gdt_set_gate(0, 1048575, 250, 207)
     ELSE gdt_set_gate(0, 1048575, 242, 207)]

KernelCodeSelector == 8
KernelDataSelector == 16
UserCodeSelector == 24 + 3
UserDataSelector == 32 + 3

GdtInstall ==
  /\ At("gdt_install") /\ pc' = After[pc]
  /\ gdt' = gdt_install
  /\ segments' = [cs |-> KernelCodeSelector, ss |-> KernelDataSelector, ds |-> KernelDataSelector]
  /\ UNCHANGED <<frame, payload, kstack, proc, memory, paging, ring, enabled, user, shutdown>>

(* The words of the user program that this model looks at: its message,    *)
(* and the 0 after it, at its end.                                         *)
MessageAt(size) == size - Len(Message) - 1
Word(size, i) ==
  CASE i = size - 1 -> "NUL"
    [] i >= MessageAt(size) /\ i < size - 1 -> Message[i - MessageAt(size) + 1]
    [] OTHER -> "code"

(* Mutant: the last word is left out. *)
user_mode_copy_payloadShort(size) ==
  [i \in 0 .. PAGE_SIZE - 1 |->
     IF i < (IF size > PAGE_SIZE THEN PAGE_SIZE ELSE size - 1) THEN Word(size, i) ELSE "NOP"]

user_mode_copy_payload(size) ==
  [i \in 0 .. PAGE_SIZE - 1 |->
     IF i < (IF size > PAGE_SIZE THEN PAGE_SIZE ELSE size) THEN Word(size, i) ELSE "NOP"]

CopyPayload ==
  /\ At("copy_payload") /\ pc' = After[pc]
  /\ user_code_page' = user_mode_copy_payload(payload.size)
  /\ UNCHANGED <<frame, payload, kernel, page_directory, tables, paging, registers, user, shutdown>>

user_mode_prepare_process ==
  /\ At("prepare") /\ pc' = After[pc]
  /\ proc' = [entry_point |-> USER_CODE_VIRT_BASE, user_stack_top |-> USER_VIRT_STACK_TOP]
  /\ UNCHANGED <<frame, payload, gdt, kstack, memory, paging, registers, user, shutdown>>

BuildTables ==
  /\ At("build") /\ pc' = After[pc]
  /\ paging_build_user_demo(frame.code, proc.entry_point, frame.stack, proc.user_stack_top)
  /\ UNCHANGED <<frame, payload, kernel, paging, user_code_page, registers, user, shutdown>>

paging_activate ==
  /\ At("activate") /\ pc' = After[pc]
  /\ paging' = TRUE
  /\ UNCHANGED <<frame, payload, kernel, memory, registers, user, shutdown>>

(* enter_user_mode *)

Cli ==
  /\ At("cli") /\ pc' = After[pc]
  /\ enabled' = FALSE
  /\ UNCHANGED <<frame, payload, kernel, memory, paging, ring, segments, user, shutdown>>

DataSegments ==
  /\ At("data_segments") /\ pc' = After[pc]
  /\ segments' = [segments EXCEPT !.ds = UserDataSelector]
  /\ UNCHANGED <<frame, payload, kernel, memory, paging, ring, enabled, user, shutdown>>

(* Mutant: the user gets the interrupts, as most kernels would give it.    *)
IretFrameEnabled(flag) ==
  <<proc.entry_point, UserCodeSelector, TRUE, proc.user_stack_top, UserDataSelector>>

(* EIP, CS, EFLAGS without the interrupt flag, ESP, SS. *)
IretFrame(flag) ==
  <<proc.entry_point, UserCodeSelector, flag /\ FALSE, proc.user_stack_top, UserDataSelector>>

PushFrame ==
  /\ At("push_frame") /\ pc' = After[pc]
  /\ kstack' = IretFrame(enabled)
  /\ UNCHANGED <<frame, payload, gdt, proc, memory, paging, registers, user, shutdown>>

Iret ==
  /\ At("iret")
  /\ LET cs == kstack[2]  ss == kstack[5]
     IN  IF CodeFor(gdt, cs, 3) /\ DataFor(gdt, ss, 3) /\ DataFor(gdt, segments.ds, 3)
            /\ kstack[1] = USER_CODE_VIRT_BASE
         THEN /\ pc' = After[pc] /\ ring' = 3 /\ shutdown' = FALSE
              /\ enabled' = kstack[3] /\ esp' = kstack[4]
              /\ segments' = [segments EXCEPT !.cs = cs, !.ss = ss]
         ELSE shutdown' = TRUE /\ UNCHANGED <<pc, registers, esp>>
  /\ UNCHANGED <<frame, payload, kernel, memory, paging, read, vga>>
-----------------------------------------------------------------------------
(* The user program: start.s and main.c. *)

MessageAddress == payload.link + MessageAt(payload.size) + read

(* What an instruction accesses besides itself, and whether it writes.     *)
Operand(step) ==
  CASE step \in {"push_argv", "push_argc", "call_main"} -> [page |-> PageOf(esp - 1), write |-> TRUE]
    [] step = "read" -> [page |-> PageOf(MessageAddress), write |-> FALSE]
    [] step = "write" -> [page |-> VgaPage, write |-> TRUE]
    [] step = "spin" -> [page |-> CodePage, write |-> FALSE]

Permitted(step) ==
  /\ Reaches(CodePage, 3, FALSE, frame.code)
  /\ May(Operand(step).page, 3, Operand(step).write)

UserAt(step) == pc = step /\ ring = 3 /\ ~shutdown /\ Permitted(step)

UserPush(step) ==
  /\ UserAt(step) /\ pc' = After[pc]
  /\ esp' = esp - 1
  /\ UNCHANGED <<frame, payload, kernel, memory, paging, registers, read, vga, shutdown>>

(* The character at the place of the message, if it lies in the code page. *)
Character ==
  IF Leaf(PageOf(MessageAddress)).to = frame.code
  THEN user_code_page[MessageAddress % PAGE_SIZE] ELSE "other"

UserRead ==
  /\ UserAt("read")
  /\ pc' = IF Character = "NUL" THEN "spin" ELSE "write"
  /\ UNCHANGED <<frame, payload, kernel, memory, paging, registers, user, shutdown>>

UserWrite ==
  /\ UserAt("write") /\ pc' = "read"
  /\ vga' = Append(vga, Character)
  /\ read' = read + 1
  /\ UNCHANGED <<frame, payload, kernel, memory, paging, registers, esp, shutdown>>

UserFault ==
  /\ ring = 3 /\ ~shutdown /\ ~Permitted(pc)
  /\ shutdown' = TRUE
  /\ UNCHANGED <<pc, frame, payload, kernel, memory, paging, registers, user>>
-----------------------------------------------------------------------------
Init ==
  /\ pc = "gdt_install"
  /\ frame \in UserFrames /\ frame.code # frame.stack
  /\ payload \in [size : Sizes, link : LinkBases]
  /\ gdt = << >> /\ kstack = << >>
  /\ proc = [entry_point |-> 0, user_stack_top |-> 0]
  /\ page_directory = [i \in Indices |-> Absent]
  /\ tables = [t \in {Low, Code, Stack} |-> [i \in Indices |-> Absent]]
  /\ user_code_page = [i \in 0 .. PAGE_SIZE - 1 |-> "0"]
  /\ paging = FALSE /\ ring = 0 /\ enabled = FALSE
  /\ segments = [cs |-> 0, ss |-> 0, ds |-> 0]
  /\ esp = 0 /\ read = 0 /\ vga = << >> /\ shutdown = FALSE

Kernel ==
  \/ GdtInstall \/ CopyPayload \/ user_mode_prepare_process \/ BuildTables \/ paging_activate
  \/ Cli \/ DataSegments \/ PushFrame \/ Iret

User ==
  \/ (\E s \in {"push_argv", "push_argc", "call_main"} : UserPush(s))
  \/ UserRead \/ UserWrite \/ UserFault

Next == Kernel \/ User

Spec == Init /\ [][Next]_vars
FairSpec == Spec /\ WF_vars(Next)
-----------------------------------------------------------------------------
Entries(to) == [present : BOOLEAN, rw : BOOLEAN, user : BOOLEAN, to : to]

(* The variables hold values of their types. *)
TypeOK ==
  /\ pc \in DOMAIN After \cup {"read", "write", "spin"}
  /\ frame \in UserFrames
  /\ page_directory \in [Indices -> Entries({Low, Code, Stack})]
  /\ tables \in [{Low, Code, Stack} -> [Indices -> Entries(Indices)]]
  /\ paging \in BOOLEAN /\ ring \in {0, 3} /\ enabled \in BOOLEAN /\ shutdown \in BOOLEAN
  /\ esp \in 0 .. USER_VIRT_STACK_TOP

(* Whatever a program in ring 3 does, it reaches the screen, its code and  *)
(* its stack, and nothing of the kernel (paging.c, "VGA text memory page   *)
(* only").                                                                 *)
UserIsConfined ==
  paging => \A page \in Pages, write \in BOOLEAN :
              May(page, 3, write) => Leaf(page).to \in {VgaPage, frame.code, frame.stack}

(* The kernel goes on where it is when paging begins (paging.c,            *)
(* "kernel/runtime continuity").                                           *)
KernelGoesOn == ring = 0 => KernelMapped /\ ~shutdown

(* What user_mode_start_demo promises its program: code where it begins,   *)
(* a stack below the top it is given, and the screen.                      *)
UserPagesServe ==
  ring = 3 =>
    /\ Reaches(PageOf(proc.entry_point), 3, FALSE, frame.code)
    /\ Reaches(PageOf(proc.user_stack_top - 1), 3, TRUE, frame.stack)
    /\ Reaches(VgaPage, 3, TRUE, VgaPage)

(* In ring 3 no interrupt can come, for which there is neither a table nor *)
(* a stack, and every segment is a user's (enter_user_mode, gdt_install).  *)
RingThreeSealed ==
  ring = 3 => /\ ~enabled
              /\ CodeFor(gdt, segments.cs, 3)
              /\ DataFor(gdt, segments.ss, 3) /\ DataFor(gdt, segments.ds, 3)

(* The message comes onto the screen, and the program stays in its loop:   *)
(* for a program that is linked where it is loaded and fits in its page,   *)
(* ...                                                                     *)
Shows == <>[](vga = Message /\ pc = "spin" /\ ~shutdown)
FittingMessageShown ==
  payload.link = USER_CODE_VIRT_BASE /\ payload.size <= PAGE_SIZE => Shows

(* ... and for the program of the repository (user/main.c: "Stay in ring 3 *)
(* so the demo remains visible").                                          *)
MessageShown == Shows
=============================================================================
