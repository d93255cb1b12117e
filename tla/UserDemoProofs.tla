--------------------------- MODULE UserDemoProofs ---------------------------
(***************************************************************************)
(* The user-mode demonstration for any sizes of pages and tables, any      *)
(* addresses and any frames: what the page tables let ring 3 reach, that   *)
(* the kernel gets there, and that ring 3 is entered with what it needs.   *)
(* The invariant says what each step has set up for the ones after it.     *)
(***************************************************************************)
EXTENDS UserDemo, TLAPS

BeforeCopy == {"gdt_install"}
BeforeBuild == BeforeCopy \cup {"copy_payload", "prepare", "build"}
BeforeActivate == BeforeBuild \cup {"activate"}
BeforeFrame == BeforeActivate \cup {"cli", "data_segments", "push_frame"}
UserSteps == {"push_argv", "push_argc", "call_main", "read", "write", "spin"}

UserTables ==
  [t \in {Low, Code, Stack} |->
     IF t = Low THEN LowTable
     ELSE IF t = Code THEN OnePage(CodePage, frame.code) ELSE OnePage(StackPage, frame.stack)]

TablesBuilt ==
  pc \notin BeforeBuild => page_directory = PageDirectory(CodePage, StackPage) /\ tables = UserTables

KernelPrepared ==
  /\ pc \notin BeforeCopy => gdt = gdt_install
  /\ pc \notin {"gdt_install", "copy_payload", "prepare"} =>
       proc = [entry_point |-> USER_CODE_VIRT_BASE, user_stack_top |-> USER_VIRT_STACK_TOP]
  /\ paging <=> pc \notin BeforeActivate
  /\ pc \in {"push_frame", "iret"} => segments = [cs |-> KernelCodeSelector, ss |-> KernelDataSelector,
                                                  ds |-> UserDataSelector]
  /\ pc \in {"copy_payload", "prepare", "build", "activate", "cli", "data_segments"} =>
       segments = [cs |-> KernelCodeSelector, ss |-> KernelDataSelector, ds |-> KernelDataSelector]
  /\ pc \notin BeforeFrame =>
       kstack = <<USER_CODE_VIRT_BASE, UserCodeSelector, FALSE, USER_VIRT_STACK_TOP, UserDataSelector>>

RingEntered ==
  /\ ring = IF pc \in UserSteps THEN 3 ELSE 0
  /\ ~enabled
  /\ pc \in UserSteps => segments = [cs |-> UserCodeSelector, ss |-> UserDataSelector, ds |-> UserDataSelector]
  /\ pc \notin UserSteps => ~shutdown

StackUsed ==
  esp = IF pc \notin UserSteps THEN 0
        ELSE USER_VIRT_STACK_TOP - (IF pc = "push_argv" THEN 0 ELSE IF pc = "push_argc" THEN 1
                                    ELSE IF pc = "call_main" THEN 2 ELSE 3)

UserInv == TypeOK /\ TablesBuilt /\ KernelPrepared /\ RingEntered /\ StackUsed
-----------------------------------------------------------------------------
(* The steps in their order. *)
LEMMA StepOrder ==
  /\ DOMAIN After = {"gdt_install", "copy_payload", "prepare", "build", "activate", "cli", "data_segments",
                     "push_frame", "iret", "push_argv", "push_argc", "call_main"}
  /\ After["gdt_install"] = "copy_payload" /\ After["copy_payload"] = "prepare"
  /\ After["prepare"] = "build" /\ After["build"] = "activate" /\ After["activate"] = "cli"
  /\ After["cli"] = "data_segments" /\ After["data_segments"] = "push_frame"
  /\ After["push_frame"] = "iret" /\ After["iret"] = "push_argv" /\ After["push_argv"] = "push_argc"
  /\ After["push_argc"] = "call_main" /\ After["call_main"] = "read"
  BY DEF After

(* Indices of directory and tables. *)
LEMMA IndexRange ==
  /\ \A page \in Nat : DirIndex(page) \in Indices /\ TabIndex(page) \in Indices
  /\ \A page \in Indices : DirIndex(page) = 0 /\ TabIndex(page) = page
  /\ 0 \in Indices
  <1> USE UserDemoAssumption DEF Indices
  <1>1. ASSUME NEW page \in Nat PROVE page % TableSize \in Indices /\ page \div TableSize \in Nat
    BY Z3
  <1>2. ASSUME NEW page \in Indices PROVE page \div TableSize = 0 /\ page % TableSize = page
    BY Z3
  <1>3. 0 % TableSize = 0
    BY Z3
  <1>4. ASSUME NEW page \in Nat PROVE DirIndex(page) \in Indices /\ TabIndex(page) \in Indices
    <2>1. page \div TableSize \in Nat
      BY <1>1
    <2>2. (page \div TableSize) % TableSize \in Indices
      BY <1>1, <2>1
    <2> QED
      BY <1>1, <2>2 DEF DirIndex, TabIndex
  <1> QED
    BY <1>2, <1>3, <1>4 DEF DirIndex, TabIndex

(* The pages of the code and of the stack, and room for three words on it. *)
LEMMA UserPageNumbers ==
  /\ CodePage \in Nat /\ StackPage \in Nat
  /\ USER_VIRT_STACK_TOP >= 3
  <1>1. CodePage \in Nat /\ StackPage \in Nat
    BY Z3, UserDemoAssumption DEF CodePage, StackPage, PageOf
  <1>2. DirIndex(CodePage) \in Indices /\ DirIndex(StackPage) \in Indices
    BY <1>1, IndexRange
  <1>3. TableSize >= 3
    BY <1>2, UserDemoAssumption DEF Indices
  <1>4. StackPage >= TableSize
    <2> SUFFICES ASSUME StackPage < TableSize PROVE FALSE
      BY <1>1, UserDemoAssumption
    <2> QED
      BY <1>1, IndexRange, UserDemoAssumption DEF Indices
  <1>5. USER_VIRT_STACK_TOP - 1 >= StackPage
    BY Z3, UserDemoAssumption DEF StackPage, PageOf
  <1> QED
    BY <1>1, <1>3, <1>4, <1>5, UserDemoAssumption

(* The directory and the tables, entry by entry. *)
LEMMA DirectoryEntries ==
  ASSUME page_directory = PageDirectory(CodePage, StackPage), tables = UserTables, frame \in UserFrames
  PROVE  /\ page_directory[0] = PresentUser(Low)
         /\ page_directory[DirIndex(CodePage)] = PresentUser(Code)
         /\ page_directory[DirIndex(StackPage)] = PresentUser(Stack)
         /\ \A i \in Indices \ {0, DirIndex(CodePage), DirIndex(StackPage)} : page_directory[i] = Absent
         /\ \A i \in Indices : tables[Low][i] = IF i = VgaPage THEN PresentUser(i) ELSE Present(i)
         /\ \A i \in Indices :
              tables[Code][i] = IF i = TabIndex(CodePage) THEN PresentUser(frame.code) ELSE Absent
         /\ \A i \in Indices :
              tables[Stack][i] = IF i = TabIndex(StackPage) THEN PresentUser(frame.stack) ELSE Absent
  <1>1. DirIndex(CodePage) \in Indices /\ DirIndex(StackPage) \in Indices /\ 0 \in Indices
    BY IndexRange, UserPageNumbers
  <1>2. \A i \in Indices :
          page_directory[i] = IF i = 0 THEN PresentUser(Low)
                              ELSE IF i = DirIndex(CodePage) THEN PresentUser(Code)
                              ELSE IF i = DirIndex(StackPage) THEN PresentUser(Stack) ELSE Absent
    BY DEF PageDirectory
  <1>3. tables[Low] = LowTable /\ tables[Code] = OnePage(CodePage, frame.code)
        /\ tables[Stack] = OnePage(StackPage, frame.stack)
    BY DEF UserTables, Low, Code, Stack
  <1> QED
    BY <1>1, <1>2, <1>3, UserDemoAssumption DEF LowTable, OnePage

(* What the tables serve, and what they deny to ring 3. *)
LEMMA Served ==
  ASSUME page_directory = PageDirectory(CodePage, StackPage), tables = UserTables, frame \in UserFrames
  PROVE  /\ \A p \in KernelPages : Reaches(p, 0, TRUE, p)
         /\ Reaches(CodePage, 3, FALSE, frame.code)
         /\ Reaches(StackPage, 3, TRUE, frame.stack)
         /\ Reaches(VgaPage, 3, TRUE, VgaPage)
  <1>1. \A i \in Indices : tables[Low][i] = IF i = VgaPage THEN PresentUser(i) ELSE Present(i)
    BY DirectoryEntries
  <1>2. /\ page_directory[0] = PresentUser(Low)
        /\ page_directory[DirIndex(CodePage)] = PresentUser(Code)
        /\ page_directory[DirIndex(StackPage)] = PresentUser(Stack)
    BY DirectoryEntries
  <1>3. ASSUME NEW p \in Indices
        PROVE  /\ page_directory[DirIndex(p)] = PresentUser(Low)
               /\ Leaf(p) = IF p = VgaPage THEN PresentUser(p) ELSE Present(p)
    <2>1. DirIndex(p) = 0 /\ TabIndex(p) = p
      BY IndexRange
    <2>2. page_directory[0].to = Low
      BY <1>2 DEF PresentUser
    <2> QED
      BY <1>1, <1>2, <2>1, <2>2 DEF Leaf
  <1>4. ASSUME NEW p \in KernelPages PROVE Reaches(p, 0, TRUE, p)
    <2>1. p \in Indices /\ p # VgaPage
      BY UserDemoAssumption
    <2>2. page_directory[DirIndex(p)] = PresentUser(Low) /\ Leaf(p) = Present(p)
      BY <1>3, <2>1
    <2> QED
      BY <2>2 DEF Reaches, May, Allows, PresentUser, Present
  <1>5. Reaches(VgaPage, 3, TRUE, VgaPage)
    <2>1. page_directory[DirIndex(VgaPage)] = PresentUser(Low) /\ Leaf(VgaPage) = PresentUser(VgaPage)
      BY <1>3, UserDemoAssumption
    <2> QED
      BY <2>1 DEF Reaches, May, Allows, PresentUser
  <1>6. TabIndex(CodePage) \in Indices /\ TabIndex(StackPage) \in Indices
    BY IndexRange, UserPageNumbers
  <1>7. Leaf(CodePage) = PresentUser(frame.code)
    <2>1. page_directory[DirIndex(CodePage)].to = Code
      BY <1>2 DEF PresentUser
    <2> QED
      BY <1>6, <2>1, DirectoryEntries DEF Leaf
  <1>8. Leaf(StackPage) = PresentUser(frame.stack)
    <2>1. page_directory[DirIndex(StackPage)].to = Stack
      BY <1>2 DEF PresentUser
    <2> QED
      BY <1>6, <2>1, DirectoryEntries DEF Leaf
  <1>9. Reaches(CodePage, 3, FALSE, frame.code) /\ Reaches(StackPage, 3, TRUE, frame.stack)
    BY <1>2, <1>7, <1>8 DEF Reaches, May, Allows, PresentUser
  <1> QED
    BY <1>4, <1>5, <1>9

(* Ring 3 reaches the screen, its code and its stack, and nothing else. *)
LEMMA Denied ==
  ASSUME page_directory = PageDirectory(CodePage, StackPage), tables = UserTables, frame \in UserFrames,
         NEW page \in Nat, NEW write \in BOOLEAN, May(page, 3, write)
  PROVE  Leaf(page).to \in {VgaPage, frame.code, frame.stack}
  <1>1. DirIndex(page) \in Indices /\ TabIndex(page) \in Indices
    BY IndexRange
  <1>2. page_directory[DirIndex(page)].present /\ Leaf(page).present /\ Leaf(page).user
    BY DEF May, Allows
  <1>3. DirIndex(page) \in {0, DirIndex(CodePage), DirIndex(StackPage)}
    BY <1>1, <1>2, DirectoryEntries DEF Absent
  <1>4. CASE DirIndex(page) = 0
    <2>1. Leaf(page) = tables[Low][TabIndex(page)]
      BY <1>4, DirectoryEntries DEF Leaf, PresentUser
    <2>2. Leaf(page) = IF TabIndex(page) = VgaPage THEN PresentUser(VgaPage) ELSE Present(TabIndex(page))
      BY <1>1, <2>1, DirectoryEntries
    <2> QED
      BY <1>2, <2>2 DEF PresentUser, Present
  <1>5. CASE DirIndex(page) = DirIndex(CodePage)
    BY <1>1, <1>2, <1>5, DirectoryEntries DEF Leaf, PresentUser, Absent
  <1>6. CASE DirIndex(page) = DirIndex(StackPage)
    BY <1>1, <1>2, <1>6, DirectoryEntries DEF Leaf, PresentUser, Absent
  <1> QED
    BY <1>3, <1>4, <1>5, <1>6

(* The user's descriptors mean what ring 3 uses them for. *)
LEMMA UserSegments ==
  CodeFor(gdt_install, UserCodeSelector, 3) /\ DataFor(gdt_install, UserDataSelector, 3)
  <1>1. gdt_set_gate(0, 1048575, 250, 207) =
          [base_low |-> 0, base_middle |-> 0, base_high |-> 0, limit_low |-> 65535,
           granularity |-> 207, access |-> 250]
    BY Z3 DEF gdt_set_gate
  <1>2. gdt_set_gate(0, 1048575, 242, 207) =
          [base_low |-> 0, base_middle |-> 0, base_high |-> 0, limit_low |-> 65535,
           granularity |-> 207, access |-> 242]
    BY Z3 DEF gdt_set_gate
  <1>3. /\ DOMAIN gdt_install = 0 .. 4
        /\ gdt_install[3] = gdt_set_gate(0, 1048575, 250, 207)
        /\ gdt_install[4] = gdt_set_gate(0, 1048575, 242, 207)
    BY DEF gdt_install
  <1>4. /\ UserCodeSelector \div 8 = 3 /\ UserCodeSelector % 4 = 3
        /\ UserDataSelector \div 8 = 4 /\ UserDataSelector % 4 = 3
    BY Z3 DEF UserCodeSelector, UserDataSelector
  <1>5. /\ 250 \div 128 = 1 /\ 250 \div 16 = 15 /\ 250 \div 8 = 31 /\ 250 \div 32 = 7
        /\ 242 \div 128 = 1 /\ 242 \div 16 = 15 /\ 242 \div 8 = 30 /\ 242 \div 2 = 121 /\ 242 \div 32 = 7
        /\ 207 \div 128 = 1 /\ 207 \div 64 = 3 /\ 207 % 16 = 15
        /\ 1 % 2 = 1 /\ 15 % 2 = 1 /\ 31 % 2 = 1 /\ 30 % 2 = 0 /\ 121 % 2 = 1 /\ 3 % 2 = 1 /\ 7 % 4 = 3
    BY Z3
  <1>6. CodeFor(gdt_install, UserCodeSelector, 3)
    BY <1>1, <1>3, <1>4, <1>5 DEF CodeFor, Entry, InTable, IsCode, IsSegment, IsFlat, Base, Limit, Dpl, Bit
  <1>7. DataFor(gdt_install, UserDataSelector, 3)
    BY <1>2, <1>3, <1>4, <1>5
    DEF DataFor, Entry, InTable, IsWritableData, IsSegment, IsFlat, Base, Limit, Dpl, Bit
  <1> QED
    BY <1>6, <1>7
-----------------------------------------------------------------------------
(* The invariant holds when the kernel begins. *)
LEMMA DemoStarts == Init => UserInv
  <1> SUFFICES ASSUME Init PROVE UserInv
    OBVIOUS
  <1> USE DEF Init, BeforeCopy, BeforeBuild, BeforeActivate, BeforeFrame, UserSteps
  <1>1. TypeOK
    <2>1. pc \in DOMAIN After
      BY StepOrder
    <2>2. page_directory \in [Indices -> Entries({Low, Code, Stack})]
      BY DEF Absent, Entries, Low
    <2>3. tables \in [{Low, Code, Stack} -> [Indices -> Entries(Indices)]]
      BY IndexRange DEF Absent, Entries
    <2>4. frame \in UserFrames /\ paging \in BOOLEAN /\ ring \in {0, 3} /\ enabled \in BOOLEAN
          /\ shutdown \in BOOLEAN
      OBVIOUS
    <2>5. esp \in 0 .. USER_VIRT_STACK_TOP
      BY UserDemoAssumption
    <2> QED
      BY <2>1, <2>2, <2>3, <2>4, <2>5 DEF TypeOK
  <1>2. TablesBuilt /\ KernelPrepared
    BY DEF TablesBuilt, KernelPrepared
  <1>3. RingEntered /\ StackUsed
    BY DEF RingEntered, StackUsed
  <1> QED
    BY <1>1, <1>2, <1>3 DEF UserInv

(* The steps that set up the descriptors, the code page and the process. *)
LEMMA PreparationKeeps ==
  ASSUME UserInv, GdtInstall \/ CopyPayload \/ user_mode_prepare_process PROVE UserInv'
  <1> USE StepOrder DEF UserInv, At, BeforeCopy, BeforeBuild, BeforeActivate, BeforeFrame, UserSteps,
          memory, kernel, registers, user, GdtInstall, CopyPayload, user_mode_prepare_process
  <1>1. TypeOK'
    BY DEF TypeOK
  <1>2. TablesBuilt'
    BY DEF TablesBuilt
  <1>3. KernelPrepared'
    <2>1. CASE GdtInstall
      <3>1. /\ pc = "gdt_install" /\ pc' = "copy_payload" /\ gdt' = gdt_install /\ UNCHANGED paging
            /\ segments' = [cs |-> KernelCodeSelector, ss |-> KernelDataSelector, ds |-> KernelDataSelector]
        BY <2>1
      <3> QED
        BY <3>1 DEF KernelPrepared
    <2>2. CASE CopyPayload
      <3>1. pc = "copy_payload" /\ pc' = "prepare" /\ UNCHANGED <<gdt, paging, segments>>
        BY <2>2
      <3> QED
        BY <3>1 DEF KernelPrepared
    <2>3. CASE user_mode_prepare_process
      <3>1. /\ pc = "prepare" /\ pc' = "build" /\ UNCHANGED <<gdt, paging, segments>>
            /\ proc' = [entry_point |-> USER_CODE_VIRT_BASE, user_stack_top |-> USER_VIRT_STACK_TOP]
        BY <2>3
      <3> QED
        BY <3>1 DEF KernelPrepared
    <2> QED
      BY <2>1, <2>2, <2>3
  <1>4. RingEntered' /\ StackUsed'
    BY DEF RingEntered, StackUsed
  <1> QED
    BY <1>1, <1>2, <1>3, <1>4

(* The tables are built for the process that was prepared. *)
LEMMA BuildKeeps == ASSUME UserInv, BuildTables PROVE UserInv'
  <1> USE StepOrder DEF UserInv, At, BeforeCopy, BeforeBuild, BeforeActivate, BeforeFrame, UserSteps,
          kernel, registers, user, BuildTables
  <1>1. proc.entry_point = USER_CODE_VIRT_BASE /\ proc.user_stack_top = USER_VIRT_STACK_TOP
    BY DEF KernelPrepared
  <1>2. page_directory' = PageDirectory(CodePage, StackPage) /\ tables' = UserTables
    BY <1>1 DEF paging_build_user_demo, CodePage, StackPage, StackPageBelow, UserTables
  <1>3. UserTables' = UserTables
    BY DEF UserTables
  <1>4. page_directory' \in [Indices -> Entries({Low, Code, Stack})]
    BY <1>2 DEF PageDirectory, PresentUser, Absent, Entries, Low, Code, Stack
  <1>5. tables' \in [{Low, Code, Stack} -> [Indices -> Entries(Indices)]]
    <2>1. frame.code \in Indices /\ frame.stack \in Indices
      BY UserDemoAssumption DEF TypeOK, UserFrames
    <2>2. LowTable \in [Indices -> Entries(Indices)]
      BY DEF LowTable, PresentUser, Present, Entries
    <2>3. \A page, p : p \in Indices => OnePage(page, p) \in [Indices -> Entries(Indices)]
      BY IndexRange DEF OnePage, PresentUser, Absent, Entries
    <2> QED
      BY <1>2, <2>1, <2>2, <2>3 DEF UserTables
  <1>6. TypeOK'
    BY <1>4, <1>5 DEF TypeOK
  <1>7. TablesBuilt'
    BY <1>2, <1>3 DEF TablesBuilt
  <1>8. KernelPrepared'
    <2>1. pc = "build" /\ pc' = "activate" /\ UNCHANGED <<gdt, kstack, proc, paging, segments>>
      OBVIOUS
    <2> QED
      BY <2>1 DEF KernelPrepared
  <1>9. RingEntered' /\ StackUsed'
    BY DEF RingEntered, StackUsed
  <1> QED
    BY <1>6, <1>7, <1>8, <1>9

(* Paging begins, and the frame for the way to ring 3 is built. *)
LEMMA FrameKeeps ==
  ASSUME UserInv, paging_activate \/ Cli \/ DataSegments \/ PushFrame PROVE UserInv'
  <1> USE StepOrder DEF UserInv, At, BeforeCopy, BeforeBuild, BeforeActivate, BeforeFrame, UserSteps,
          memory, kernel, registers, user, paging_activate, Cli, DataSegments, PushFrame
  <1>1. TypeOK'
    BY DEF TypeOK
  <1>2. TablesBuilt'
    BY DEF TablesBuilt, UserTables
  <1>3. KernelPrepared'
    <2>1. CASE paging_activate \/ Cli
      <3>1. /\ pc \in {"activate", "cli"} /\ pc' = After[pc]
            /\ paging' = IF pc = "activate" THEN TRUE ELSE paging
            /\ UNCHANGED <<gdt, kstack, proc, segments>>
        BY <2>1
      <3> QED
        BY <3>1 DEF KernelPrepared
    <2>2. CASE DataSegments
      <3>1. /\ pc = "data_segments" /\ pc' = "push_frame"
            /\ UNCHANGED <<gdt, kstack, proc, paging>>
        BY <2>2
      <3>2. segments' = [cs |-> KernelCodeSelector, ss |-> KernelDataSelector, ds |-> UserDataSelector]
        BY <2>2 DEF KernelPrepared
      <3> QED
        BY <3>1, <3>2 DEF KernelPrepared
    <2>3. CASE PushFrame
      <3>1. pc = "push_frame" /\ pc' = "iret" /\ UNCHANGED <<gdt, proc, paging, segments>>
        BY <2>3
      <3>2. kstack' = <<USER_CODE_VIRT_BASE, UserCodeSelector, FALSE, USER_VIRT_STACK_TOP, UserDataSelector>>
        <4>1. proc.entry_point = USER_CODE_VIRT_BASE /\ proc.user_stack_top = USER_VIRT_STACK_TOP
          BY <2>3 DEF KernelPrepared
        <4>2. kstack' = IretFrame(enabled)
          BY <2>3
        <4>3. (enabled /\ FALSE) = FALSE
          OBVIOUS
        <4> QED
          BY <4>1, <4>2, <4>3, Zenon DEF IretFrame
      <3> QED
        BY <3>1, <3>2 DEF KernelPrepared
    <2> QED
      BY <2>1, <2>2, <2>3
  <1>4. RingEntered' /\ StackUsed'
    BY DEF RingEntered, StackUsed
  <1> QED
    BY <1>1, <1>2, <1>3, <1>4

(* The iret finds every selector it needs. *)
LEMMA IretLeads ==
  ASSUME UserInv, Iret
  PROVE  /\ pc = "iret" /\ pc' = "push_argv" /\ ring' = 3 /\ ~shutdown' /\ ~enabled'
         /\ enabled' \in BOOLEAN /\ shutdown' \in BOOLEAN
         /\ esp' = USER_VIRT_STACK_TOP
         /\ segments' = [cs |-> UserCodeSelector, ss |-> UserDataSelector, ds |-> UserDataSelector]
         /\ UNCHANGED <<frame, payload, kernel, memory, paging, read, vga>>
  <1> USE StepOrder DEF UserInv, At, BeforeCopy, BeforeBuild, BeforeActivate, BeforeFrame, UserSteps,
          memory, kernel, registers, user
  <1>1. gdt = gdt_install
        /\ kstack = <<USER_CODE_VIRT_BASE, UserCodeSelector, FALSE, USER_VIRT_STACK_TOP, UserDataSelector>>
        /\ segments = [cs |-> KernelCodeSelector, ss |-> KernelDataSelector, ds |-> UserDataSelector]
    BY DEF Iret, KernelPrepared
  <1>2. CodeFor(gdt, kstack[2], 3) /\ DataFor(gdt, kstack[5], 3) /\ DataFor(gdt, segments.ds, 3)
        /\ kstack[1] = USER_CODE_VIRT_BASE
    BY <1>1, UserSegments
  <1>3. enabled' \in BOOLEAN /\ shutdown' \in BOOLEAN
    BY <1>1, <1>2 DEF Iret
  <1> QED
    BY <1>1, <1>2, <1>3 DEF Iret

(* Ring 3 is entered as it was prepared. *)
LEMMA IretKeeps == ASSUME UserInv, Iret PROVE UserInv'
  <1> USE StepOrder DEF UserInv, At, BeforeCopy, BeforeBuild, BeforeActivate, BeforeFrame, UserSteps,
          memory, kernel, registers, user
  <1>1. /\ pc = "iret" /\ pc' = "push_argv" /\ ring' = 3 /\ ~shutdown' /\ ~enabled'
        /\ enabled' \in BOOLEAN /\ shutdown' \in BOOLEAN
        /\ esp' = USER_VIRT_STACK_TOP
        /\ segments' = [cs |-> UserCodeSelector, ss |-> UserDataSelector, ds |-> UserDataSelector]
        /\ UNCHANGED <<frame, payload, kernel, memory, paging, read, vga>>
    BY IretLeads
  <1>2. TypeOK'
    <2>1. enabled' \in BOOLEAN /\ shutdown' \in BOOLEAN
      BY <1>1
    <2>2. pc' \in DOMAIN After /\ ring' \in {0, 3} /\ esp' \in 0 .. USER_VIRT_STACK_TOP
      BY <1>1, UserDemoAssumption
    <2>3. UNCHANGED <<frame, page_directory, tables, paging>>
      BY <1>1
    <2> QED
      BY <2>1, <2>2, <2>3 DEF TypeOK
  <1>3. TablesBuilt'
    BY <1>1 DEF TablesBuilt, UserTables
  <1>4. KernelPrepared'
    BY <1>1 DEF KernelPrepared
  <1>5. RingEntered' /\ StackUsed'
    BY <1>1, UserDemoAssumption DEF RingEntered, StackUsed
  <1> QED
    BY <1>2, <1>3, <1>4, <1>5

(* The user program changes its stack pointer, the screen and its place. *)
LEMMA UserKeeps == ASSUME UserInv, User PROVE UserInv'
  <1> USE StepOrder DEF UserInv, BeforeCopy, BeforeBuild, BeforeActivate, BeforeFrame, UserSteps,
          memory, kernel, registers, user
  <1>1. CASE \E s \in {"push_argv", "push_argc", "call_main"} : UserPush(s)
    <2> USE <1>1 DEF UserPush, UserAt
    <2>1. esp' \in 0 .. USER_VIRT_STACK_TOP /\ StackUsed'
      BY UserPageNumbers, UserDemoAssumption DEF StackUsed
    <2>2. TypeOK'
      BY <2>1 DEF TypeOK
    <2>3. TablesBuilt'
      BY DEF TablesBuilt, UserTables
    <2>4. /\ pc \in {"push_argv", "push_argc", "call_main"} /\ pc' = After[pc]
          /\ UNCHANGED <<kernel, paging, registers, shutdown>>
      OBVIOUS
    <2>5. KernelPrepared' /\ RingEntered'
      BY <2>4 DEF KernelPrepared, RingEntered
    <2> QED
      BY <2>1, <2>2, <2>3, <2>5
  <1>2. CASE UserRead \/ UserWrite
    <2>1. /\ pc \in {"read", "write"} /\ pc' \in {"read", "write", "spin"}
          /\ UNCHANGED <<frame, payload, kernel, memory, paging, registers, esp, shutdown>>
      BY <1>2 DEF UserRead, UserWrite, UserAt
    <2>2. TypeOK'
      BY <2>1 DEF TypeOK
    <2>3. TablesBuilt'
      BY <2>1 DEF TablesBuilt, UserTables
    <2>4. KernelPrepared' /\ RingEntered' /\ StackUsed'
      BY <2>1 DEF KernelPrepared, RingEntered, StackUsed
    <2> QED
      BY <2>2, <2>3, <2>4
  <1>3. CASE UserFault
    <2>1. /\ pc \in UserSteps /\ pc' = pc /\ shutdown' \in BOOLEAN
          /\ UNCHANGED <<frame, payload, kernel, memory, paging, registers, user>>
      BY <1>3 DEF UserFault, RingEntered
    <2>2. TypeOK'
      BY <2>1 DEF TypeOK
    <2>3. TablesBuilt'
      BY <2>1 DEF TablesBuilt, UserTables
    <2>4. KernelPrepared' /\ RingEntered' /\ StackUsed'
      BY <2>1 DEF KernelPrepared, RingEntered, StackUsed
    <2> QED
      BY <2>2, <2>3, <2>4
  <1> QED
    BY <1>1, <1>2, <1>3 DEF User

(* What every step has set up holds at the ones after it. *)
THEOREM UserInvariant == Spec => []UserInv
  <1>1. UserInv /\ Next => UserInv'
    BY PreparationKeeps, BuildKeeps, FrameKeeps, IretKeeps, UserKeeps DEF Next, Kernel
  <1>2. UserInv /\ UNCHANGED vars => UserInv'
    <2> SUFFICES ASSUME UserInv, UNCHANGED vars PROVE UserInv'
      OBVIOUS
    <2>1. TypeOK' /\ TablesBuilt'
      BY DEF vars, UserInv, TypeOK, TablesBuilt, UserTables, memory, kernel, registers, user
    <2>2. KernelPrepared' /\ RingEntered' /\ StackUsed'
      BY DEF vars, UserInv, KernelPrepared, RingEntered, StackUsed, memory, kernel, registers, user
    <2> QED
      BY <2>1, <2>2 DEF UserInv
  <1> QED
    BY DemoStarts, <1>1, <1>2, PTL DEF Spec
-----------------------------------------------------------------------------
(* The variables keep their types, whatever the sizes. *)
THEOREM DemoTypeCorrect == Spec => []TypeOK
  BY UserInvariant, PTL DEF UserInv

(* Ring 3 never reaches a page of the kernel's. *)
THEOREM UserAlwaysConfined == Spec => []UserIsConfined
  <1>1. ASSUME UserInv PROVE UserIsConfined
    <2>1. paging => page_directory = PageDirectory(CodePage, StackPage) /\ tables = UserTables
      BY <1>1 DEF UserInv, KernelPrepared, TablesBuilt, BeforeActivate
    <2>2. Pages \subseteq Nat
      BY DEF Pages
    <2> QED
      BY <1>1, <2>1, <2>2, Denied DEF UserIsConfined, UserInv, TypeOK
  <1> QED
    BY <1>1, UserInvariant, PTL

(* The kernel's pages stay where they are when paging begins, and nothing  *)
(* stops the kernel on its way to ring 3.                                  *)
THEOREM KernelAlwaysGoesOn == Spec => []KernelGoesOn
  <1>1. ASSUME UserInv PROVE KernelGoesOn
    <2>1. paging => page_directory = PageDirectory(CodePage, StackPage) /\ tables = UserTables
      BY <1>1 DEF UserInv, KernelPrepared, TablesBuilt, BeforeActivate
    <2>2. KernelMapped
      BY <1>1, <2>1, Served DEF KernelMapped, UserInv, TypeOK
    <2> QED
      BY <1>1, <2>2 DEF KernelGoesOn, UserInv, RingEntered, UserSteps
  <1> QED
    BY <1>1, UserInvariant, PTL

(* Ring 3 has its code at the entry point, its stack below the top, and    *)
(* the screen.                                                             *)
THEOREM UserPagesAlwaysServe == Spec => []UserPagesServe
  <1>1. ASSUME UserInv PROVE UserPagesServe
    <2>1. SUFFICES ASSUME ring = 3 PROVE UserPagesServe
      BY DEF UserPagesServe
    <2>2. pc \in UserSteps
      BY <1>1, <2>1 DEF UserInv, RingEntered
    <2>3. page_directory = PageDirectory(CodePage, StackPage) /\ tables = UserTables
      BY <1>1, <2>2 DEF UserInv, TablesBuilt, BeforeBuild, BeforeCopy, UserSteps
    <2>4. PageOf(proc.entry_point) = CodePage /\ PageOf(proc.user_stack_top - 1) = StackPage
      BY <1>1, <2>2 DEF UserInv, KernelPrepared, UserSteps, CodePage, StackPage
    <2> QED
      BY <1>1, <2>3, <2>4, Served DEF UserPagesServe, UserInv, TypeOK
  <1> QED
    BY <1>1, UserInvariant, PTL

(* Ring 3 runs without interrupts and with the user's segments only. *)
THEOREM RingThreeAlwaysSealed == Spec => []RingThreeSealed
  <1>1. ASSUME UserInv PROVE RingThreeSealed
    <2>1. ring = 3 => pc \in UserSteps
      BY <1>1 DEF UserInv, RingEntered
    <2>2. pc \in UserSteps =>
            /\ gdt = gdt_install /\ ~enabled
            /\ segments = [cs |-> UserCodeSelector, ss |-> UserDataSelector, ds |-> UserDataSelector]
      BY <1>1 DEF UserInv, KernelPrepared, RingEntered, BeforeCopy, UserSteps
    <2> QED
      BY <2>1, <2>2, UserSegments DEF RingThreeSealed
  <1> QED
    BY <1>1, UserInvariant, PTL
-----------------------------------------------------------------------------
(* What the program shows on its way, and that nothing stops it: the half  *)
(* of FittingMessageShown that needs no fairness.                          *)

(* The code page begins with the program, and the three words of the       *)
(* stack lie in one page (user_mode.h: 0x00400000 and 0xBFFFFFFC).         *)
Placed == USER_CODE_VIRT_BASE % PAGE_SIZE = 0 /\ (USER_VIRT_STACK_TOP - 1) % PAGE_SIZE >= 2

(* A program contains its message, and the message has no NUL within.      *)
Contained ==
  /\ Sizes \subseteq Nat /\ \A s \in Sizes : s > Len(Message)
  /\ \A i \in 1 .. Len(Message) : Message[i] # "NUL"

Fits == payload.link = USER_CODE_VIRT_BASE /\ payload.size <= PAGE_SIZE

Shown == vga = SubSeq(Message, 1, read)

ShowsItsMessage == Fits => ~shutdown /\ Shown /\ (pc = "spin" => vga = Message)

Copied ==
  pc \notin BeforeCopy \cup {"copy_payload"} => user_code_page = user_mode_copy_payload(payload.size)

ReadSoFar ==
  /\ read \in 0 .. Len(Message)
  /\ pc = "write" => read < Len(Message)
  /\ pc = "spin" => read = Len(Message)
  /\ pc \notin {"read", "write", "spin"} => read = 0

ShowInv == payload.size \in Sizes /\ Copied /\ (Fits => ~shutdown /\ Shown /\ ReadSoFar)

(* Pages of the program's words, and of the words it pushes. *)
LEMMA PlacedPages ==
  ASSUME Placed
  PROVE  /\ \A i \in 0 .. PAGE_SIZE - 1 : /\ PageOf(USER_CODE_VIRT_BASE + i) = CodePage
                                          /\ (USER_CODE_VIRT_BASE + i) % PAGE_SIZE = i
         /\ \A k \in 1 .. 3 : PageOf(USER_VIRT_STACK_TOP - k) = StackPage
  <1>1. ASSUME NEW p \in Nat \ {0}, NEW b \in Nat, NEW i \in 0 .. p - 1, b % p = 0
        PROVE  (b + i) \div p = b \div p /\ (b + i) % p = i
    BY <1>1, Z3
  <1>2. ASSUME NEW p \in Nat \ {0}, NEW t \in Nat, NEW k \in 0 .. 2, t % p >= 2
        PROVE  (t - k) \div p = t \div p
    BY <1>2, Z3
  <1>3. ASSUME NEW k \in 1 .. 3 PROVE PageOf(USER_VIRT_STACK_TOP - k) = StackPage
    <2>1. k - 1 \in 0 .. 2 /\ USER_VIRT_STACK_TOP - 1 \in Nat
      BY UserDemoAssumption
    <2>2. ((USER_VIRT_STACK_TOP - 1) - (k - 1)) \div PAGE_SIZE = (USER_VIRT_STACK_TOP - 1) \div PAGE_SIZE
      BY <1>2, <2>1, UserDemoAssumption DEF Placed
    <2>3. USER_VIRT_STACK_TOP - k = (USER_VIRT_STACK_TOP - 1) - (k - 1)
      BY UserDemoAssumption
    <2> QED
      BY <2>2, <2>3 DEF PageOf, StackPage
  <1>4. ASSUME NEW i \in 0 .. PAGE_SIZE - 1
        PROVE  PageOf(USER_CODE_VIRT_BASE + i) = CodePage /\ (USER_CODE_VIRT_BASE + i) % PAGE_SIZE = i
    <2> DEFINE p == PAGE_SIZE  b == USER_CODE_VIRT_BASE
    <2>2. p \in Nat \ {0} /\ b \in Nat /\ b % p = 0 /\ i \in 0 .. p - 1
      BY UserDemoAssumption DEF Placed
    <2> HIDE DEF p, b
    <2>1. (b + i) \div p = b \div p /\ (b + i) % p = i
      BY <1>1, <2>2
    <2> QED
      BY <2>1 DEF PageOf, CodePage, p, b
  <1> QED
    BY <1>3, <1>4

(* What the program finds at the place of its message that it is at. *)
LEMMA MessageFound ==
  ASSUME UserInv, ShowInv, Placed, Contained, Fits, pc \in {"read", "write"}
  PROVE  /\ PageOf(MessageAddress) = CodePage
         /\ Character = IF read = Len(Message) THEN "NUL" ELSE Message[read + 1]
  <1>1. /\ payload.size \in Nat /\ payload.size > Len(Message) /\ payload.size <= PAGE_SIZE
        /\ Len(Message) \in Nat /\ read \in 0 .. Len(Message) /\ PAGE_SIZE \in Nat
    <2>1. payload.size \in Sizes /\ payload.size <= PAGE_SIZE /\ read \in 0 .. Len(Message)
      BY DEF ShowInv, Fits, ReadSoFar
    <2>2. payload.size \in Nat /\ payload.size > Len(Message)
      BY <2>1 DEF Contained
    <2>3. Len(Message) \in Nat /\ PAGE_SIZE \in Nat
      BY UserDemoAssumption
    <2> QED
      BY <2>1, <2>2, <2>3
  <1>2. PICK i : i = MessageAt(payload.size) + read
    OBVIOUS
  <1>3. i \in 0 .. PAGE_SIZE - 1 /\ i < payload.size /\ i >= MessageAt(payload.size)
    BY <1>1, <1>2 DEF MessageAt
  <1>4. MessageAddress = USER_CODE_VIRT_BASE + i
    BY <1>1, <1>2, UserDemoAssumption DEF MessageAddress, MessageAt, Fits
  <1>5. PageOf(MessageAddress) = CodePage /\ MessageAddress % PAGE_SIZE = i
    BY <1>3, <1>4, PlacedPages
  <1>6. page_directory = PageDirectory(CodePage, StackPage) /\ tables = UserTables
    BY DEF UserInv, TablesBuilt, BeforeBuild, BeforeCopy
  <1>7. Leaf(CodePage).to = frame.code
    BY <1>6, Served DEF Reaches, UserInv, TypeOK
  <1>8. user_code_page = user_mode_copy_payload(payload.size)
    BY DEF ShowInv, Copied, BeforeCopy
  <1>9. user_code_page[i] = Word(payload.size, i)
    BY <1>1, <1>3, <1>8 DEF user_mode_copy_payload
  <1>10. Word(payload.size, i) = IF read = Len(Message) THEN "NUL" ELSE Message[read + 1]
    <2>1. i = payload.size - 1 <=> read = Len(Message)
      BY <1>1, <1>2 DEF MessageAt
    <2>2. i - MessageAt(payload.size) + 1 = read + 1
      BY <1>1, <1>2 DEF MessageAt
    <2> QED
      BY <1>1, <1>3, <2>1, <2>2 DEF Word
  <1> QED
    BY <1>5, <1>7, <1>9, <1>10 DEF Character

(* The processor permits every step of a program that fits. *)
LEMMA NothingForbidden ==
  ASSUME UserInv, ShowInv, Placed, Contained, Fits, ring = 3
  PROVE  Permitted(pc)
  <1>1. pc \in UserSteps
    BY DEF UserInv, RingEntered
  <1>2. page_directory = PageDirectory(CodePage, StackPage) /\ tables = UserTables
    BY <1>1 DEF UserInv, TablesBuilt, BeforeBuild, BeforeCopy, UserSteps
  <1>3. /\ Reaches(CodePage, 3, FALSE, frame.code) /\ May(CodePage, 3, FALSE)
        /\ May(StackPage, 3, TRUE) /\ May(VgaPage, 3, TRUE)
    BY <1>2, Served DEF Reaches, UserInv, TypeOK
  <1>4. CASE pc \in {"push_argv", "push_argc", "call_main"}
    <2>1. \E k \in 1 .. 3 : esp - 1 = USER_VIRT_STACK_TOP - k
      <3>1. esp = USER_VIRT_STACK_TOP - (IF pc = "push_argv" THEN 0 ELSE IF pc = "push_argc" THEN 1 ELSE 2)
        BY <1>4 DEF UserInv, StackUsed, UserSteps
      <3>2. 1 \in 1 .. 3 /\ 2 \in 1 .. 3 /\ 3 \in 1 .. 3
        OBVIOUS
      <3>3. \/ esp - 1 = USER_VIRT_STACK_TOP - 1 \/ esp - 1 = USER_VIRT_STACK_TOP - 2
            \/ esp - 1 = USER_VIRT_STACK_TOP - 3
        BY <3>1, UserDemoAssumption
      <3> QED
        BY <3>2, <3>3
    <2>2. PageOf(esp - 1) = StackPage
      BY <2>1, PlacedPages
    <2>3. Operand(pc) = [page |-> StackPage, write |-> TRUE]
      BY <1>4, <2>2 DEF Operand
    <2>4. Operand(pc).page = StackPage /\ Operand(pc).write = TRUE
      BY <2>3
    <2> QED
      BY <1>3, <2>4 DEF Permitted
  <1>5. CASE pc = "read"
    <2>1. PageOf(MessageAddress) = CodePage
      BY <1>5, MessageFound
    <2>2. Operand(pc) = [page |-> CodePage, write |-> FALSE]
      BY <1>5, <2>1 DEF Operand
    <2>3. Operand(pc).page = CodePage /\ Operand(pc).write = FALSE
      BY <2>2
    <2> QED
      BY <1>3, <2>3 DEF Permitted
  <1>6. CASE pc = "write"
    BY <1>3, <1>6 DEF Permitted, Operand
  <1>7. CASE pc = "spin"
    BY <1>3, <1>7 DEF Permitted, Operand
  <1> QED
    BY <1>1, <1>4, <1>5, <1>6, <1>7 DEF UserSteps

(* The steps of the kernel leave the screen alone and copy the program. *)
LEMMA KernelShows ==
  ASSUME UserInv, ShowInv, Kernel
  PROVE  ShowInv'
  <1> USE StepOrder DEF BeforeCopy
  <1>1. /\ UNCHANGED <<payload, read, vga>> /\ shutdown' = FALSE /\ pc' = After[pc]
        /\ pc \in DOMAIN After \ {"push_argv", "push_argc", "call_main"}
    <2>1. CASE Iret
      BY <2>1, IretLeads
    <2>2. CASE ~Iret
      BY <2>2 DEF Kernel, At, GdtInstall, CopyPayload, user_mode_prepare_process, BuildTables,
                  paging_activate, Cli, DataSegments, PushFrame, user, UserInv, TypeOK
    <2> QED
      BY <2>1, <2>2
  <1>2. pc' \notin {"read", "write", "spin"} /\ pc \notin {"read", "write", "spin"}
    BY <1>1
  <1>3. Copied'
    <2>1. CASE CopyPayload
      BY <1>1, <2>1 DEF CopyPayload, At, Copied
    <2>2. CASE ~CopyPayload
      <3>1. UNCHANGED user_code_page /\ pc # "copy_payload"
        BY <2>2 DEF Kernel, At, GdtInstall, CopyPayload, user_mode_prepare_process, BuildTables,
                    paging_activate, Cli, DataSegments, PushFrame, Iret, memory
      <3> QED
        BY <1>1, <1>2, <3>1 DEF ShowInv, Copied
    <2> QED
      BY <2>1, <2>2
  <1>4. Fits' => Fits
    BY <1>1 DEF Fits
  <1>5. Fits => Shown' /\ ReadSoFar'
    BY <1>1, <1>2 DEF ShowInv, Shown, ReadSoFar
  <1> QED
    BY <1>1, <1>2, <1>3, <1>4, <1>5 DEF ShowInv

(* The user program shows one character more of its message, or is at its end. *)
LEMMA UserShows ==
  ASSUME UserInv, ShowInv, Placed, Contained, User
  PROVE  ShowInv'
  <1> USE StepOrder
  <1>1. /\ ring = 3 /\ UNCHANGED <<payload, user_code_page>>
        /\ pc \in UserSteps /\ pc' \in UserSteps
    BY DEF User, UserPush, UserRead, UserWrite, UserFault, UserAt, UserInv, RingEntered, UserSteps, memory
  <1>2. payload.size' \in Sizes /\ Copied' /\ (Fits' <=> Fits)
    BY <1>1 DEF ShowInv, Copied, Fits, UserSteps, BeforeCopy
  <1>3. SUFFICES ASSUME Fits PROVE ~shutdown' /\ Shown' /\ ReadSoFar'
    BY <1>2 DEF ShowInv
  <1>4. Permitted(pc)
    BY <1>1, <1>3, NothingForbidden
  <1>5. ~UserFault
    BY <1>4 DEF UserFault
  <1>6. ~shutdown' /\ Shown /\ ReadSoFar
    BY <1>3, <1>5 DEF User, UserPush, UserRead, UserWrite, UserAt, ShowInv
  <1>7. CASE \E s \in {"push_argv", "push_argc", "call_main"} : UserPush(s)
    BY <1>6, <1>7 DEF UserPush, UserAt, Shown, ReadSoFar
  <1>8. CASE UserRead
    <2>1. pc = "read" /\ UNCHANGED <<read, vga>> /\ pc' = IF Character = "NUL" THEN "spin" ELSE "write"
      BY <1>8 DEF UserRead, UserAt, user
    <2>2. Character = "NUL" <=> read = Len(Message)
      <3>1. read \in 0 .. Len(Message) /\ Len(Message) \in Nat
        BY <1>6, UserDemoAssumption DEF ReadSoFar
      <3>2. Character = IF read = Len(Message) THEN "NUL" ELSE Message[read + 1]
        BY <1>3, <2>1, MessageFound
      <3>3. read # Len(Message) => read + 1 \in 1 .. Len(Message)
        BY <3>1
      <3> QED
        BY <3>2, <3>3 DEF Contained
    <2>3. Len(Message) \in Nat
      BY UserDemoAssumption
    <2> QED
      BY <1>6, <2>1, <2>2, <2>3 DEF Shown, ReadSoFar
  <1>9. CASE UserWrite
    <2>1. pc = "write" /\ pc' = "read" /\ vga' = Append(vga, Character) /\ read' = read + 1
      BY <1>9 DEF UserWrite, UserAt
    <2>2. read \in 0 .. Len(Message) /\ read < Len(Message) /\ Len(Message) \in Nat
      BY <1>6, <2>1, UserDemoAssumption DEF ReadSoFar
    <2>3. Character = Message[read + 1]
      BY <1>3, <2>1, <2>2, MessageFound
    <2>4. SubSeq(Message, 1, read + 1) = Append(SubSeq(Message, 1, read), Message[read + 1])
      <3>1. ASSUME NEW m \in Seq(STRING), NEW n \in Nat, n < Len(m)
            PROVE  SubSeq(m, 1, n + 1) = Append(SubSeq(m, 1, n), m[n + 1])
        BY <3>1
      <3> QED
        BY <2>2, <3>1, UserDemoAssumption
    <2> QED
      BY <1>6, <2>1, <2>2, <2>3, <2>4 DEF Shown, ReadSoFar
  <1> QED
    BY <1>5, <1>7, <1>8, <1>9 DEF User

(* What is on the screen is always the message up to the place read, and   *)
(* nothing stops a program that is linked where it is loaded and fits in   *)
(* its page: when it ends in its loop the message is complete.             *)
THEOREM FittingAlwaysShows ==
  ASSUME Placed, Contained
  PROVE  Spec => []ShowsItsMessage
  <1>1. Init => ShowInv
    <2> SUFFICES ASSUME Init PROVE ShowInv
      OBVIOUS
    <2>1. payload.size \in Sizes /\ Copied
      BY DEF Init, Copied, BeforeCopy
    <2>2. Shown /\ ReadSoFar /\ ~shutdown
      BY UserDemoAssumption DEF Init, Shown, ReadSoFar
    <2> QED
      BY <2>1, <2>2 DEF ShowInv
  <1>2. ASSUME UserInv, ShowInv, [Next]_vars PROVE ShowInv'
    <2>1. CASE UNCHANGED vars
      BY <1>2, <2>1 DEF vars, user, memory, ShowInv, Copied, Fits, Shown, ReadSoFar
    <2> QED
      BY <1>2, <2>1, KernelShows, UserShows DEF Next
  <1>3. ASSUME ShowInv PROVE ShowsItsMessage
    <2>1. SubSeq(Message, 1, Len(Message)) = Message
      BY UserDemoAssumption
    <2> QED
      BY <1>3, <2>1 DEF ShowInv, ShowsItsMessage, Shown, ReadSoFar
  <1> QED
    BY <1>1, <1>2, <1>3, UserInvariant, PTL DEF Spec
=============================================================================
