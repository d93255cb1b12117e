----------------------------- MODULE BootProofs -----------------------------
(***************************************************************************)
(* Boot's safety for page directories of any size with the higher half     *)
(* anywhere in them.  The invariant says what each step of the boot has    *)
(* set up, and that the TLB holds nothing but translations of the          *)
(* directory in use: no directory changes while it is in use, and a        *)
(* directory that is taken into use empties the TLB.                       *)
(***************************************************************************)
EXTENDS Boot, TLAPS

K == KERNEL_PDE_INDEX

BeforeCr3 == {"map", "cr3"}
BeforePse == BeforeCr3 \cup {"pse"}
BeforePaging == BeforePse \cup {"pg"}
OnLoader == BeforePaging \cup {"jump", "stack", "record", "clear"}
BeforeLoad == OnLoader \cup {"fill", "load"}
BeforeModes == BeforeLoad \cup {"modes"}
BeforeDescriptors == BeforeModes \cup {"invlpg", "heap_init", "descriptors"}
BeforeLgdt == BeforeDescriptors \cup {"lgdt"}
BeforeIdt == BeforeLgdt \cup {"far_jump", "segments", "idt_init"}
BeforeSti == BeforeIdt \cup {"sti"}

(* The directories as the steps so far have left them. *)
DirectoriesBuilt ==
  /\ pc # "map" => boot_page_directory[0] = Maps(0) /\ boot_page_directory[K] = Maps(0)
  /\ pc = "fill" => page_directory = [i \in Pdes |-> Unmapped]
  /\ pc \notin OnLoader \cup {"fill"} =>
       page_directory = [i \in Pdes |-> IF i \in Higher THEN Maps(i - K) ELSE Unmapped]

(* Which of the modes are on, and which tables are in use. *)
ModesOn ==
  /\ (cr3 = "kernel") <=> (pc \notin BeforeLoad)
  /\ pse <=> pc \notin BeforePse
  /\ paging <=> pc \notin BeforePaging
  /\ pc \notin BeforeDescriptors => gdt = GdtEntries
  /\ (gdtr = "kernel") <=> (pc \notin BeforeLgdt)
  /\ idt <=> pc \notin BeforeIdt
  /\ interrupts <=> pc \notin BeforeSti

TlbAgrees ==
  /\ ~paging => tlb = {}
  /\ \A t \in tlb : t[2] = Walk(t[1])

TrapsAtModules ==
  /\ trap = "handler" => pc = "modules"
  /\ trap # "shutdown"

BootInv == TypeOK /\ DirectoriesBuilt /\ ModesOn /\ TlbAgrees /\ TrapsAtModules
-----------------------------------------------------------------------------
(* The steps in their order. *)
LEMMA StepOrder ==
  /\ After("map") = "cr3" /\ After("cr3") = "pse" /\ After("pse") = "pg" /\ After("pg") = "jump"
  /\ After("jump") = "stack" /\ After("stack") = "record" /\ After("record") = "clear"
  /\ After("clear") = "fill" /\ After("fill") = "load" /\ After("load") = "modes"
  /\ After("modes") = "invlpg" /\ After("invlpg") = "heap_init"
  /\ After("heap_init") = "descriptors" /\ After("descriptors") = "lgdt"
  /\ After("lgdt") = "far_jump" /\ After("far_jump") = "segments" /\ After("segments") = "idt_init"
  /\ After("idt_init") = "sti" /\ After("sti") = "count"
  BY DEF After, loader, paging_init, kmain

(* There are no other steps. *)
LEMMA AllSteps ==
  Steps = {"map", "cr3", "pse", "pg", "jump", "stack", "record", "clear", "fill", "load", "modes",
           "invlpg", "heap_init", "descriptors", "lgdt", "far_jump", "segments", "idt_init", "sti",
           "count", "modules", "hlt"}
  BY DEF Steps, loader, paging_init, kmain

(* The kernel's descriptors mean what the kernel uses them for. *)
LEMMA KernelSegments == CodeFor(GdtEntries, KernelCode, 0) /\ DataFor(GdtEntries, KernelData, 0)
<1>1. gdt_set_gate(0, 1048575, 154, 207) =
        [base_low |-> 0, base_middle |-> 0, base_high |-> 0, limit_low |-> 65535,
         granularity |-> 207, access |-> 154]
  BY Z3 DEF gdt_set_gate
<1>2. gdt_set_gate(0, 1048575, 146, 207) =
        [base_low |-> 0, base_middle |-> 0, base_high |-> 0, limit_low |-> 65535,
         granularity |-> 207, access |-> 146]
  BY Z3 DEF gdt_set_gate
<1>3. /\ DOMAIN GdtEntries = 0 .. 2
      /\ GdtEntries[1] = gdt_set_gate(0, 1048575, 154, 207)
      /\ GdtEntries[2] = gdt_set_gate(0, 1048575, 146, 207)
  BY DEF GdtEntries
<1>4. KernelCode \div 8 = 1 /\ KernelCode % 4 = 0 /\ KernelData \div 8 = 2 /\ KernelData % 4 = 0
  BY Z3 DEF KernelCode, KernelData
<1>5. /\ 154 \div 128 = 1 /\ 154 \div 16 = 9 /\ 154 \div 8 = 19 /\ 154 \div 32 = 4
      /\ 146 \div 128 = 1 /\ 146 \div 16 = 9 /\ 146 \div 8 = 18 /\ 146 \div 2 = 73 /\ 146 \div 32 = 4
      /\ 207 \div 128 = 1 /\ 207 \div 64 = 3 /\ 207 % 16 = 15
      /\ 1 % 2 = 1 /\ 9 % 2 = 1 /\ 19 % 2 = 1 /\ 18 % 2 = 0 /\ 73 % 2 = 1 /\ 3 % 2 = 1 /\ 4 % 4 = 0
  BY Z3
<1>6. CodeFor(GdtEntries, KernelCode, 0)
  BY <1>1, <1>3, <1>4, <1>5 DEF CodeFor, Entry, InTable, IsCode, IsSegment, IsFlat, Base, Limit, Dpl, Bit
<1>7. DataFor(GdtEntries, KernelData, 0)
  BY <1>2, <1>3, <1>4, <1>5 DEF DataFor, Entry, InTable, IsWritableData, IsSegment, IsFlat, Base, Limit, Dpl, Bit
<1> QED
  BY <1>6, <1>7

(* Where the first entry of the higher half lies. *)
LEMMA KernelPage == K \in Pdes /\ K \in Higher /\ 0 \in Pdes /\ 0 \notin Higher /\ K # 0 /\ Fault \notin Pdes
  BY BootAssumption DEF K, Pdes, Higher, Fault

(* With paging on an access reaches what the directory says, and no other. *)
LEMMA Walking == ASSUME BootInv, paging, NEW v PROVE Reached(v) = {Walk(v)}
  <1>1. \A t \in {u \in tlb : u[1] = v} : t[2] = Walk(v)
    BY DEF BootInv, TlbAgrees
  <1> QED
    BY <1>1 DEF Reached

(* What the kernel's directory maps. *)
LEMMA KernelWalk ==
  ASSUME BootInv, pc \notin BeforeLoad, NEW v \in Pdes
  PROVE  Walk(v) = IF v \in Higher THEN v - K ELSE Fault
  <1>1. cr3 = "kernel" /\ pse
    BY DEF BootInv, ModesOn, BeforeLoad, OnLoader, BeforePaging, BeforePse, BeforeCr3
  <1>2. page_directory = [i \in Pdes |-> IF i \in Higher THEN Maps(i - K) ELSE Unmapped]
    BY DEF BootInv, DirectoriesBuilt, BeforeLoad
  <1>3. page_directory[v] = IF v \in Higher THEN Maps(v - K) ELSE Unmapped
    BY <1>2
  <1> QED
    BY <1>1, <1>3 DEF Walk, Maps, Unmapped

LEMMA Landing == ASSUME BootInv, pc \notin {"modules", "hlt"} PROVE Lands(pc)
  <1> USE DEF BeforeLoad, OnLoader, BeforePaging, BeforePse, BeforeCr3
  <1>1. DataPage(pc) = CodePage(pc)
    BY DEF DataPage
  <1>2. CASE pc \in BeforePaging
    <2>1. ~paging /\ CodePage(pc) = 0
      BY <1>2 DEF BootInv, ModesOn, CodePage
    <2> QED
      BY <1>1, <2>1 DEF Lands, LandsOn, Reached
  <1>3. CASE pc \in {"jump", "stack", "record", "clear", "fill", "load"}
    <2>1. paging /\ pse /\ cr3 = "boot"
      BY <1>3 DEF BootInv, ModesOn, TypeOK
    <2>2. CodePage(pc) \in {0, K}
      BY DEF CodePage, K
    <2>3. boot_page_directory[CodePage(pc)] = Maps(0)
      BY <1>3, <2>2 DEF BootInv, DirectoriesBuilt
    <2>4. Walk(CodePage(pc)) = 0
      BY <2>1, <2>3 DEF Walk, Maps
    <2> QED
      BY <1>1, <2>1, <2>4, Walking DEF Lands, LandsOn
  <1>4. CASE pc \notin BeforeLoad
    <2>1. CodePage(pc) = K /\ paging
      BY <1>4 DEF CodePage, K, BootInv, ModesOn
    <2>2. Walk(K) = K - K
      BY <1>4, KernelPage, KernelWalk
    <2>3. Walk(K) = 0
      BY <2>2, KernelPage DEF Pdes
    <2> QED
      BY <1>1, <2>1, <2>3, Walking DEF Lands, LandsOn
  <1> QED
    BY <1>2, <1>3, <1>4 DEF BootInv

(* The kernel's page is where the gates, the GDT and the stubs are read.   *)
LEMMA KernelPageLands == ASSUME BootInv, pc \notin BeforeLoad PROVE LandsOn(KERNEL_PDE_INDEX, 0)
  <1>1. paging
    BY DEF BootInv, ModesOn, BeforeLoad, OnLoader
  <1>2. Walk(K) = K - K
    BY KernelPage, KernelWalk
  <1>3. Walk(K) = 0
    BY <1>2, KernelPage DEF Pdes
  <1> QED
    BY <1>1, <1>3, Walking DEF LandsOn, K

(* Up to the list of modules every step of the boot is possible. *)
LEMMA EveryStepPossible == ASSUME BootInv, pc \notin {"modules", "hlt"} PROVE Possible(pc)
  <1>1. Lands(pc)
    BY Landing
  <1>2. ASSUME pc \in {"far_jump", "segments"} PROVE Loadable(pc)
    <2> USE DEF BeforeLgdt, BeforeDescriptors, BeforeModes, BeforeLoad, OnLoader, BeforePaging, BeforePse, BeforeCr3
    <2>1. gdt = GdtEntries /\ gdtr = "kernel"
      BY <1>2 DEF BootInv, ModesOn
    <2>2. LandsOn(GdtPage, 0)
      BY <1>2, <2>1, KernelPageLands DEF GdtPage
    <2> QED
      BY <2>1, <2>2, KernelSegments DEF Loadable
  <1>3. Loadable(pc)
    BY <1>2 DEF Loadable
  <1> QED
    BY <1>1, <1>3 DEF Possible

LEMMA ReceivableOnceOn == ASSUME BootInv, pc \notin BeforeIdt PROVE Receivable
  <1> USE DEF BeforeIdt, BeforeLgdt, BeforeDescriptors, BeforeModes, BeforeLoad, OnLoader, BeforePaging, BeforePse, BeforeCr3
  <1>1. idt /\ gdtr = "kernel" /\ gdt = GdtEntries
    BY DEF BootInv, ModesOn
  <1> QED
    BY <1>1, KernelPageLands, KernelSegments DEF Receivable
-----------------------------------------------------------------------------
(* The invariant holds when the loader begins. *)
LEMMA BootStarts == Init => BootInv
  <1> SUFFICES ASSUME Init PROVE BootInv
    OBVIOUS
  <1> USE DEF Init
  <1>1. TypeOK
    BY AllSteps, KernelPage DEF TypeOK, Directory, Unmapped
  <1>2. DirectoriesBuilt
    BY DEF DirectoriesBuilt, OnLoader, BeforePaging, BeforePse, BeforeCr3
  <1>3. ModesOn
    BY DEF ModesOn, BeforeSti, BeforeIdt, BeforeLgdt, BeforeDescriptors, BeforeModes, BeforeLoad, OnLoader,
      BeforePaging, BeforePse, BeforeCr3
  <1>4. TlbAgrees /\ TrapsAtModules
    BY DEF TlbAgrees, TrapsAtModules
  <1> QED
    BY <1>1, <1>2, <1>3, <1>4 DEF BootInv

(* The loader switches paging on with an empty TLB. *)
LEMMA LoaderKeeps == ASSUME BootInv, Map \/ BootCr3 \/ Pse \/ Pg PROVE BootInv'
  <1> USE DEF BootInv, At, BeforeSti, BeforeIdt, BeforeLgdt, BeforeDescriptors, BeforeModes, BeforeLoad,
          OnLoader, BeforePaging, BeforePse, BeforeCr3, directories, descriptors
  <1>1. CASE Map
    <2> USE <1>1, StepOrder DEF Map
    <2>1. TypeOK'
      BY AllSteps, KernelPage DEF TypeOK, Directory, Maps, K
    <2>2. DirectoriesBuilt'
      BY KernelPage DEF TypeOK, Directory, DirectoriesBuilt, K
    <2>3. ModesOn' /\ TrapsAtModules'
      BY DEF ModesOn, TrapsAtModules
    <2>4. TlbAgrees'
      BY DEF TlbAgrees, ModesOn
    <2> QED
      BY <2>1, <2>2, <2>3, <2>4
  <1>2. CASE BootCr3
    <2> USE <1>2, StepOrder DEF BootCr3, LoadCr3
    <2>1. TypeOK' /\ DirectoriesBuilt'
      BY AllSteps DEF TypeOK, DirectoriesBuilt
    <2>2. ModesOn' /\ TrapsAtModules' /\ TlbAgrees'
      BY DEF ModesOn, TrapsAtModules, TlbAgrees
    <2> QED
      BY <2>1, <2>2
  <1>3. CASE Pse
    <2> USE <1>3, StepOrder DEF Pse
    <2>1. TypeOK' /\ DirectoriesBuilt'
      BY AllSteps DEF TypeOK, DirectoriesBuilt
    <2>2. ModesOn' /\ TrapsAtModules'
      BY DEF ModesOn, TrapsAtModules
    <2>3. TlbAgrees'
      BY DEF ModesOn, TlbAgrees
    <2> QED
      BY <2>1, <2>2, <2>3
  <1>4. CASE Pg
    <2> USE <1>4, StepOrder DEF Pg
    <2>1. TypeOK' /\ DirectoriesBuilt'
      BY AllSteps DEF TypeOK, DirectoriesBuilt
    <2>2. ModesOn' /\ TrapsAtModules'
      BY DEF ModesOn, TrapsAtModules
    <2>3. TlbAgrees'
      BY DEF ModesOn, TlbAgrees
    <2> QED
      BY <2>1, <2>2, <2>3
  <1> QED
    BY <1>1, <1>2, <1>3, <1>4

(* The directory is built while the loader's is in use; the TLB is emptied *)
(* when it is taken into use.                                              *)
LEMMA PagingInitKeeps ==
  ASSUME BootInv, Clear \/ FillDirectory \/ KernelCr3 \/ Modes \/ Invlpg PROVE BootInv'
  <1> USE DEF BootInv, At, BeforeSti, BeforeIdt, BeforeLgdt, BeforeDescriptors, BeforeModes, BeforeLoad,
          OnLoader, BeforePaging, BeforePse, BeforeCr3, directories, descriptors
  <1>1. CASE Clear
    <2> USE <1>1, StepOrder DEF Clear
    <2>1. TypeOK' /\ DirectoriesBuilt'
      BY AllSteps, KernelPage DEF TypeOK, DirectoriesBuilt, Directory, Unmapped
    <2>2. ModesOn' /\ TrapsAtModules'
      BY DEF ModesOn, TrapsAtModules
    <2>3. TlbAgrees'
      BY DEF ModesOn, TlbAgrees, TypeOK, Walk
    <2> QED
      BY <2>1, <2>2, <2>3
  <1>2. CASE FillDirectory
    <2> USE <1>2, StepOrder DEF FillDirectory
    <2>1. \A i \in Higher : i - K \in Pdes
      BY BootAssumption DEF Higher, K, Pdes
    <2>2. page_directory' = [i \in Pdes |-> IF i \in Higher THEN Maps(i - K) ELSE Unmapped]
      BY DEF DirectoriesBuilt, HigherHalf, K
    <2>3. page_directory' \in Directory
      BY <2>1, <2>2, KernelPage DEF Directory, Maps, Unmapped
    <2>4. TypeOK'
      BY <2>3, AllSteps DEF TypeOK
    <2>5. DirectoriesBuilt'
      BY <2>2 DEF DirectoriesBuilt
    <2>6. ModesOn' /\ TrapsAtModules'
      BY DEF ModesOn, TrapsAtModules
    <2>7. TlbAgrees'
      BY DEF ModesOn, TlbAgrees, TypeOK, Walk
    <2> QED
      BY <2>4, <2>5, <2>6, <2>7
  <1>3. CASE KernelCr3
    <2> USE <1>3, StepOrder DEF KernelCr3, LoadCr3
    <2>1. TypeOK' /\ DirectoriesBuilt'
      BY AllSteps DEF TypeOK, DirectoriesBuilt
    <2>2. ModesOn' /\ TrapsAtModules' /\ TlbAgrees'
      BY DEF ModesOn, TrapsAtModules, TlbAgrees
    <2> QED
      BY <2>1, <2>2
  <1>4. CASE Modes
    <2> USE <1>4, StepOrder DEF Modes
    <2>1. TypeOK' /\ DirectoriesBuilt'
      BY AllSteps DEF TypeOK, DirectoriesBuilt
    <2>2. ModesOn' /\ TrapsAtModules'
      BY DEF ModesOn, TrapsAtModules
    <2>3. TlbAgrees'
      BY DEF ModesOn, TlbAgrees, TypeOK, Walk
    <2> QED
      BY <2>1, <2>2, <2>3
  <1>5. CASE Invlpg
    <2> USE <1>5, StepOrder DEF Invlpg, tlb_flush_single
    <2>1. TypeOK' /\ DirectoriesBuilt'
      BY AllSteps DEF TypeOK, DirectoriesBuilt
    <2>2. ModesOn' /\ TrapsAtModules'
      BY DEF ModesOn, TrapsAtModules
    <2>3. TlbAgrees'
      BY DEF TlbAgrees, Walk
    <2> QED
      BY <2>1, <2>2, <2>3
  <1> QED
    BY <1>1, <1>2, <1>3, <1>4, <1>5

(* kmain and gdt_install touch no directory. *)
LEMMA KmainKeeps ==
  ASSUME BootInv,
         \/ \E s \in {"jump", "stack", "record", "heap_init"} : Pass(s)
         \/ SetGates \/ gdt_load \/ gdt_load_flush \/ IdtInit \/ Sti \/ Count
  PROVE  BootInv'
  <1> USE StepOrder
      DEF BootInv, At, Pass, BeforeSti, BeforeIdt, BeforeLgdt, BeforeDescriptors, BeforeModes, BeforeLoad,
          OnLoader, BeforePaging, BeforePse, BeforeCr3, directories, descriptors
  <1> USE DEF SetGates, gdt_load, gdt_load_flush, IdtInit, Sti, Count
  <1>1. TypeOK'
    <2>1. pc' \in Steps
      BY AllSteps
    <2>2. interrupts' \in BOOLEAN /\ idt' \in BOOLEAN /\ gdtr' \in {"boot loader", "kernel"}
      BY DEF TypeOK
    <2>3. UNCHANGED <<directories, modules, trap>>
      OBVIOUS
    <2> QED
      BY <2>1, <2>2, <2>3 DEF TypeOK
  <1>2. DirectoriesBuilt' /\ TrapsAtModules'
    BY DEF DirectoriesBuilt, TrapsAtModules
  <1>3. ModesOn'
    BY DEF ModesOn
  <1>4. TlbAgrees'
    BY DEF TlbAgrees, Walk
  <1> QED
    BY <1>1, <1>2, <1>3, <1>4

(* A page fault can only be the one of the list of modules, and it finds   *)
(* its handler.                                                            *)
LEMMA FaultKeeps == ASSUME BootInv, PageFault \/ Iret PROVE BootInv'
  <1>1. PageFault => pc = "modules" /\ Receivable
    BY EveryStepPossible, ReceivableOnceOn
    DEF PageFault, BeforeIdt, BeforeLgdt, BeforeDescriptors, BeforeModes, BeforeLoad,
          OnLoader, BeforePaging, BeforePse, BeforeCr3
  <1>2. UNCHANGED <<pc, directories, descriptors, modules>>
    BY DEF PageFault, Iret
  <1>3. trap' \in {"none", "handler"} /\ (trap' = "handler" => pc = "modules")
    BY <1>1 DEF PageFault, Iret
  <1>4. TypeOK' /\ DirectoriesBuilt' /\ TrapsAtModules'
    BY <1>2, <1>3 DEF BootInv, TypeOK, DirectoriesBuilt, TrapsAtModules, directories, descriptors
  <1>5. ModesOn' /\ TlbAgrees'
    BY <1>2 DEF BootInv, ModesOn, TlbAgrees, Walk, directories, descriptors
  <1> QED
    BY <1>4, <1>5 DEF BootInv

(* The TLB takes only what the directory says. *)
LEMMA ProcessorKeeps == ASSUME BootInv, Processor PROVE BootInv'
  <1>1. CASE \E v \in Pdes : Fill(v)
    <2>1. PICK v \in Pdes : Fill(v)
      BY <1>1
    <2>2. Walk(v) \in Pdes
      BY <2>1 DEF Fill, Walk, BootInv, TypeOK, Directory
    <2>3. UNCHANGED <<pc, cr3, pse, paging, boot_page_directory, page_directory, descriptors, modules, trap>>
      BY <2>1 DEF Fill
    <2>4. <<v, Walk(v)>> \in Pdes \X Pdes
      BY <2>2
    <2>5. tlb' \subseteq Pdes \X Pdes
      <3>1. tlb \subseteq Pdes \X Pdes /\ tlb' = tlb \cup {<<v, Walk(v)>>}
        BY <2>1 DEF Fill, BootInv, TypeOK
      <3> QED
        BY <2>4, <3>1
    <2>6. TypeOK' /\ DirectoriesBuilt' /\ TrapsAtModules'
      BY <2>3, <2>5 DEF BootInv, TypeOK, DirectoriesBuilt, TrapsAtModules, descriptors
    <2>7. ModesOn'
      BY <2>3 DEF BootInv, ModesOn, descriptors
    <2>8. TlbAgrees'
      BY <2>1, <2>3 DEF Fill, BootInv, TlbAgrees, Walk
    <2> QED
      BY <2>6, <2>7, <2>8 DEF BootInv
  <1>2. CASE \E t \in tlb : Evict(t)
    <2>1. tlb' \subseteq tlb
         /\ UNCHANGED <<pc, cr3, pse, paging, boot_page_directory, page_directory, descriptors, modules, trap>>
      BY <1>2 DEF Evict
    <2>2. TypeOK' /\ DirectoriesBuilt' /\ TrapsAtModules'
      BY <2>1 DEF BootInv, TypeOK, DirectoriesBuilt, TrapsAtModules, descriptors
    <2>3. ModesOn' /\ TlbAgrees'
      BY <2>1 DEF BootInv, ModesOn, TlbAgrees, Walk, descriptors
    <2> QED
      BY <2>2, <2>3 DEF BootInv
  <1> QED
    BY <1>1, <1>2 DEF Processor

(* What each step has set up holds at the next, and the TLB agrees with    *)
(* the directory in use throughout.                                        *)
THEOREM BootInvariant == Spec => []BootInv
  <1>1. BootInv /\ Next => BootInv'
    BY LoaderKeeps, PagingInitKeeps, KmainKeeps, FaultKeeps, ProcessorKeeps DEF Next, Program
  <1>2. BootInv /\ UNCHANGED vars => BootInv'
    <2> SUFFICES ASSUME BootInv, UNCHANGED vars PROVE BootInv'
      OBVIOUS
    <2>1. TypeOK' /\ DirectoriesBuilt' /\ TrapsAtModules'
      BY DEF vars, BootInv, TypeOK, DirectoriesBuilt, TrapsAtModules, directories, descriptors
    <2>2. ModesOn' /\ TlbAgrees'
      BY DEF vars, BootInv, ModesOn, TlbAgrees, Walk, directories, descriptors
    <2> QED
      BY <2>1, <2>2 DEF BootInv
  <1> QED
    BY BootStarts, <1>1, <1>2, PTL DEF Spec
-----------------------------------------------------------------------------
(* The variables keep their types, whatever the sizes. *)
THEOREM BootTypeCorrect == Spec => []TypeOK
  BY BootInvariant, PTL DEF BootInv

(* Every access of the boot up to the list of modules lands in the         *)
(* physical page it is meant for, in the middle of every switch of tables. *)
THEOREM AccessesAlwaysLand == Spec => []AccessesLand
  <1>1. BootInv => AccessesLand
    BY Landing DEF AccessesLand
  <1> QED
    BY <1>1, BootInvariant, PTL

(* After paging_init the higher half is the physical memory in order, and  *)
(* no low address is mapped, not even in the TLB.                          *)
THEOREM HigherHalfIsAll == Spec => []HigherHalfOnly
  <1>1. ASSUME BootInv, AfterPagingInit, NEW v \in Pdes
        PROVE  LandsOn(v, IF v \in Higher THEN v - KERNEL_PDE_INDEX ELSE Fault)
    <2>1. pc \notin BeforeModes
      BY <1>1, AllSteps DEF AfterPagingInit, loader, paging_init, BootInv, TypeOK, BeforeModes, BeforeLoad,
          OnLoader, BeforePaging, BeforePse, BeforeCr3
    <2>2. paging /\ Walk(v) = IF v \in Higher THEN v - KERNEL_PDE_INDEX ELSE Fault
      BY <1>1, <2>1, KernelWalk DEF K, BootInv, ModesOn, BeforeModes, BeforeLoad, OnLoader
    <2> QED
      BY <1>1, <2>2, Walking DEF LandsOn
  <1>2. BootInv => HigherHalfOnly
    BY <1>1 DEF HigherHalfOnly
  <1> QED
    BY <1>2, BootInvariant, PTL

(* No interrupt comes before the gates, the segment and the stubs it needs *)
(* are there, and no fault of the boot shuts the processor down.           *)
THEOREM InterruptsAlwaysReceivable == Spec => []InterruptsReceivable
  <1>1. ASSUME BootInv PROVE InterruptsReceivable
    <2>1. interrupts => pc \notin BeforeIdt
      BY <1>1 DEF BootInv, ModesOn, BeforeSti
    <2> QED
      BY <1>1, <2>1, ReceivableOnceOn DEF InterruptsReceivable, BootInv, TrapsAtModules
  <1> QED
    BY <1>1, BootInvariant, PTL
-----------------------------------------------------------------------------
(* The way to the hlt loop without modules. *)

Position ==
  [map |-> 0, cr3 |-> 1, pse |-> 2, pg |-> 3, jump |-> 4, stack |-> 5, record |-> 6, clear |-> 7,
   fill |-> 8, load |-> 9, modes |-> 10, invlpg |-> 11, heap_init |-> 12, descriptors |-> 13,
   lgdt |-> 14, far_jump |-> 15, segments |-> 16, idt_init |-> 17, sti |-> 18, count |-> 19,
   hlt |-> 20]

NoDetour == modules < 2 => pc # "modules" /\ trap = "none"

BootAdvances ==
  [][Program /\ modules < 2 => Position[pc'] = Position[pc] + 1 /\ trap' = "none"]_vars

(* A step of a boot without modules is the next of its list. *)
LEMMA StepAdvances ==
  ASSUME BootInv, NoDetour, Program, modules < 2
  PROVE  /\ Position[pc'] = Position[pc] + 1 /\ trap' = "none" /\ pc' # "modules"
         /\ modules' = modules
  <1>1. pc # "modules" /\ trap = "none"
    BY DEF NoDetour
  <1>2. ~PageFault /\ ~Iret
    BY <1>1, EveryStepPossible DEF PageFault, Iret
  <1>3. CASE Count
    <2>1. pc = "count" /\ pc' = "hlt" /\ UNCHANGED <<modules, trap>>
      <3>1. modules \in Nat
        BY BootAssumption DEF BootInv, TypeOK
      <3>2. /\ pc = "count" /\ UNCHANGED <<modules, trap>>
            /\ pc' = IF modules >= 2 THEN "modules" ELSE "hlt"
        BY <1>3 DEF Count, At
      <3> QED
        BY <3>1, <3>2
    <2>2. Position["count"] = 19 /\ Position["hlt"] = 20
      BY DEF Position
    <2> QED
      BY <1>1, <2>1, <2>2
  <1>4. CASE ~Count
    <2>1. /\ pc \in {"map", "cr3", "pse", "pg", "jump", "stack", "record", "clear", "fill", "load",
                     "modes", "invlpg", "heap_init", "descriptors", "lgdt", "far_jump", "segments",
                     "idt_init", "sti"}
          /\ pc' = After(pc) /\ UNCHANGED <<modules, trap>>
      BY <1>2, <1>4
      DEF Program, At, Map, BootCr3, Pse, Pg, Pass, Clear, FillDirectory, KernelCr3, Modes, Invlpg,
          SetGates, gdt_load, gdt_load_flush, IdtInit, Sti
    <2> QED
      BY <1>1, <2>1, StepOrder DEF Position
  <1> QED
    BY <1>3, <1>4

(* Without modules no step of the boot faults, none is done twice and none *)
(* is left out: each step of the program is the next one on the way to the *)
(* hlt loop, whatever the TLB does in between.                             *)
THEOREM BootAlwaysAdvances == Spec => BootAdvances
  <1>1. Init => NoDetour
    BY DEF Init, NoDetour
  <1>2. ASSUME BootInv, NoDetour, [Next]_vars PROVE NoDetour'
    <2>1. CASE UNCHANGED vars
      BY <1>2, <2>1 DEF vars, NoDetour
    <2>2. CASE Processor
      BY <1>2, <2>2 DEF Processor, Fill, Evict, NoDetour
    <2>3. CASE Program /\ modules < 2
      BY <1>2, <2>3, StepAdvances DEF NoDetour
    <2>4. CASE Program /\ ~(modules < 2)
      <3>1. modules' = modules
        BY <2>4 DEF Program, Map, BootCr3, Pse, Pg, Pass, Clear, FillDirectory, KernelCr3, Modes,
          Invlpg, SetGates, gdt_load, gdt_load_flush, IdtInit, Sti, Count, PageFault, Iret
      <3> QED
        BY <2>4, <3>1 DEF NoDetour
    <2> QED
      BY <1>2, <2>1, <2>2, <2>3, <2>4 DEF Next
  <1>3. ASSUME BootInv, NoDetour
        PROVE  Program /\ modules < 2 => Position[pc'] = Position[pc] + 1 /\ trap' = "none"
    BY <1>3, StepAdvances
  <1> QED
    BY <1>1, <1>2, <1>3, BootInvariant, PTL DEF Spec, BootAdvances
-----------------------------------------------------------------------------
(* gdt_set_gate for every segment. *)

(* Numbers of 32 and of 20 bits. *)
Bits32(n) == n \in Nat /\ n < 65536 * 65536
Bits20(n) == n \in Nat /\ n < 16 * 65536

(* The three parts of a base make it up again. *)
LEMMA BaseParts ==
  ASSUME NEW base, Bits32(base)
  PROVE  (base % 65536) + 65536 * ((base \div 65536) % 256)
           + 16777216 * ((base \div 16777216) % 256) = base
  BY Z3 DEF Bits32

(* The same of a limit of 20 bits. *)
LEMMA LimitParts ==
  ASSUME NEW limit, Bits20(limit)
  PROVE  /\ (limit \div 65536) % 16 \in 0 .. 15
         /\ (limit % 65536) + 65536 * ((limit \div 65536) % 16) = limit
  BY Z3 DEF Bits20

(* What the processor reads in a descriptor is what it was made of. *)
ReadsBack(e, base, limit, access, gran) ==
  /\ Base(e) = base /\ Limit(e) = limit /\ e.access = access
  /\ e.granularity \div 16 = gran \div 16 /\ e.granularity \in 0 .. 255

(* A segment's base, limit, access byte and flags come back from the eight *)
(* bytes gdt_set_gate spreads them over, whatever they are: no bit of one  *)
(* field falls into another's.                                             *)
THEOREM SegmentsReadBack ==
  ASSUME NEW base, Bits32(base), NEW limit, Bits20(limit), NEW access, NEW gran \in 0 .. 255
  PROVE  ReadsBack(gdt_set_gate(base, limit, access, gran), base, limit, access, gran)
  <1> DEFINE e == gdt_set_gate(base, limit, access, gran)
             h == (limit \div 65536) % 16
  <1>1. e.granularity = h + 16 * (gran \div 16)
    BY Z3 DEF gdt_set_gate
  <1>2. /\ e.base_low = base % 65536 /\ e.base_middle = (base \div 65536) % 256
        /\ e.base_high = (base \div 16777216) % 256 /\ e.limit_low = limit % 65536
        /\ e.access = access
    BY Z3 DEF gdt_set_gate
  <1>3. (limit % 65536) + 65536 * h = limit
    BY LimitParts, SMT
  <1>4. h \in 0 .. 15
    BY LimitParts, SMT
  <1> HIDE DEF e, h
  <1>5. Base(e) = base
    BY <1>2, BaseParts, Z3 DEF Base
  <1>6. e.granularity % 16 = h /\ e.granularity \div 16 = gran \div 16 /\ e.granularity \in 0 .. 255
    <2>1. PICK n : n = h + 16 * (gran \div 16)
      BY SMT
    <2>2. n % 16 = h /\ n \div 16 = gran \div 16 /\ n \in 0 .. 255
      BY <1>4, <2>1, Z3
    <2>3. e.granularity = n
      BY <1>1, <2>1, SMT
    <2> QED
      BY <2>2, <2>3, SMT
  <1>7. Limit(e) = limit
    <2>1. PICK r : r = e.granularity % 16
      BY SMT
    <2>2. Limit(e) = e.limit_low + 65536 * r
      BY <2>1, SMT DEF Limit
    <2>3. r = h
      BY <1>6, <2>1, SMT
    <2> QED
      BY <1>2, <1>3, <2>2, <2>3, SMT
  <1>8. ReadsBack(e, base, limit, access, gran)
    BY <1>2, <1>5, <1>6, <1>7, SMT DEF ReadsBack
  <1> QED
    BY <1>8, SMT DEF e
=============================================================================
