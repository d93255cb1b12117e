-------------------------------- MODULE Boot --------------------------------
(***************************************************************************)
(* The kernel's way into the higher half: loader.s, paging_init,           *)
(* gdt_install and the rest of kmain, against the processor's page tables, *)
(* translation buffer (TLB) and descriptor tables.  Memory is seen in      *)
(* pages of 4 MB.  The kernel, its tables, its heap, the VGA memory, the   *)
(* boot loader's Multiboot record and its GDT lie in physical page 0.      *)
(***************************************************************************)
EXTENDS Descriptors

CONSTANTS
  PAGING_PDE_COUNT,   \* entries of a page directory (1024)
  KERNEL_PDE_INDEX,   \* the first one of the higher half (768)
  ModuleCounts        \* modules the boot loader may announce

ASSUME BootAssumption ==
  /\ PAGING_PDE_COUNT \in Nat /\ KERNEL_PDE_INDEX \in Nat
  /\ 0 < KERNEL_PDE_INDEX /\ KERNEL_PDE_INDEX < PAGING_PDE_COUNT
  /\ ModuleCounts \subseteq Nat

VARIABLES
  pc,                    \* the step of the boot that comes next
  cr3,                   \* the page directory in use
  pse, paging,           \* 4 MB pages, and paging, switched on (CR4, CR0)
  boot_page_directory,   \* the loader's directory
  page_directory,        \* paging_init's
  tlb,                   \* translations the processor remembers
  gdt,                   \* the kernel's descriptor table
  gdtr,                  \* the table in use: the boot loader's or the kernel's
  idt, interrupts,       \* lidt done; the interrupt flag
  modules,               \* modules announced
  trap                   \* in the handler of a page fault, or shut down

directories == <<cr3, pse, paging, boot_page_directory, page_directory, tlb>>
descriptors == <<gdt, gdtr, idt, interrupts>>
vars == <<pc, directories, descriptors, modules, trap>>

Pdes == 0 .. PAGING_PDE_COUNT - 1
Higher == KERNEL_PDE_INDEX .. PAGING_PDE_COUNT - 1

(* A directory entry: is it present, and with which 4 MB page. *)
Unmapped == [present |-> FALSE, page |-> 0]
Maps(p) == [present |-> TRUE, page |-> p]
-----------------------------------------------------------------------------
(* The processor. *)

Fault == PAGING_PDE_COUNT   \* no page

(* Without PSE an entry is taken for the address of a page table, where    *)
(* there is none.                                                          *)
Walk(v) ==
  LET e == IF cr3 = "boot" THEN boot_page_directory[v] ELSE page_directory[v]
  IN  IF pse /\ e.present THEN e.page ELSE Fault

(* The pages an access to v may end up in. *)
Reached(v) ==
  IF paging THEN {Walk(v)} \cup {t[2] : t \in {u \in tlb : u[1] = v}} ELSE {v}

LandsOn(v, p) == Reached(v) = {p}

Fill(v) ==
  /\ paging /\ Walk(v) # Fault
  /\ tlb' = tlb \cup {<<v, Walk(v)>>}
  /\ UNCHANGED <<pc, cr3, pse, paging, boot_page_directory, page_directory, descriptors, modules, trap>>

Evict(t) ==
  /\ tlb' = tlb \ {t}
  /\ UNCHANGED <<pc, cr3, pse, paging, boot_page_directory, page_directory, descriptors, modules, trap>>

LoadCr3(directory) == cr3' = directory /\ tlb' = {}
-----------------------------------------------------------------------------
(* The order of the steps: which one comes after each. *)

loader ==
  [map |-> "cr3", cr3 |-> "pse", pse |-> "pg", pg |-> "jump", jump |-> "stack", stack |-> "record"]

(* Mutant: the directory is loaded before it is filled. *)
paging_initLoadFirst ==
  [clear |-> "load", load |-> "modes", modes |-> "fill", fill |-> "invlpg", invlpg |-> "heap_init"]

paging_init ==
  [clear |-> "fill", fill |-> "load", load |-> "modes", modes |-> "invlpg", invlpg |-> "heap_init"]

(* Mutant: interrupts are on before the GDT is the kernel's. *)
kmainStiFirst ==
  [record |-> "clear", heap_init |-> "idt_init", idt_init |-> "sti", sti |-> "descriptors",
   descriptors |-> "lgdt", lgdt |-> "far_jump", far_jump |-> "segments", segments |-> "count"]

(* kmain, from reading the Multiboot record to the count of the modules,   *)
(* gdt_install in its parts.                                               *)
kmain ==
  [record |-> "clear", heap_init |-> "descriptors",
   descriptors |-> "lgdt", lgdt |-> "far_jump", far_jump |-> "segments", segments |-> "idt_init",
   idt_init |-> "sti", sti |-> "count"]

After(step) ==
  IF step \in DOMAIN loader THEN loader[step]
  ELSE IF step \in DOMAIN paging_init THEN paging_init[step] ELSE kmain[step]

(* Where the code of a step runs, and what it reads or writes besides: the *)
(* loader at physical addresses until its jump, everything else in the     *)
(* higher half.  The list of modules has a physical address, too.          *)
CodePage(step) == IF step \in {"map", "cr3", "pse", "pg", "jump"} THEN 0 ELSE KERNEL_PDE_INDEX

DataPage(step) == IF step = "modules" THEN 0 ELSE CodePage(step)

GdtPage == IF gdtr = "kernel" THEN KERNEL_PDE_INDEX ELSE 0

Lands(step) == LandsOn(CodePage(step), 0) /\ LandsOn(DataPage(step), 0)

(* An interrupt or exception finds its gate, the gate's code segment and   *)
(* the stub.                                                               *)
KernelCode == 8
KernelData == 16
Receivable ==
  /\ idt /\ LandsOn(KERNEL_PDE_INDEX, 0)
  /\ gdtr = "kernel" /\ CodeFor(gdt, KernelCode, 0)

(* A segment register is loaded from the table in use. *)
Loadable(step) ==
  step \in {"far_jump", "segments"} =>
    /\ LandsOn(GdtPage, 0) /\ gdtr = "kernel"
    /\ IF step = "far_jump" THEN CodeFor(gdt, KernelCode, 0) ELSE DataFor(gdt, KernelData, 0)

Possible(step) == Lands(step) /\ Loadable(step)

At(step) == pc = step /\ trap = "none" /\ Possible(step)
-----------------------------------------------------------------------------
(* loader.s *)

Map ==
  /\ At("map") /\ pc' = After("map")
  /\ boot_page_directory' = [boot_page_directory EXCEPT ![0] = Maps(0), ![KERNEL_PDE_INDEX] = Maps(0)]
  /\ UNCHANGED <<cr3, pse, paging, page_directory, tlb, descriptors, modules, trap>>

BootCr3 ==
  /\ At("cr3") /\ pc' = After("cr3")
  /\ LoadCr3("boot")
  /\ UNCHANGED <<pse, paging, boot_page_directory, page_directory, descriptors, modules, trap>>

Pse ==
  /\ At("pse") /\ pc' = After("pse")
  /\ pse' = TRUE
  /\ UNCHANGED <<cr3, paging, boot_page_directory, page_directory, tlb, descriptors, modules, trap>>

Pg ==
  /\ At("pg") /\ pc' = After("pg")
  /\ paging' = TRUE
  /\ UNCHANGED <<cr3, pse, boot_page_directory, page_directory, tlb, descriptors, modules, trap>>

(* Steps whose only effect here is that their accesses succeed: the jump   *)
(* to the higher half, the stack and the call of kmain, reading the        *)
(* Multiboot record, setting up the heap.                                  *)
Pass(step) ==
  /\ At(step) /\ pc' = After(step)
  /\ UNCHANGED <<directories, descriptors, modules, trap>>

(* paging_init, paging_enable and tlb_flush_single *)

Clear ==
  /\ At("clear") /\ pc' = After("clear")
  /\ page_directory' = [i \in Pdes |-> Unmapped]
  /\ UNCHANGED <<cr3, pse, paging, boot_page_directory, tlb, descriptors, modules, trap>>

(* Mutant: the first entry stays as the loader's is. *)
HigherHalfAndLow(directory) ==
  [i \in Pdes |-> IF i \in Higher THEN Maps(i - KERNEL_PDE_INDEX)
                  ELSE IF i = 0 THEN Maps(0) ELSE directory[i]]

HigherHalf(directory) ==
  [i \in Pdes |-> IF i \in Higher THEN Maps(i - KERNEL_PDE_INDEX) ELSE directory[i]]

FillDirectory ==
  /\ At("fill") /\ pc' = After("fill")
  /\ page_directory' = HigherHalf(page_directory)
  /\ UNCHANGED <<cr3, pse, paging, boot_page_directory, tlb, descriptors, modules, trap>>

KernelCr3 ==
  /\ At("load") /\ pc' = After("load")
  /\ LoadCr3("kernel")
  /\ UNCHANGED <<pse, paging, boot_page_directory, page_directory, descriptors, modules, trap>>

Modes ==
  /\ At("modes") /\ pc' = After("modes")
  /\ pse' = TRUE /\ paging' = TRUE
  /\ UNCHANGED <<cr3, boot_page_directory, page_directory, tlb, descriptors, modules, trap>>

tlb_flush_single(v) == tlb' = {t \in tlb : t[1] # v}

Invlpg ==
  /\ At("invlpg") /\ pc' = After("invlpg")
  /\ tlb_flush_single(0)
  /\ UNCHANGED <<cr3, pse, paging, boot_page_directory, page_directory, descriptors, modules, trap>>

(* gdt_install: the tables, lgdt, the far jump that loads CS, and the      *)
(* other segment registers.                                                *)
GdtEntries ==
  [n \in 0 .. 2 |->
     IF n = 0 THEN gdt_set_gate(0, 0, 0, 0)
     ELSE IF n = 1 THEN gdt_set_gate(0, 1048575, 154, 207)
     ELSE gdt_set_gate(0, 1048575, 146, 207)]

SetGates ==
  /\ At("descriptors") /\ pc' = After("descriptors")
  /\ gdt' = GdtEntries
  /\ UNCHANGED <<directories, gdtr, idt, interrupts, modules, trap>>

gdt_load ==
  /\ At("lgdt") /\ pc' = After("lgdt")
  /\ gdtr' = "kernel"
  /\ UNCHANGED <<directories, gdt, idt, interrupts, modules, trap>>

gdt_load_flush == Pass("far_jump") \/ Pass("segments")

IdtInit ==
  /\ At("idt_init") /\ pc' = After("idt_init")
  /\ idt' = TRUE
  /\ UNCHANGED <<directories, gdt, gdtr, interrupts, modules, trap>>

Sti ==
  /\ At("sti") /\ pc' = After("sti")
  /\ interrupts' = TRUE
  /\ UNCHANGED <<directories, gdt, gdtr, idt, modules, trap>>

(* mods_count is read through the higher half. *)
Count ==
  /\ At("count")
  /\ pc' = IF modules >= 2 THEN "modules" ELSE "hlt"
  /\ UNCHANGED <<directories, descriptors, modules, trap>>

(* An access that does not land: a page fault, whose handler returns to    *)
(* the same step; or, if the fault cannot be received, the end.            *)
PageFault ==
  /\ pc # "hlt" /\ trap = "none" /\ ~Possible(pc)
  /\ trap' = IF Receivable THEN "handler" ELSE "shutdown"
  /\ UNCHANGED <<pc, directories, descriptors, modules>>

Iret ==
  /\ trap = "handler" /\ trap' = "none"
  /\ UNCHANGED <<pc, directories, descriptors, modules>>
-----------------------------------------------------------------------------
Init ==
  /\ pc = "map"
  /\ cr3 = "boot" /\ pse = FALSE /\ paging = FALSE /\ tlb = {}
  /\ boot_page_directory = [i \in Pdes |-> Unmapped]
  /\ page_directory = [i \in Pdes |-> Unmapped]
  /\ gdt = [n \in 0 .. 2 |-> gdt_set_gate(0, 0, 0, 0)] /\ gdtr = "boot loader"
  /\ idt = FALSE /\ interrupts = FALSE
  /\ modules \in ModuleCounts /\ trap = "none"

Program ==
  \/ Map \/ BootCr3 \/ Pse \/ Pg \/ (\E s \in {"jump", "stack", "record", "heap_init"} : Pass(s))
  \/ Clear \/ FillDirectory \/ KernelCr3 \/ Modes \/ Invlpg
  \/ SetGates \/ gdt_load \/ gdt_load_flush \/ IdtInit \/ Sti \/ Count
  \/ PageFault \/ Iret

Processor == (\E v \in Pdes : Fill(v)) \/ (\E t \in tlb : Evict(t))

Next == Program \/ Processor

Spec == Init /\ [][Next]_vars

(* The processor executes; what its TLB does is its own affair. *)
FairSpec == Spec /\ WF_vars(Program)
-----------------------------------------------------------------------------
Steps ==
  DOMAIN loader \cup DOMAIN paging_init \cup DOMAIN kmain \cup {"count", "modules", "hlt"}

Directory == [Pdes -> [present : BOOLEAN, page : Pdes]]

(* The variables hold values of their types. *)
TypeOK ==
  /\ pc \in Steps
  /\ cr3 \in {"boot", "kernel"} /\ pse \in BOOLEAN /\ paging \in BOOLEAN
  /\ boot_page_directory \in Directory /\ page_directory \in Directory
  /\ tlb \subseteq Pdes \X Pdes
  /\ gdtr \in {"boot loader", "kernel"} /\ idt \in BOOLEAN /\ interrupts \in BOOLEAN
  /\ modules \in ModuleCounts /\ trap \in {"none", "handler", "shutdown"}

(* The program never pulls the ground from under its feet: every access up *)
(* to the list of modules lands where it is meant to, whatever the TLB     *)
(* remembers (loader.s, paging_init).                                      *)
AccessesLand == pc \notin {"modules", "hlt"} => Lands(pc)

(* From paging_init on the higher half is the physical memory in order,    *)
(* and the low addresses are gone, from the directory and from the TLB     *)
(* (paging.c, comment of step 5).                                          *)
AfterPagingInit == pc \notin DOMAIN loader \cup DOMAIN paging_init \cup {"record"}
HigherHalfOnly ==
  AfterPagingInit =>
    \A v \in Pdes : LandsOn(v, IF v \in Higher THEN v - KERNEL_PDE_INDEX ELSE Fault)

(* With interrupts on, an interrupt finds its gate, its segment and its    *)
(* stub, and none shuts the processor down (idt_init; gdt_install).        *)
InterruptsReceivable == (interrupts => Receivable) /\ trap # "shutdown"

(* The boot comes to the hlt loop: always if there are fewer than two      *)
(* modules ...                                                             *)
BootsWithoutModules == modules < 2 => <>(pc = "hlt")

(* ... and with a file system module (kmain: "Filesystem inicializado").   *)
BootCompletes == <>(pc = "hlt")
=============================================================================
