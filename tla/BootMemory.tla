----------------------------- MODULE BootMemory -----------------------------
(***************************************************************************)
(* The part of kmain that sets up memory, and the physical memory manager  *)
(* it does it with: kmain hands pmm_init the machine's memory, probes the  *)
(* manager with one frame that it takes and gives back, turns paging on    *)
(* and starts the heap, which lives in frames that heap.h fixes.  When     *)
(* kmain is done the manager serves the rest of the kernel.                *)
(*                                                                         *)
(* kmain does not look at the answer to its probe.                         *)
(***************************************************************************)
EXTENDS Pmm

CONSTANTS
  HeapStart,   \* physical address behind HEAP_START_VADDR (0x200000)
  HeapBytes    \* HEAP_INITIAL_SIZE (0x20000)

ASSUME BootMemoryAssumption ==
  /\ HeapStart \in 0 .. AddressSpace - 1
  /\ HeapBytes \in Nat \ {0}

VARIABLES
  pc,          \* what kmain does next
  testFrame    \* kmain's local variable

bootVars == <<vars, pc, testFrame>>
-----------------------------------------------------------------------------
(* The boot loader gives no memory map: the manager is never set up. *)
NoMemoryInfo ==
  /\ pc = "pmm"
  /\ pc' = "heap"
  /\ UNCHANGED <<vars, testFrame>>

InitPmm ==
  /\ pc = "pmm"
  /\ \E m \in Machines : pmm_init(m)
  /\ pc' = "probe"
  /\ UNCHANGED testFrame

Probe ==
  /\ pc = "probe"
  /\ pmm_alloc_frame
  /\ testFrame' = ret'
  /\ pc' = "unprobe"

(* Mutants: the frame of the probe stays with kmain; it is freed by its    *)
(* number instead of its address.                                          *)
UnprobeNothing ==
  /\ pc = "unprobe"
  /\ UNCHANGED vars
  /\ pc' = "heap"
  /\ UNCHANGED testFrame

UnprobeByNumber ==
  /\ pc = "unprobe"
  /\ pmm_free_frame(BlockOf(testFrame))
  /\ pc' = "heap"
  /\ UNCHANGED testFrame

Unprobe ==
  /\ pc = "unprobe"
  /\ pmm_free_frame(testFrame)
  /\ pc' = "heap"
  /\ UNCHANGED testFrame

(* paging_init and heap_init take no frame from the manager. *)
StartHeap ==
  /\ pc = "heap"
  /\ pc' = "up"
  /\ UNCHANGED <<vars, testFrame>>

Serve ==
  /\ pc = "up"
  /\ \/ pmm_alloc_frame
     \/ \E addr \in held : pmm_free_frame(addr)
  /\ UNCHANGED <<pc, testFrame>>

BootInit == Init /\ pc = "pmm" /\ testFrame = 0

BootNext ==
  \/ NoMemoryInfo
  \/ InitPmm
  \/ Probe
  \/ Unprobe
  \/ StartHeap
  \/ Serve

BootSpec == BootInit /\ [][BootNext]_bootVars
-----------------------------------------------------------------------------
(* kmain keeps the contract of pmm.h, to free only what it was given: what *)
(* it does with the manager is a behaviour of Pmm, and so everything that  *)
(* holds of Pmm holds while the kernel boots and afterwards.               *)
KmainKeepsContract == Spec

(* kmain's probe takes nothing and leaves nothing (kmain.c, "Quadro fisico *)
(* liberado com sucesso"): the kernel starts with the bitmap that pmm_init *)
(* built, which reserves exactly the frames it had to.                     *)
ProbeIsNeutral ==
  pc = "heap" => held = {} /\ \A m \in machine : bitmap = Reserved(m)

(* A frame that pmm_alloc_frame grants is free (pmm.h): once the heap is   *)
(* in use no client is given a frame of the heap (heap.h).                 *)
HeapFramesNotGranted ==
  pc = "up" =>
    \A f \in held : f + BlockSize <= HeapStart \/ f >= HeapStart + HeapBytes
=============================================================================
