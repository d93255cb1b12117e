-------------------------------- MODULE Pmm --------------------------------
(***************************************************************************)
(* The physical memory manager of pmm.c: one bit per 4 KB frame of the     *)
(* 32-bit physical address space, a bit that is set meaning "occupied",    *)
(* and a counter of the occupied frames among those that are managed.      *)
(*                                                                         *)
(* The bitmap is the set of the bits that are 1.  The words it is stored   *)
(* in show only where the code depends on them: pmm_alloc_frame searches   *)
(* whole words.  No code path calls the manager from an interrupt handler, *)
(* so that each function is one step.                                      *)
(*                                                                         *)
(* Clients keep the contract of pmm.h: what they free is what they were    *)
(* given.  The one caller that does not look at what it was given, kmain,  *)
(* is in module BootMemory.                                                *)
(***************************************************************************)
EXTENDS Naturals, FiniteSets

CONSTANTS
  MaxBlocks,   \* PMM_MAX_BLOCKS (1048576), the frames of the address space
  WordBits,    \* bits in a word of pmm_bitmap (32)
  LowBlocks,   \* frames of the first megabyte (256)
  BlockSize,   \* PMM_BLOCK_SIZE (4096)
  KbBytes,     \* bytes in a kilobyte (1024)
  Machines     \* arguments kmain can call pmm_init with, one machine each

Blocks == 0 .. MaxBlocks - 1

(* 2^32: unsigned int arithmetic on addresses and sizes wraps here. *)
AddressSpace == MaxBlocks * BlockSize

ASSUME PmmAssumption ==
  /\ MaxBlocks \in Nat \ {0}
  /\ WordBits \in Nat \ {0}
  /\ BlockSize \in Nat \ {0}
  /\ KbBytes \in Nat \ {0}
  /\ MaxBlocks % WordBits = 0
  /\ LowBlocks \in 1 .. MaxBlocks
  /\ Machines \subseteq [memKb : Nat, kernelEnd : 0 .. AddressSpace - BlockSize]

VARIABLES
  total,     \* pmm_total_blocks
  used,      \* pmm_used_blocks
  bitmap,    \* the bits of pmm_bitmap that are 1
  machine,   \* {the argument of pmm_init}, or {} before the call
  held,      \* addresses of the frames clients hold
  ret        \* what the last pmm_alloc_frame returned

vars == <<total, used, bitmap, machine, held, ret>>
-----------------------------------------------------------------------------
(* pmm_init *)

TotalBlocks(memKb) ==
  LET covered == ((memKb * KbBytes) % AddressSpace) \div BlockSize
  IN  IF covered > MaxBlocks THEN MaxBlocks ELSE covered

(* Mutant: a last page that the kernel fills in part counts as free. *)
KernelEndBlockTruncated(kernelEnd) == kernelEnd \div BlockSize

KernelEndBlock(kernelEnd) ==
  ((kernelEnd + BlockSize - 1) % AddressSpace) \div BlockSize

(* The bits that pmm_init leaves at 1. *)
Reserved(m) ==
  {b \in Blocks : \/ b >= TotalBlocks(m.memKb)
                  \/ b < LowBlocks
                  \/ b < KernelEndBlock(m.kernelEnd)}

Managed == 0 .. total - 1

pmm_init(m) ==
  /\ machine = {}
  /\ machine' = {m}
  /\ total' = TotalBlocks(m.memKb)
  /\ bitmap' = Reserved(m)
  /\ used' = Cardinality(bitmap' \cap Managed')
  /\ UNCHANGED <<held, ret>>
-----------------------------------------------------------------------------
(* pmm_alloc_frame, pmm_free_frame, pmm_get_free_frame_count *)

(* The bits that the search looks at: those of the whole words below total. *)
Searched == 0 .. (total \div WordBits) * WordBits - 1

FreeBits == Searched \ bitmap

FirstFree(b) == b \in FreeBits /\ \A c \in FreeBits : b <= c

TakeFrame ==
  \E b \in FreeBits :
    /\ FirstFree(b)
    /\ bitmap' = bitmap \cup {b}
    /\ used' = used + 1
    /\ ret' = b * BlockSize
    /\ held' = held \cup {ret'}
    /\ UNCHANGED <<total, machine>>

(* Mutant: the search gives up after the first word. *)
NoFrameInFirstWord ==
  /\ FreeBits \cap 0 .. WordBits - 1 = {}
  /\ ret' = 0
  /\ UNCHANGED <<total, used, bitmap, machine, held>>

NoFrameLeft ==
  /\ FreeBits = {}
  /\ ret' = 0
  /\ UNCHANGED <<total, used, bitmap, machine, held>>

pmm_alloc_frame == TakeFrame \/ NoFrameLeft

BlockOf(addr) == addr \div BlockSize

(* Mutants: the bit is cleared in the first word, whichever word it is in; *)
(* the counter is left alone.                                              *)
ClearFrameInFirstWord(b) ==
  /\ bitmap' = bitmap \ {b % WordBits}
  /\ used' = IF used > 0 THEN used - 1 ELSE used

ClearFrameUncounted(b) ==
  /\ bitmap' = bitmap \ {b}
  /\ UNCHANGED used

ClearFrame(b) ==
  /\ bitmap' = bitmap \ {b}
  /\ used' = IF used > 0 THEN used - 1 ELSE used

pmm_free_frame(addr) ==
  /\ \/ BlockOf(addr) \in Managed \cap bitmap /\ ClearFrame(BlockOf(addr))
     \/ BlockOf(addr) \notin Managed \cap bitmap /\ UNCHANGED <<bitmap, used>>
  /\ held' = held \ {addr}
  /\ UNCHANGED <<total, machine, ret>>

pmm_get_free_frame_count == IF total > used THEN total - used ELSE 0
-----------------------------------------------------------------------------
(* Before pmm_init everything is zero, as .bss is. *)
Init ==
  /\ total = 0
  /\ used = 0
  /\ bitmap = {}
  /\ machine = {}
  /\ held = {}
  /\ ret = 0

Next ==
  \/ \E m \in Machines : pmm_init(m)
  \/ pmm_alloc_frame
  \/ \E addr \in held : pmm_free_frame(addr)

Spec == Init /\ [][Next]_vars
-----------------------------------------------------------------------------
(* The variables hold values of the types their C declarations intend. *)
TypeOK ==
  /\ total \in 0 .. MaxBlocks
  /\ used \in 0 .. MaxBlocks
  /\ bitmap \subseteq Blocks
  /\ machine = {} \/ \E m \in Machines : machine = {m}
  /\ held \subseteq 0 .. AddressSpace - 1
  /\ ret \in 0 .. AddressSpace - 1

(* The bits that are 1 are those of the reserved frames and those of the   *)
(* frames in clients' hands, and no others: whatever the order of calls of *)
(* pmm_alloc_frame and pmm_free_frame, no frame leaks and none is free     *)
(* while a client still uses it.                                           *)
OwnershipExact ==
  \A m \in machine : bitmap = Reserved(m) \cup {BlockOf(f) : f \in held}

(* A frame in a client's hands lies above the first megabyte and above the *)
(* whole kernel image, its partly used last page included, and inside the  *)
(* memory the machine has (pmm_init's rounding and pmm_alloc_frame).       *)
GrantedFramesUsable ==
  \A f \in held : \A m \in machine :
    /\ f % BlockSize = 0
    /\ f >= LowBlocks * BlockSize
    /\ f >= m.kernelEnd
    /\ f + BlockSize <= m.memKb * KbBytes

(* pmm_get_free_frame_count is the number of zero bits among the managed   *)
(* frames: the counter kept by pmm_alloc_frame and pmm_free_frame never    *)
(* drifts from the bitmap.                                                 *)
FreeCountExact ==
  pmm_get_free_frame_count = Cardinality(Managed \ bitmap)

(* pmm_alloc_frame never returns a frame that some client still holds. *)
AllocReturnsFreshFrame == [][pmm_alloc_frame => ret' \notin held]_vars

(* pmm.c implements FrameAllocator, its pool being the zero bits of the    *)
(* whole words: a request is refused only when none of these is left, and  *)
(* a frame that is freed can be handed out again.                          *)
FA == INSTANCE FrameAllocator WITH
        Frames  <- {b * BlockSize : b \in Blocks \ {0}},
        NoFrame <- 0,
        ready   <- machine # {},
        pool    <- {b * BlockSize : b \in FreeBits}

ImplementsFrameAllocator == FA!Spec

(* A refusal leaves fewer frames unused than a word has bits, although     *)
(* pmm_get_free_frame_count still counts them: the frames of a last,       *)
(* partial word, where pmm_alloc_frame does not look.                      *)
RefusedOnlyWhenFewLeft ==
  [][NoFrameLeft => pmm_get_free_frame_count < WordBits]_vars
=============================================================================
