----------------------------- MODULE PmmProofs -----------------------------
(***************************************************************************)
(* Theorems about Pmm, for every size of the address space, of a word and  *)
(* of a frame, and for every machine, and about BootMemory at the end.     *)
(*                                                                         *)
(* All of them follow from one inductive invariant, PmmInv.  Ownership of  *)
(* the bits is not inductive alone: that a freed frame gives back its own  *)
(* bit and no reserved one needs HeldAreFrames, and the counter is exact   *)
(* only together with the bits it counts (UsedExact).                      *)
(***************************************************************************)
EXTENDS BootMemory, FiniteSetTheorems, TLAPS

(* pmm_total_blocks is what pmm_init computed, zero before. *)
TotalExact ==
  /\ machine = {} => total = 0 /\ bitmap = {} /\ held = {}
  /\ \A m \in machine : total = TotalBlocks(m.memKb)

(* Clients hold the addresses of managed frames, none of them reserved. *)
HeldAreFrames ==
  \A f \in held : \E b \in Searched :
    /\ f = b * BlockSize
    /\ \A m \in machine : b \notin Reserved(m)

(* pmm_used_blocks counts the managed bits that are 1. *)
UsedExact == used = Cardinality(bitmap \cap Managed)

PmmInv ==
  /\ TypeOK
  /\ TotalExact
  /\ OwnershipExact
  /\ HeldAreFrames
  /\ UsedExact
-----------------------------------------------------------------------------
(* Frame numbers and addresses. *)

LEMMA DivideProduct ==
  ASSUME NEW n \in Nat \ {0}, NEW b \in Nat
  PROVE  (b * n) \div n = b /\ (b * n) % n = 0
  BY Z3

LEMMA DivideBounds ==
  ASSUME NEW n \in Nat \ {0}, NEW a \in Nat
  PROVE  /\ a \div n \in Nat
         /\ (a \div n) * n <= a
         /\ a < (a \div n) * n + n
         /\ a % n \in 0 .. n - 1
         /\ a % n <= a
  BY Z3

LEMMA MultiplyMonotone ==
  ASSUME NEW n \in Nat, NEW a \in Nat, NEW b \in Nat, a <= b
  PROVE  a * n <= b * n
  BY Z3

(* The address of a frame of the address space, and the way back. *)
LEMMA FrameAddress ==
  ASSUME NEW b \in Blocks
  PROVE  /\ b * BlockSize \in 0 .. AddressSpace - 1
         /\ (b + 1) * BlockSize <= AddressSpace
         /\ b * BlockSize + BlockSize = (b + 1) * BlockSize
         /\ BlockOf(b * BlockSize) = b
<1>1. b \in Nat /\ b + 1 <= MaxBlocks /\ b + 1 \in Nat /\ MaxBlocks \in Nat
      /\ BlockSize \in Nat \ {0}
  BY PmmAssumption DEF Blocks
<1>2. (b + 1) * BlockSize <= MaxBlocks * BlockSize
  BY <1>1, MultiplyMonotone
<1>3. b * BlockSize + BlockSize = (b + 1) * BlockSize
  BY <1>1
<1>4. b * BlockSize \in Nat /\ MaxBlocks * BlockSize \in Nat
  BY <1>1
<1>5. BlockOf(b * BlockSize) = b
  BY <1>1, DivideProduct DEF BlockOf
<1> QED BY <1>1, <1>2, <1>3, <1>4, <1>5 DEF AddressSpace

(* The frames pmm_init manages are in RAM and in the address space. *)
LEMMA ManagedFramesExist ==
  ASSUME NEW memKb \in Nat
  PROVE  /\ TotalBlocks(memKb) \in 0 .. MaxBlocks
         /\ TotalBlocks(memKb) * BlockSize <= memKb * KbBytes
<1> DEFINE bytes == memKb * KbBytes
           kept == bytes % AddressSpace
           covered == kept \div BlockSize
<1>1. bytes \in Nat /\ MaxBlocks \in Nat /\ BlockSize \in Nat \ {0}
  BY PmmAssumption
<1>2. AddressSpace \in Nat \ {0}
  BY <1>1, PmmAssumption, Z3 DEF AddressSpace
<1>3. kept \in Nat /\ kept <= bytes
  <2> HIDE DEF bytes
  <2> QED BY <1>1, <1>2, DivideBounds
<1>4. covered \in Nat /\ covered * BlockSize <= kept
  <2> HIDE DEF kept
  <2> QED BY <1>1, <1>3, DivideBounds
<1>5. TotalBlocks(memKb) = IF covered > MaxBlocks THEN MaxBlocks ELSE covered
  BY DEF TotalBlocks
<1> HIDE DEF covered, kept, bytes
<1>6. TotalBlocks(memKb) \in Nat /\ TotalBlocks(memKb) <= covered
      /\ TotalBlocks(memKb) <= MaxBlocks
  BY <1>1, <1>4, <1>5
<1>7. TotalBlocks(memKb) * BlockSize <= covered * BlockSize
  BY <1>1, <1>4, <1>6, MultiplyMonotone
<1>8. TotalBlocks(memKb) * BlockSize \in Nat /\ covered * BlockSize \in Nat
  BY <1>1, <1>4, <1>6
<1>9. TotalBlocks(memKb) * BlockSize <= bytes
  BY <1>1, <1>3, <1>4, <1>7, <1>8
<1> QED BY <1>1, <1>6, <1>9 DEF bytes

(* The kernel's last page is reserved even when the kernel fills part of it. *)
LEMMA KernelEndRoundsUp ==
  ASSUME NEW kernelEnd \in 0 .. AddressSpace - BlockSize
  PROVE  /\ KernelEndBlock(kernelEnd) \in Nat
         /\ kernelEnd <= KernelEndBlock(kernelEnd) * BlockSize
<1>1. BlockSize \in Nat \ {0} /\ MaxBlocks \in Nat
  BY PmmAssumption
<1>2. AddressSpace \in Nat
  BY <1>1 DEF AddressSpace
<1>3. kernelEnd \in Nat /\ kernelEnd <= AddressSpace - BlockSize
  BY <1>1, <1>2
<1>4. PICK last \in Nat : last = kernelEnd + BlockSize - 1 /\ last < AddressSpace
  BY <1>1, <1>2, <1>3
<1>5. last % AddressSpace = last
  BY <1>2, <1>4
<1>6. KernelEndBlock(kernelEnd) = last \div BlockSize
  BY <1>4, <1>5 DEF KernelEndBlock
<1>7. last \div BlockSize \in Nat /\ last < (last \div BlockSize) * BlockSize + BlockSize
  BY <1>1, <1>4, DivideBounds
<1>8. ASSUME NEW e \in Nat, last < e * BlockSize + BlockSize
      PROVE  kernelEnd <= e * BlockSize
  BY <1>1, <1>3, <1>4, <1>8
<1> QED BY <1>6, <1>7, <1>8

(* The search of pmm_alloc_frame stays within the managed frames. *)
LEMMA SearchedAreManaged ==
  ASSUME total \in 0 .. MaxBlocks
  PROVE  Searched \subseteq Managed /\ Managed \subseteq Blocks
<1>1. total \in Nat /\ WordBits \in Nat \ {0} /\ MaxBlocks \in Nat
  BY PmmAssumption
<1>2. (total \div WordBits) * WordBits <= total /\ total \div WordBits \in Nat
  BY <1>1, DivideBounds
<1>3. (total \div WordBits) * WordBits \in Nat
  BY <1>1, <1>2
<1> QED BY <1>1, <1>2, <1>3 DEF Searched, Managed, Blocks

(* The counter fits: it counts a set of managed frames. *)
LEMMA CountFits ==
  ASSUME total \in 0 .. MaxBlocks, NEW S
  PROVE  /\ IsFiniteSet(S \cap Managed)
         /\ Cardinality(S \cap Managed) \in 0 .. MaxBlocks
         /\ Cardinality(S \cap Managed) <= total
         /\ IsFiniteSet(Managed) /\ Cardinality(Managed) = total
<1>1. total \in Nat /\ MaxBlocks \in Nat
  BY PmmAssumption
<1>2. IsFiniteSet(Managed) /\ Cardinality(Managed) = total
  BY <1>1, FS_Interval DEF Managed
<1>3. S \cap Managed \in SUBSET Managed
  OBVIOUS
<1>4. /\ IsFiniteSet(S \cap Managed)
      /\ Cardinality(S \cap Managed) <= Cardinality(Managed)
  BY <1>2, <1>3, FS_Subset
<1>5. Cardinality(S \cap Managed) \in Nat
  BY <1>4, FS_CardinalityType
<1> QED BY <1>1, <1>2, <1>4, <1>5
-----------------------------------------------------------------------------
(* PmmInv is inductive: one lemma per function of pmm.c. *)

LEMMA InitEstablishes == Init => PmmInv
<1> SUFFICES ASSUME Init PROVE PmmInv
  OBVIOUS
<1>1. MaxBlocks \in Nat \ {0} /\ BlockSize \in Nat \ {0}
  BY PmmAssumption
<1>2. AddressSpace \in Nat \ {0}
  BY <1>1, Z3 DEF AddressSpace
<1>3. TypeOK
  BY <1>1, <1>2 DEF Init, TypeOK
<1>4. UsedExact
  <2>1. bitmap \cap Managed = {} /\ used = 0
    BY DEF Init
  <2> QED BY <2>1, FS_EmptySet DEF UsedExact
<1> QED BY <1>3, <1>4 DEF Init, PmmInv, TotalExact, OwnershipExact, HeldAreFrames

LEMMA InitCallPreserves ==
  ASSUME PmmInv, NEW m \in Machines, pmm_init(m)
  PROVE  PmmInv'
<1>1. m.memKb \in Nat /\ machine' = {m} /\ held = {} /\ held' = {} /\ ret' = ret
  BY PmmAssumption DEF pmm_init, PmmInv, TotalExact
<1>2. total' = TotalBlocks(m.memKb) /\ total' \in 0 .. MaxBlocks
  BY <1>1, ManagedFramesExist DEF pmm_init
<1>3. bitmap' = Reserved(m) /\ bitmap' \subseteq Blocks
  BY DEF pmm_init, Reserved
<1>4. UsedExact' /\ used' \in 0 .. MaxBlocks
  <2>1. used' = Cardinality(bitmap' \cap Managed')
    BY DEF pmm_init
  <2>2. ASSUME NEW n \in 0 .. MaxBlocks, NEW S
        PROVE  Cardinality(S \cap 0 .. n - 1) \in 0 .. MaxBlocks
    <3>1. n \in Nat /\ MaxBlocks \in Nat
      BY PmmAssumption
    <3>2. IsFiniteSet(0 .. n - 1) /\ Cardinality(0 .. n - 1) = n
      BY <3>1, FS_Interval
    <3>3. /\ IsFiniteSet(S \cap 0 .. n - 1)
          /\ Cardinality(S \cap 0 .. n - 1) <= Cardinality(0 .. n - 1)
      BY <3>2, FS_Subset
    <3> QED BY <3>1, <3>2, <3>3, FS_CardinalityType
  <2> QED BY <1>2, <2>1, <2>2 DEF UsedExact, Managed
<1>5. TypeOK'
  BY <1>1, <1>2, <1>3, <1>4 DEF PmmInv, TypeOK
<1>6. OwnershipExact'
  BY <1>1, <1>3 DEF OwnershipExact
<1> QED BY <1>1, <1>2, <1>4, <1>5, <1>6 DEF PmmInv, TotalExact, HeldAreFrames

LEMMA TakeFramePreserves ==
  ASSUME PmmInv, TakeFrame
  PROVE  PmmInv'
<1> PICK b \in FreeBits :
       /\ bitmap' = bitmap \cup {b}
       /\ used' = used + 1
       /\ ret' = b * BlockSize
       /\ held' = held \cup {ret'}
       /\ UNCHANGED <<total, machine>>
  BY DEF TakeFrame
<1>1. b \in Searched /\ b \in Managed /\ b \in Blocks /\ b \notin bitmap
      /\ total' \in 0 .. MaxBlocks
  BY SearchedAreManaged DEF PmmInv, TypeOK, FreeBits
<1>2. /\ b * BlockSize \in 0 .. AddressSpace - 1
      /\ BlockOf(b * BlockSize) = b
  BY <1>1, FrameAddress
<1>3. UsedExact' /\ used' \in 0 .. MaxBlocks
  <2>1. bitmap' \cap Managed' = (bitmap \cap Managed) \cup {b}
    BY <1>1 DEF Managed
  <2>2. b \notin bitmap \cap Managed /\ IsFiniteSet(bitmap \cap Managed)
    BY <1>1, CountFits DEF PmmInv, TypeOK
  <2>3. Cardinality(bitmap' \cap Managed') = Cardinality(bitmap \cap Managed) + 1
    BY <2>1, <2>2, FS_AddElement
  <2>4. Managed' = Managed /\ Cardinality(bitmap' \cap Managed) \in 0 .. MaxBlocks
    BY <1>1, CountFits DEF PmmInv, TypeOK, Managed
  <2> QED BY <2>3, <2>4 DEF PmmInv, UsedExact
<1>4. TypeOK'
  BY <1>1, <1>2, <1>3 DEF PmmInv, TypeOK
<1>5. OwnershipExact'
  BY <1>2 DEF PmmInv, OwnershipExact, Reserved, BlockOf
<1>6. HeldAreFrames'
  <2>1. Searched' = Searched
    BY DEF Searched
  <2>2. \A m \in machine : b \notin Reserved(m)
    BY <1>1 DEF PmmInv, OwnershipExact
  <2>3. \A m : Reserved(m)' = Reserved(m)
    BY DEF Reserved, TotalBlocks, KernelEndBlock
  <2> QED BY <1>1, <2>1, <2>2, <2>3 DEF PmmInv, HeldAreFrames
<1>7. TotalExact'
  <2>1. machine # {}
    BY <1>1 DEF PmmInv, TotalExact, Managed
  <2> QED BY <2>1 DEF PmmInv, TotalExact, TotalBlocks
<1> QED BY <1>3, <1>4, <1>5, <1>6, <1>7 DEF PmmInv

LEMMA NoFrameLeftPreserves ==
  ASSUME PmmInv, NoFrameLeft
  PROVE  PmmInv'
<1>1. 0 \in 0 .. AddressSpace - 1
  <2>1. MaxBlocks \in Nat \ {0} /\ BlockSize \in Nat \ {0}
    BY PmmAssumption
  <2> QED BY <2>1, Z3 DEF AddressSpace
<1>2. UNCHANGED <<total, used, bitmap, machine, held>> /\ ret' = 0
  BY DEF NoFrameLeft
<1> QED
  BY <1>1, <1>2 DEF PmmInv, TypeOK, TotalExact, OwnershipExact, HeldAreFrames,
     UsedExact, Managed, Searched, Reserved, BlockOf

LEMMA FreeFramePreserves ==
  ASSUME PmmInv, NEW addr \in held, pmm_free_frame(addr)
  PROVE  PmmInv'
<1> DEFINE b == BlockOf(addr)
<1>1. machine # {} /\ UNCHANGED <<total, machine, ret>> /\ held' = held \ {addr}
  BY DEF PmmInv, TotalExact, pmm_free_frame
<1>2. PICK c \in Searched :
        /\ addr = c * BlockSize
        /\ \A m \in machine : c \notin Reserved(m)
  BY DEF PmmInv, HeldAreFrames
<1>3. c \in Managed /\ c \in Blocks /\ b = c
  BY <1>2, SearchedAreManaged, FrameAddress DEF PmmInv, TypeOK
<1>4. b \in bitmap
  BY <1>1 DEF PmmInv, OwnershipExact
<1>5. bitmap' = bitmap \ {b} /\ used' = IF used > 0 THEN used - 1 ELSE used
  BY <1>3, <1>4 DEF pmm_free_frame, ClearFrame
<1> HIDE DEF b
<1>6. UsedExact' /\ used' \in 0 .. MaxBlocks
  <2>1. bitmap' \cap Managed' = (bitmap \cap Managed) \ {b}
    BY <1>1, <1>5 DEF Managed
  <2>2. b \in bitmap \cap Managed /\ IsFiniteSet(bitmap \cap Managed)
    BY <1>3, <1>4, CountFits DEF PmmInv, TypeOK
  <2>3. Cardinality(bitmap' \cap Managed') = Cardinality(bitmap \cap Managed) - 1
    BY <2>1, <2>2, FS_RemoveElement
  <2>4. Cardinality(bitmap \cap Managed) \in 0 .. MaxBlocks
        /\ Cardinality(bitmap \cap Managed) # 0
    BY <2>2, CountFits, FS_EmptySet DEF PmmInv, TypeOK
  <2>5. used = Cardinality(bitmap \cap Managed) /\ MaxBlocks \in Nat
    BY PmmAssumption DEF PmmInv, UsedExact
  <2>6. used' = used - 1
    BY <1>5, <2>4, <2>5
  <2> QED BY <2>3, <2>4, <2>5, <2>6 DEF UsedExact
<1>7. TypeOK'
  BY <1>1, <1>5, <1>6 DEF PmmInv, TypeOK
<1>8. \A m : Reserved(m)' = Reserved(m)
  BY DEF Reserved, TotalBlocks, KernelEndBlock
<1>9. OwnershipExact'
  <2>1. ASSUME NEW f \in held, BlockOf(f) = b
        PROVE  f = addr
    <3>1. PICK d \in Searched : f = d * BlockSize
      BY DEF PmmInv, HeldAreFrames
    <3>2. BlockOf(f) = d
      BY <3>1, SearchedAreManaged, FrameAddress DEF PmmInv, TypeOK
    <3> QED BY <1>2, <1>3, <2>1, <3>1, <3>2
  <2>2. {BlockOf(f) : f \in held'} = {BlockOf(f) : f \in held} \ {b}
    BY <1>1, <2>1 DEF b
  <2>3. \A m \in machine : b \notin Reserved(m)
    BY <1>2, <1>3
  <2>4. \A m \in machine : bitmap = Reserved(m) \cup {BlockOf(f) : f \in held}
    BY DEF PmmInv, OwnershipExact
  <2>5. \A m \in machine : bitmap' = Reserved(m) \cup {BlockOf(f) : f \in held'}
    BY <1>5, <2>2, <2>3, <2>4
  <2> QED BY <1>1, <1>8, <2>5 DEF OwnershipExact, BlockOf
<1>10. HeldAreFrames'
  BY <1>1, <1>8 DEF PmmInv, HeldAreFrames, Searched
<1>11. TotalExact'
  BY <1>1 DEF PmmInv, TotalExact, TotalBlocks
<1> QED BY <1>6, <1>7, <1>9, <1>10, <1>11 DEF PmmInv

LEMMA NextPreserves == PmmInv /\ [Next]_vars => PmmInv'
<1> SUFFICES ASSUME PmmInv, [Next]_vars PROVE PmmInv'
  OBVIOUS
<1>1. CASE \E m \in Machines : pmm_init(m)
  BY <1>1, InitCallPreserves
<1>2. CASE pmm_alloc_frame
  BY <1>2, TakeFramePreserves, NoFrameLeftPreserves DEF pmm_alloc_frame
<1>3. CASE \E addr \in held : pmm_free_frame(addr)
  BY <1>3, FreeFramePreserves
<1>4. CASE UNCHANGED vars
  BY <1>4 DEF vars, PmmInv, TypeOK, TotalExact, OwnershipExact, HeldAreFrames,
     UsedExact, Managed, Searched, Reserved, BlockOf
<1> QED BY <1>1, <1>2, <1>3, <1>4 DEF Next

(* PmmInv holds in every state pmm.c can be in, on every machine. *)
THEOREM Invariance == Spec => []PmmInv
<1>1. Init => PmmInv
  BY InitEstablishes
<1>2. PmmInv /\ [Next]_vars => PmmInv'
  BY NextPreserves
<1> QED BY <1>1, <1>2, PTL DEF Spec
-----------------------------------------------------------------------------
(* The variables always hold values of their types; in particular the      *)
(* counter of occupied frames never overflows nor goes below zero.         *)
THEOREM TypeCorrect == Spec => []TypeOK
<1>1. PmmInv => TypeOK
  BY DEF PmmInv
<1> QED BY <1>1, Invariance, PTL

(* The bits that are 1 are always those of the reserved frames and of the  *)
(* frames in clients' hands: no leak, and no frame free while it is held.  *)
THEOREM Ownership == Spec => []OwnershipExact
<1>1. PmmInv => OwnershipExact
  BY DEF PmmInv
<1> QED BY <1>1, Invariance, PTL

(* Every frame a client holds is aligned, inside RAM, above the first      *)
(* megabyte and above the kernel image.                                    *)
THEOREM GrantsUsable == Spec => []GrantedFramesUsable
<1>1. ASSUME PmmInv, NEW f \in held, NEW m \in machine
      PROVE  /\ f % BlockSize = 0
             /\ f >= LowBlocks * BlockSize
             /\ f >= m.kernelEnd
             /\ f + BlockSize <= m.memKb * KbBytes
  <2>1. PICK b \in Searched : f = b * BlockSize /\ b \notin Reserved(m)
    BY <1>1 DEF PmmInv, HeldAreFrames
  <2>2. b \in Blocks /\ total = TotalBlocks(m.memKb) /\ m \in Machines
    BY <1>1, <2>1, SearchedAreManaged DEF PmmInv, TypeOK, TotalExact
  <2>3. /\ m.memKb \in Nat /\ m.kernelEnd \in Nat
        /\ m.kernelEnd <= AddressSpace - BlockSize
        /\ LowBlocks \in Nat /\ BlockSize \in Nat \ {0} /\ MaxBlocks \in Nat
        /\ KbBytes \in Nat
    <3>1. LowBlocks \in Nat /\ BlockSize \in Nat \ {0} /\ MaxBlocks \in Nat
          /\ KbBytes \in Nat
      BY PmmAssumption
    <3>2. AddressSpace \in Nat
      BY <3>1 DEF AddressSpace
    <3> QED BY <2>2, <3>1, <3>2, PmmAssumption
  <2>4. b \in Nat /\ b + 1 \in Nat /\ b * BlockSize + BlockSize = (b + 1) * BlockSize
    BY <2>2, <2>3, FrameAddress DEF Blocks
  <2>5. f % BlockSize = 0
    BY <2>1, <2>3, <2>4, DivideProduct
  <2>6. /\ KernelEndBlock(m.kernelEnd) \in Nat
        /\ m.kernelEnd <= KernelEndBlock(m.kernelEnd) * BlockSize
        /\ KernelEndBlock(m.kernelEnd) * BlockSize \in Nat
        /\ b >= LowBlocks
        /\ b >= KernelEndBlock(m.kernelEnd)
        /\ b < TotalBlocks(m.memKb)
    <3>1. /\ KernelEndBlock(m.kernelEnd) \in Nat
          /\ m.kernelEnd <= KernelEndBlock(m.kernelEnd) * BlockSize
          /\ TotalBlocks(m.memKb) \in Nat
      BY <2>2, <2>3, KernelEndRoundsUp, ManagedFramesExist, PmmAssumption
    <3>2. ~(b >= TotalBlocks(m.memKb)) /\ ~(b < LowBlocks)
          /\ ~(b < KernelEndBlock(m.kernelEnd))
      BY <2>1, <2>2 DEF Reserved
    <3>3. KernelEndBlock(m.kernelEnd) * BlockSize \in Nat
      BY <2>3, <3>1
    <3> QED BY <2>3, <2>4, <3>1, <3>2, <3>3
  <2>7. f >= LowBlocks * BlockSize
    BY <2>1, <2>3, <2>4, <2>6, MultiplyMonotone
  <2>8. f >= m.kernelEnd
    <3>1. KernelEndBlock(m.kernelEnd) * BlockSize <= b * BlockSize
      BY <2>3, <2>4, <2>6, MultiplyMonotone
    <3> QED BY <2>1, <2>3, <2>4, <2>6, <3>1
  <2>9. f + BlockSize <= m.memKb * KbBytes
    <3>1. TotalBlocks(m.memKb) \in Nat
          /\ TotalBlocks(m.memKb) * BlockSize <= m.memKb * KbBytes
      BY <2>3, ManagedFramesExist
    <3>2. (b + 1) * BlockSize <= TotalBlocks(m.memKb) * BlockSize
      BY <2>3, <2>4, <2>6, <3>1, MultiplyMonotone
    <3> QED BY <2>1, <2>3, <2>4, <3>1, <3>2
  <2> QED BY <2>5, <2>7, <2>8, <2>9
<1>2. PmmInv => GrantedFramesUsable
  BY <1>1 DEF GrantedFramesUsable
<1> QED BY <1>2, Invariance, PTL

(* pmm_get_free_frame_count always is the number of managed frames whose   *)
(* bit is zero.                                                            *)
THEOREM FreeCount == Spec => []FreeCountExact
<1>1. ASSUME PmmInv PROVE FreeCountExact
  <2> DEFINE taken == bitmap \cap Managed
             free == Managed \ bitmap
  <2>1. /\ IsFiniteSet(taken) /\ Cardinality(taken) <= total
        /\ IsFiniteSet(Managed) /\ Cardinality(Managed) = total
        /\ Cardinality(taken) \in Nat /\ total \in Nat
    BY <1>1, CountFits, FS_CardinalityType DEF PmmInv, TypeOK
  <2>2. IsFiniteSet(free) /\ Cardinality(free) \in Nat
    BY <2>1, FS_Subset, FS_CardinalityType
  <2>3. Managed = taken \cup free /\ taken \cap free = {}
    OBVIOUS
  <2>4. total = Cardinality(taken) + Cardinality(free)
    <3>1. Cardinality(taken \cap free) = 0
      BY <2>3, FS_EmptySet
    <3> HIDE DEF taken, free
    <3>2. Cardinality(taken \cup free)
            = Cardinality(taken) + Cardinality(free) - Cardinality(taken \cap free)
      BY <2>1, <2>2, FS_Union
    <3> QED BY <2>1, <2>2, <2>3, <3>1, <3>2
  <2>5. used = Cardinality(taken)
    BY <1>1 DEF PmmInv, UsedExact
  <2> HIDE DEF taken
  <2> QED BY <2>1, <2>2, <2>4, <2>5 DEF FreeCountExact, pmm_get_free_frame_count
<1>2. PmmInv => FreeCountExact
  BY <1>1
<1> QED BY <1>2, Invariance, PTL

(* pmm_alloc_frame never returns a frame that a client still holds. *)
THEOREM AllocFresh == Spec => AllocReturnsFreshFrame
<1>1. ASSUME PmmInv, TakeFrame PROVE ret' \notin held
  <2>1. PICK b \in FreeBits : ret' = b * BlockSize
    BY <1>1 DEF TakeFrame
  <2>2. b \in Blocks /\ b \notin bitmap /\ machine # {}
    BY <1>1, <2>1, SearchedAreManaged DEF FreeBits, PmmInv, TypeOK, TotalExact, Managed
  <2>3. BlockOf(ret') = b
    BY <2>1, <2>2, FrameAddress
  <2> QED BY <1>1, <2>2, <2>3 DEF PmmInv, OwnershipExact
<1>2. ASSUME PmmInv, NoFrameLeft PROVE ret' \notin held
  <2>1. ASSUME 0 \in held PROVE FALSE
    <3>1. PICK b \in Searched : 0 = b * BlockSize /\ \A m \in machine : b \notin Reserved(m)
      BY <1>2, <2>1 DEF PmmInv, HeldAreFrames
    <3>2. b \in Blocks /\ b \in Nat /\ BlockSize \in Nat \ {0} /\ LowBlocks \in Nat \ {0}
      BY <1>2, SearchedAreManaged, PmmAssumption DEF PmmInv, TypeOK, Blocks
    <3>3. b = 0
      BY <3>1, <3>2, DivideProduct, Z3
    <3>4. PICK m \in machine : TRUE
      BY <1>2, <2>1 DEF PmmInv, TotalExact
    <3> QED BY <3>1, <3>2, <3>3, <3>4 DEF Reserved
  <2> QED BY <1>2, <2>1 DEF NoFrameLeft
<1>3. PmmInv /\ [Next]_vars => [pmm_alloc_frame => ret' \notin held]_vars
  BY <1>1, <1>2 DEF pmm_alloc_frame
<1> QED BY <1>3, Invariance, PTL DEF Spec, AllocReturnsFreshFrame

(* A refusal leaves fewer frames unused than a word has bits: what is free *)
(* then lies behind the last whole word.                                   *)
THEOREM RefusedLate == Spec => RefusedOnlyWhenFewLeft
<1>1. ASSUME PmmInv, FreeCountExact, NoFrameLeft PROVE pmm_get_free_frame_count < WordBits
  <2> DEFINE whole == (total \div WordBits) * WordBits
             rest == whole .. total - 1
  <2>1. total \in Nat /\ WordBits \in Nat \ {0}
    BY <1>1, PmmAssumption DEF PmmInv, TypeOK
  <2>2. total \div WordBits \in Nat /\ whole <= total /\ total < whole + WordBits
    BY <2>1, DivideBounds
  <2>3. whole \in Nat
    BY <2>1, <2>2
  <2>4. Managed \ bitmap \subseteq rest
    BY <1>1, <2>1, <2>3 DEF NoFrameLeft, FreeBits, Searched, Managed
  <2> HIDE DEF whole
  <2>5. IsFiniteSet(rest) /\ Cardinality(rest) < WordBits /\ Cardinality(rest) \in Nat
    <3>1. whole \in Int /\ total - 1 \in Int
      BY <2>1, <2>3
    <3>2. IsFiniteSet(rest) /\ Cardinality(rest) = IF whole > total - 1 THEN 0 ELSE total - 1 - whole + 1
      BY <3>1, FS_Interval
    <3> HIDE DEF rest
    <3> QED BY <2>1, <2>2, <2>3, <3>2
  <2>6. Cardinality(Managed \ bitmap) <= Cardinality(rest) /\ Cardinality(Managed \ bitmap) \in Nat
    BY <2>4, <2>5, FS_Subset, FS_CardinalityType
  <2> QED BY <1>1, <2>1, <2>5, <2>6 DEF FreeCountExact
<1>2. PmmInv /\ FreeCountExact /\ [Next]_vars => [NoFrameLeft => pmm_get_free_frame_count < WordBits]_vars
  BY <1>1
<1> QED BY <1>2, Invariance, FreeCount, PTL DEF Spec, RefusedOnlyWhenFewLeft

(* pmm.c implements FrameAllocator: a step of pmm.c fixes the pool, takes  *)
(* a frame out of it, refuses because it is empty, puts a frame back, or   *)
(* changes nothing a client can see.                                       *)
THEOREM Implements == Spec => ImplementsFrameAllocator
<1> DEFINE pool == {b * BlockSize : b \in FreeBits}
<1>1. Init => FA!Init
  <2> SUFFICES ASSUME Init PROVE FA!Init
    OBVIOUS
  <2>1. FreeBits = {}
    <3>1. (0 \div WordBits) = 0
      BY PmmAssumption
    <3> QED BY <3>1, PmmAssumption DEF Init, FreeBits, Searched
  <2> QED BY <2>1 DEF Init, FA!Init
<1>2. ASSUME PmmInv, NEW m \in Machines, pmm_init(m) PROVE FA!Setup
  <2>1. bitmap' = Reserved(m) /\ machine = {} /\ machine' = {m} /\ UNCHANGED <<held, ret>>
    BY <1>2 DEF pmm_init
  <2>2. PmmInv'
    BY <1>2, InitCallPreserves
  <2>3. Searched' \subseteq Blocks
    <3>1. ASSUME NEW n \in 0 .. MaxBlocks
          PROVE  0 .. (n \div WordBits) * WordBits - 1 \subseteq Blocks
      <4>1. n \in Nat /\ WordBits \in Nat \ {0} /\ MaxBlocks \in Nat
        BY PmmAssumption
      <4>2. (n \div WordBits) * WordBits <= n /\ n \div WordBits \in Nat
        BY <4>1, DivideBounds
      <4>3. (n \div WordBits) * WordBits \in Nat
        BY <4>1, <4>2
      <4> QED BY <4>1, <4>2, <4>3 DEF Blocks
    <3> QED BY <2>2, <3>1 DEF PmmInv, TypeOK, Searched
  <2>4. 0 \in Reserved(m)
    BY PmmAssumption DEF Reserved, Blocks
  <2>5. FreeBits' \subseteq Blocks \ {0}
    BY <2>1, <2>3, <2>4 DEF FreeBits
  <2> QED BY <2>1, <2>5 DEF FA!Setup
<1>3. ASSUME PmmInv, TakeFrame PROVE FA!Grant
  <2>1. PICK b \in FreeBits :
          /\ bitmap' = bitmap \cup {b}
          /\ ret' = b * BlockSize
          /\ held' = held \cup {ret'}
          /\ UNCHANGED <<total, machine>>
    BY <1>3 DEF TakeFrame
  <2>2. FreeBits' = FreeBits \ {b}
    BY <2>1 DEF FreeBits, Searched
  <2>3. \A c \in FreeBits : BlockOf(c * BlockSize) = c
    BY <1>3, SearchedAreManaged, FrameAddress DEF PmmInv, TypeOK, FreeBits
  <2>4. pool' = pool \ {b * BlockSize}
    BY <2>2, <2>3
  <2> QED BY <2>1, <2>4 DEF FA!Grant
<1>4. ASSUME NoFrameLeft PROVE FA!Refuse
  BY <1>4 DEF NoFrameLeft, FA!Refuse, FreeBits, Searched
<1>5. ASSUME PmmInv, NEW addr \in held, pmm_free_frame(addr) PROVE FA!Return
  <2>1. machine # {} /\ UNCHANGED <<total, machine, ret>> /\ held' = held \ {addr}
    BY <1>5 DEF PmmInv, TotalExact, pmm_free_frame
  <2>2. PICK c \in Searched : addr = c * BlockSize
    BY <1>5 DEF PmmInv, HeldAreFrames
  <2>3. c \in Managed /\ BlockOf(addr) = c
    BY <1>5, <2>2, SearchedAreManaged, FrameAddress DEF PmmInv, TypeOK
  <2>4. c \in bitmap
    BY <1>5, <2>1, <2>3 DEF PmmInv, OwnershipExact
  <2>5. bitmap' = bitmap \ {c}
    BY <1>5, <2>3, <2>4 DEF pmm_free_frame, ClearFrame
  <2>6. FreeBits' = FreeBits \cup {c}
    BY <2>1, <2>2, <2>5 DEF FreeBits, Searched
  <2>7. pool' = pool \cup {addr}
    BY <2>2, <2>6
  <2> QED BY <2>1, <2>7 DEF FA!Return
<1>6. ASSUME UNCHANGED vars PROVE UNCHANGED FA!vars
  BY <1>6 DEF vars, FA!vars, FreeBits, Searched
<1>7. PmmInv /\ [Next]_vars => [FA!Next]_(FA!vars)
  BY <1>2, <1>3, <1>4, <1>5, <1>6 DEF Next, pmm_alloc_frame, FA!Next
<1> QED BY <1>1, <1>7, Invariance, PTL DEF Spec, FA!Spec, ImplementsFrameAllocator
-----------------------------------------------------------------------------
(* kmain's use of the manager, on every machine whose first allocation     *)
(* succeeds, or that has no memory at all.  On any other kmain frees frame *)
(* 0, which it was never given: it does not look at the answer to its      *)
(* probe.                                                                  *)

(* A frame that is managed, in a whole word, and not reserved. *)
Roomy(m) ==
  \/ TotalBlocks(m.memKb) = 0
  \/ \E b \in 0 .. (TotalBlocks(m.memKb) \div WordBits) * WordBits - 1 : b \notin Reserved(m)

(* What kmain has in its hands at each step. *)
ProbeHeld ==
  /\ pc \in {"pmm", "probe", "unprobe", "heap", "up"}
  /\ pc = "pmm" => machine = {}
  /\ pc \in {"probe", "unprobe"} => machine # {}
  /\ pc \in {"pmm", "probe", "heap"} => held = {}
  /\ pc = "unprobe" => \/ held = {testFrame}
                       \/ held = {} /\ total = 0 /\ testFrame = 0

ProbeInv == PmmInv /\ ProbeHeld

(* Every step of kmain is one of the manager's, and keeps the invariant. *)
LEMMA KmainStep ==
  ASSUME \A m \in Machines : Roomy(m), ProbeInv, [BootNext]_bootVars
  PROVE  [Next]_vars /\ ProbeInv'
<1> USE DEF ProbeInv
<1>1. CASE NoMemoryInfo
  <2>1. UNCHANGED vars /\ pc = "pmm" /\ pc' = "heap"
    BY <1>1 DEF NoMemoryInfo
  <2> QED BY <2>1, NextPreserves DEF ProbeHeld, vars
<1>2. CASE InitPmm
  <2>1. PICK m \in Machines : pmm_init(m)
    BY <1>2 DEF InitPmm
  <2>2. Next /\ PmmInv'
    BY <2>1, NextPreserves DEF Next
  <2>3. ProbeHeld'
    BY <1>2, <2>1 DEF InitPmm, ProbeHeld, pmm_init
  <2> QED BY <2>2, <2>3
<1>3. CASE Probe
  <2>1. pc = "probe" /\ pc' = "unprobe" /\ testFrame' = ret' /\ held = {} /\ machine # {} /\ machine' = machine
    BY <1>3 DEF Probe, ProbeHeld, pmm_alloc_frame, TakeFrame, NoFrameLeft
  <2>2. Next /\ PmmInv'
    BY <1>3, NextPreserves DEF Probe, Next
  <2>3. PICK m \in Machines : machine = {m}
    BY <2>1 DEF PmmInv, TypeOK
  <2>4. total = TotalBlocks(m.memKb) /\ bitmap = Reserved(m)
    BY <2>1, <2>3 DEF PmmInv, TotalExact, OwnershipExact
  <2>5. total = 0 \/ FreeBits # {}
    BY <2>4 DEF Roomy, FreeBits, Searched
  <2>6. CASE TakeFrame
    BY <2>1, <2>2, <2>6 DEF TakeFrame, ProbeHeld
  <2>7. CASE NoFrameLeft
    BY <2>1, <2>2, <2>5, <2>7 DEF NoFrameLeft, ProbeHeld
  <2> QED BY <1>3, <2>6, <2>7 DEF Probe, pmm_alloc_frame
<1>4. CASE Unprobe
  <2>1. pc = "unprobe" /\ pc' = "heap" /\ pmm_free_frame(testFrame) /\ machine # {} /\ machine' = machine
    BY <1>4 DEF Unprobe, ProbeHeld, pmm_free_frame
  <2>2. CASE held = {testFrame}
    <3>1. Next /\ held' = {}
      BY <2>1, <2>2 DEF Next, pmm_free_frame
    <3> QED BY <2>1, <3>1, NextPreserves DEF ProbeHeld
  <2>3. CASE held = {} /\ total = 0 /\ testFrame = 0
    <3>1. Managed = {}
      BY <2>3 DEF Managed
    <3>2. UNCHANGED vars
      BY <2>1, <2>3, <3>1 DEF pmm_free_frame, vars
    <3> QED BY <2>1, <2>3, <3>2, NextPreserves DEF ProbeHeld, vars
  <2> QED BY <2>1, <2>2, <2>3 DEF ProbeHeld
<1>5. CASE StartHeap
  <2>1. UNCHANGED vars /\ pc' = "up"
    BY <1>5 DEF StartHeap
  <2> QED BY <2>1, NextPreserves DEF ProbeHeld
<1>6. CASE Serve
  <2>1. Next /\ pc' = "up"
    BY <1>6 DEF Serve, Next
  <2> QED BY <2>1, NextPreserves DEF ProbeHeld
<1>7. CASE UNCHANGED bootVars
  <2>1. UNCHANGED vars /\ UNCHANGED <<pc, testFrame>>
    BY <1>7 DEF bootVars
  <2> QED BY <2>1, NextPreserves DEF ProbeHeld, vars
<1> QED BY <1>1, <1>2, <1>3, <1>4, <1>5, <1>6, <1>7 DEF BootNext

(* The invariant of the manager holds while the kernel boots. *)
THEOREM ProbeInvariance ==
  ASSUME \A m \in Machines : Roomy(m) PROVE BootSpec => []ProbeInv
<1>1. BootInit => ProbeInv
  <2> SUFFICES ASSUME BootInit PROVE ProbeInv
    OBVIOUS
  <2> QED BY InitEstablishes DEF BootInit, Init, ProbeInv, ProbeHeld
<1>2. ProbeInv /\ [BootNext]_bootVars => ProbeInv'
  BY KmainStep
<1> QED BY <1>1, <1>2, PTL DEF BootSpec

(* kmain's probe takes nothing and leaves nothing, on a machine with a     *)
(* free frame.                                                             *)
THEOREM ProbeNeutral ==
  ASSUME \A m \in Machines : Roomy(m) PROVE BootSpec => []ProbeIsNeutral
<1>1. ProbeInv => ProbeIsNeutral
  BY DEF ProbeInv, ProbeHeld, ProbeIsNeutral, PmmInv, OwnershipExact
<1> QED BY <1>1, ProbeInvariance, PTL

(* On such a machine kmain keeps the manager's contract: its behaviours    *)
(* are the manager's, and the theorems of PmmProofs hold of it.            *)
THEOREM ContractKept ==
  ASSUME \A m \in Machines : Roomy(m) PROVE BootSpec => KmainKeepsContract
<1>1. BootInit => Init
  BY DEF BootInit
<1>2. ProbeInv /\ [BootNext]_bootVars => [Next]_vars
  BY KmainStep
<1> QED BY <1>1, <1>2, ProbeInvariance, PTL DEF BootSpec, Spec, KmainKeepsContract
=============================================================================
