---------------------------- MODULE Descriptors -----------------------------
(***************************************************************************)
(* Segment descriptors: the eight bytes gdt.c makes of a segment, and what *)
(* the processor reads in them.  The functions are the same in gdt.c and   *)
(* in KernelSO-main/gdt.c.                                                 *)
(***************************************************************************)
EXTENDS Naturals

(* The bit of that weight is 1. *)
Bit(n, weight) == (n \div weight) % 2 = 1

(* Mutant: the limit's upper four bits are left out. *)
gdt_set_gateLow(base, limit, access, gran) ==
  [base_low |-> base % 65536, base_middle |-> (base \div 65536) % 256,
   base_high |-> (base \div 16777216) % 256,
   limit_low |-> limit % 65536,
   granularity |-> 16 * (gran \div 16),
   access |-> access]

gdt_set_gate(base, limit, access, gran) ==
  [base_low |-> base % 65536, base_middle |-> (base \div 65536) % 256,
   base_high |-> (base \div 16777216) % 256,
   limit_low |-> limit % 65536,
   granularity |-> ((limit \div 65536) % 16) + (16 * (gran \div 16)),
   access |-> access]

(* The processor. *)
Base(e) == e.base_low + 65536 * e.base_middle + 16777216 * e.base_high
Limit(e) == e.limit_low + 65536 * (e.granularity % 16)
Dpl(e) == (e.access \div 32) % 4
IsSegment(e) == Bit(e.access, 128) /\ Bit(e.access, 16)   \* present, and no system descriptor
IsCode(e) == IsSegment(e) /\ Bit(e.access, 8)
IsWritableData(e) == IsSegment(e) /\ ~Bit(e.access, 8) /\ Bit(e.access, 2)

(* It covers the 4 GB, in units of 4 KB, and is a 32-bit segment. *)
IsFlat(e) == Base(e) = 0 /\ Limit(e) = 1048575 /\ Bit(e.granularity, 128) /\ Bit(e.granularity, 64)

(* The entry a selector names; the table's limit is one less than its size. *)
Entry(table, selector) == table[selector \div 8]
InTable(table, selector) == selector \div 8 \in DOMAIN table

(* What a far transfer to privilege level cpl needs of CS, and of SS.      *)
CodeFor(table, selector, cpl) ==
  /\ InTable(table, selector)
  /\ LET e == Entry(table, selector) IN IsCode(e) /\ IsFlat(e) /\ Dpl(e) = cpl
  /\ selector % 4 = cpl
DataFor(table, selector, cpl) ==
  /\ InTable(table, selector)
  /\ LET e == Entry(table, selector) IN IsWritableData(e) /\ IsFlat(e) /\ Dpl(e) = cpl
  /\ selector % 4 = cpl
=============================================================================
