---------------------------- MODULE MCBootMemory ----------------------------
(***************************************************************************)
(* Small instances of BootMemory and of Pmm in it: an address space of 16  *)
(* frames of 8 bytes, bitmap words of 4 bits, a "first megabyte" of 2      *)
(* frames and a "kilobyte" of 2 bytes.  The machines differ in what        *)
(* decides the code's control flow: whether the managed frames fill whole  *)
(* words, whether the kernel ends on a page boundary, whether the size in  *)
(* bytes wraps.  They have a free frame when the kernel is loaded, or no   *)
(* managed frame at all.                                                   *)
(***************************************************************************)
EXTENDS BootMemory

MCRoomy ==
  { [memKb |-> 48, kernelEnd |-> 25],    \* 12 frames, kernel ends inside a page
    [memKb |-> 43, kernelEnd |-> 24],    \* 10 frames, 2 of them in no whole word
    [memKb |-> 34, kernelEnd |-> 32],    \* 8 frames and half a frame
    [memKb |-> 64, kernelEnd |-> 24],    \* so much that its size in bytes wraps to 0
    [memKb |-> 102, kernelEnd |-> 24] }  \* more: it wraps to 9 frames, one in no whole word
=============================================================================
