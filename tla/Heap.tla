-------------------------------- MODULE Heap --------------------------------
(***************************************************************************)
(* The kernel heap of heap.c, the storage allocator of Kernighan and       *)
(* Ritchie on a fixed region: free blocks form a circular list in address  *)
(* order that starts at the static block "base"; kmalloc takes the first   *)
(* block that fits after freep, kfree puts a block back in its place and   *)
(* merges it with free neighbours.                                         *)
(*                                                                         *)
(* Addresses and sizes are in units of one header (8 bytes).  A header is  *)
(* the pair nxt[a], size[a].  The words of a header that heap.c no longer  *)
(* reads before it writes them again (a client's block has no next, the    *)
(* inside of a block no header) belong to whoever writes there: nxt is     *)
(* Stale and size 0 in these places, so that the model does not tell apart *)
(* states that the code cannot.                                            *)
(*                                                                         *)
(* One step is one turn of a search loop.  The heap is not used by an      *)
(* interrupt handler, so that calls do not overlap.  Clients keep heap.h's *)
(* contract: they free, once, what kmalloc gave them, and write only there.*)
(***************************************************************************)
EXTENDS Integers

CONSTANTS
  Base,          \* address of the variable base, in .bss below the heap
  HeapStart,     \* HEAP_START_VADDR
  HeapUnits,     \* HEAP_INITIAL_SIZE / sizeof(header_t)
  HeaderBytes,   \* sizeof(header_t) (8)
  SizeMod,       \* size_t arithmetic is modulo this (2^32)
  Requests,      \* sizes, in bytes, that clients ask for
  Stale          \* what a word that heap.c has given up holds

NULL == 0

HeapEnd == HeapStart + HeapUnits

HeapAddr == HeapStart .. HeapEnd - 1

Addr == {Base} \cup HeapAddr

ASSUME HeapAssumption ==
  /\ Base \in Nat \ {NULL}
  /\ HeapStart \in Nat
  /\ Base < HeapStart
  /\ HeapUnits \in Nat \ {0}
  /\ HeaderBytes \in Nat \ {0}
  /\ SizeMod \in Nat \ {0}
  /\ Requests \subseteq 0 .. SizeMod - 1
  /\ Stale \notin Int

VARIABLES
  nxt,      \* header->next
  size,     \* header->size
  freep,    \* where the next search starts
  pc,       \* "idle", or the function whose loop is running
  bytes, nunits, prevp, p,   \* kmalloc's parameter and local variables
  bp,       \* kfree's local variable (its p is p)
  asked,    \* bytes the client of a block asked for, 0 for other addresses
  ret       \* what the last kmalloc returned

locals == <<bytes, nunits, prevp, p, bp>>
vars == <<nxt, size, freep, pc, locals, asked, ret>>

FreeList == {a \in Addr : nxt[a] # Stale}

Allocated == {a \in Addr : asked[a] > 0}

(* The local variables die when a function returns. *)
Return ==
  /\ pc' = "idle"
  /\ bytes' = 0 /\ nunits' = 0
  /\ prevp' = NULL /\ p' = NULL /\ bp' = NULL
-----------------------------------------------------------------------------
(* heap_init *)

SetUpList ==
  /\ nxt' = [nxt EXCEPT ![Base] = HeapStart, ![HeapStart] = Base]
  /\ size' = [size EXCEPT ![Base] = 0, ![HeapStart] = HeapUnits]
  /\ freep' = Base

(* kmain calls it once, before any other use of the heap. *)
heap_init ==
  /\ pc = "idle"
  /\ freep = NULL
  /\ SetUpList
  /\ UNCHANGED <<pc, locals, asked, ret>>
-----------------------------------------------------------------------------
(* kmalloc *)

(* Mutant: the bytes are not rounded up to whole units. *)
UnitsTruncated(b) == b \div HeaderBytes + 1

Units(b) == ((b + HeaderBytes - 1) % SizeMod) \div HeaderBytes + 1

KmallocZero ==
  /\ pc = "idle"
  /\ 0 \in Requests
  /\ ret' = NULL
  /\ UNCHANGED <<nxt, size, freep, pc, locals, asked>>

KmallocEnter(b) ==
  /\ pc = "idle"
  /\ b # 0
  /\ pc' = "kmalloc"
  /\ bytes' = b
  /\ nunits' = Units(b)
  /\ \/ freep = NULL /\ SetUpList
     \/ freep # NULL /\ UNCHANGED <<nxt, size, freep>>
  /\ prevp' = freep'
  /\ p' = nxt'[freep']
  /\ UNCHANGED <<bp, asked, ret>>

(* The block a goes to the client, and the function returns. *)
Give(a) ==
  /\ asked' = [asked EXCEPT ![a] = bytes]
  /\ ret' = a + 1
  /\ freep' = prevp
  /\ Return

KmallocExact ==
  /\ pc = "kmalloc"
  /\ size[p] = nunits
  /\ nxt' = [nxt EXCEPT ![prevp] = nxt[p], ![p] = Stale]
  /\ Give(p)
  /\ UNCHANGED size

(* Mutant: the client gets the head of the block, the list keeps it too. *)
KmallocSplitHead ==
  /\ pc = "kmalloc"
  /\ size[p] > nunits
  /\ LET tail == p + nunits IN
       /\ size' = [size EXCEPT ![p] = @ - nunits, ![tail] = nunits]
       /\ Give(tail)
  /\ UNCHANGED nxt

KmallocSplit ==
  /\ pc = "kmalloc"
  /\ size[p] > nunits
  /\ LET tail == p + (size[p] - nunits) IN
       /\ size' = [size EXCEPT ![p] = @ - nunits, ![tail] = nunits]
       /\ Give(tail)
  /\ UNCHANGED nxt

(* Mutant: the search ends where the list does. *)
SearchedToTheEnd == p = Base

SearchedAll == p = freep

KmallocFail ==
  /\ pc = "kmalloc"
  /\ size[p] < nunits
  /\ SearchedAll
  /\ ret' = NULL
  /\ Return
  /\ UNCHANGED <<nxt, size, freep, asked>>

KmallocNext ==
  /\ pc = "kmalloc"
  /\ size[p] < nunits
  /\ ~SearchedAll
  /\ prevp' = p
  /\ p' = nxt[p]
  /\ UNCHANGED <<nxt, size, freep, pc, bytes, nunits, bp, asked, ret>>
-----------------------------------------------------------------------------
(* kfree.  kfree(NULL) does nothing. *)

KfreeEnter(ptr) ==
  /\ pc = "idle"
  /\ pc' = "kfree"
  /\ bp' = ptr - 1
  /\ p' = freep
  /\ UNCHANGED <<nxt, size, freep, bytes, nunits, prevp, asked, ret>>

(* Mutants: the upper neighbour is not looked at; a block above all free   *)
(* blocks finds no place.                                                  *)
BetweenUnbounded == p < bp

AtEndsLow == p >= nxt[p] /\ bp < nxt[p]

Between == p < bp /\ bp < nxt[p]

AtEnds == p >= nxt[p] /\ (bp > p \/ bp < nxt[p])

KfreeWalk ==
  /\ pc = "kfree"
  /\ ~(Between \/ AtEnds)
  /\ p' = nxt[p]
  /\ UNCHANGED <<nxt, size, freep, pc, bytes, nunits, prevp, bp, asked, ret>>

JoinsNext == bp + size[bp] = nxt[p]

(* Mutant: a block is never merged with the one before it. *)
JoinsPrevNever == FALSE

JoinsPrev == p + size[p] = bp

(* The list and the sizes once bp is in, next to p. *)
KfreeLink ==
  /\ pc = "kfree"
  /\ Between \/ AtEnds
  /\ LET n      == nxt[p]
         bpNext == IF JoinsNext THEN nxt[n] ELSE n
         bpSize == IF JoinsNext THEN size[bp] + size[n] ELSE size[bp]
     IN  /\ nxt' = [a \in Addr |->
                      CASE a = n /\ JoinsNext  -> Stale
                        [] a = p               -> IF JoinsPrev THEN bpNext ELSE bp
                        [] a = bp              -> IF JoinsPrev THEN Stale ELSE bpNext
                        [] OTHER               -> nxt[a]]
         /\ size' = [a \in Addr |->
                      CASE a = n /\ JoinsNext  -> 0
                        [] a = p               -> IF JoinsPrev THEN size[p] + bpSize
                                                  ELSE size[p]
                        [] a = bp              -> IF JoinsPrev THEN 0 ELSE bpSize
                        [] OTHER               -> size[a]]
  /\ freep' = p
  /\ asked' = [asked EXCEPT ![bp] = 0]
  /\ Return
  /\ UNCHANGED ret
-----------------------------------------------------------------------------
(* Static storage is zero, the heap's memory holds anything. *)
Init ==
  /\ nxt = [a \in Addr |-> Stale]
  /\ size = [a \in Addr |-> 0]
  /\ freep = NULL
  /\ pc = "idle"
  /\ bytes = 0 /\ nunits = 0
  /\ prevp = NULL /\ p = NULL /\ bp = NULL
  /\ asked = [a \in Addr |-> 0]
  /\ ret = NULL

Loop ==
  \/ KmallocExact
  \/ KmallocSplit
  \/ KmallocFail
  \/ KmallocNext
  \/ KfreeWalk
  \/ KfreeLink

Next ==
  \/ heap_init
  \/ KmallocZero
  \/ \E b \in Requests : KmallocEnter(b)
  \/ \E a \in Allocated : KfreeEnter(a + 1)
  \/ Loop

Spec == Init /\ [][Next]_vars

(* A function that has been called goes on: nothing preempts it for good. *)
FairSpec == Spec /\ WF_vars(Loop)
-----------------------------------------------------------------------------
(* The variables hold values of their types. *)
TypeOK ==
  /\ nxt \in [Addr -> Addr \cup {Stale}]
  /\ size \in [Addr -> 0 .. HeapUnits]
  /\ freep \in Addr \cup {NULL}
  /\ pc \in {"idle", "kmalloc", "kfree"}
  /\ bytes \in 0 .. SizeMod - 1
  /\ nunits \in Nat
  /\ {prevp, p, bp} \subseteq Addr \cup {NULL}
  /\ asked \in [Addr -> 0 .. SizeMod - 1]
  /\ ret \in 0 .. HeapEnd

Blocks == (FreeList \cup Allocated) \ {Base}

Extent(a) == a .. a + size[a] - 1

(* Free blocks and clients' blocks cover the heap, each unit exactly once: *)
(* through any sequence of splits, removals and merges no unit is lost and *)
(* no two blocks overlap.                                                  *)
BlocksTileHeap ==
  freep # NULL => \A u \in HeapAddr : \E a \in Blocks :
                    /\ u \in Extent(a)
                    /\ \A b \in Blocks \ {a} : u \notin Extent(b)

(* A client's block holds, after its header, the bytes that were asked for *)
(* (heap.h, "tamanho `size` bytes").                                       *)
BlocksBigEnough ==
  \A a \in Allocated : asked[a] <= (size[a] - 1) * HeaderBytes

(* The free list is circular and in address order: from each block it goes *)
(* to the next free block above, from the highest to base.                 *)
FreeListSorted ==
  \A a \in FreeList :
    /\ nxt[a] \in FreeList
    /\ \/ nxt[a] > a /\ \A c \in FreeList : c <= a \/ c >= nxt[a]
       \/ nxt[a] = Base /\ \A c \in FreeList : c <= a

(* kfree merges: no free block begins where another ends.  Without this a  *)
(* heap that is mostly free could refuse a request that fits.              *)
FreeBlocksCoalesced ==
  \A a \in FreeList \ {Base} : a + size[a] \notin FreeList

(* When clients have given everything back the heap is one block again, as *)
(* after heap_init, whatever the order of the frees.                       *)
WholeWhenUnused ==
  Allocated = {} /\ freep # NULL => size[HeapStart] = HeapUnits

(* A call of kmalloc or kfree returns: the search around the circular list *)
(* meets freep or a block that fits, the walk of kfree finds a place.      *)
CallsReturn == pc # "idle" ~> pc = "idle"

(* heap.c implements BlockAllocator: a call that walks the list is one     *)
(* step of it, at the turn of the loop that finds a block or gives up.     *)
BA == INSTANCE BlockAllocator WITH
        First   <- HeapStart,
        End     <- HeapEnd,
        MaxWant <- SizeMod,
        ready   <- freep # NULL,
        want    <- IF pc = "kmalloc" THEN nunits ELSE 0,
        held    <- {[at |-> a, units |-> size[a]] : a \in Allocated},
        answer  <- ret

ImplementsBlockAllocator == BA!Spec
=============================================================================
