----------------------------- MODULE HeapProofs -----------------------------
(***************************************************************************)
(* Theorems about Heap, for every size of the heap and of the requests.    *)
(*                                                                         *)
(* The inductive invariant says that the list and the headers are in order *)
(* (ListInv), whichever function is running, and what the running function *)
(* has established so far (LocalsInv).  The order of the list is needed to *)
(* see that kfree links a block into its place; that place, that no free   *)
(* neighbour escapes merging; and merging, with the record of the blocks   *)
(* kmalloc has passed by, that it gives up only when no row of free units  *)
(* is long enough.                                                         *)
(***************************************************************************)
EXTENDS Heap, TLAPS

(* Before its first use the list does not exist; base is always in it, and *)
(* is no client's.                                                         *)
Anchored ==
  /\ freep = NULL => FreeList = {} /\ Allocated = {}
  /\ freep # NULL => freep \in FreeList /\ Base \in FreeList /\ size[Base] = 0
  /\ Base \notin Allocated

BlockShape == \A a \in Blocks : size[a] >= 1 /\ a + size[a] <= HeapEnd

FreeOrAllocated == FreeList \cap Allocated = {}

NoOverlap == \A a \in Blocks : \A b \in Blocks : a < b => a + size[a] <= b

Covered ==
  freep # NULL =>
    \A u \in HeapAddr : \E a \in Blocks : a <= u /\ u < a + size[a]

ListInv ==
  /\ Anchored
  /\ BlockShape
  /\ FreeOrAllocated
  /\ NoOverlap
  /\ Covered
  /\ FreeListSorted
  /\ FreeBlocksCoalesced

(* c was looked at by the search that started after freep and is past a. *)
Passed(c, a) ==
  \/ freep < c /\ c <= a
  \/ a < freep /\ (freep < c \/ c <= a)

SearchInv ==
  /\ freep # NULL
  /\ bytes \in 1 .. SizeMod - 1
  /\ nunits = Units(bytes)
  /\ prevp \in FreeList
  /\ p = nxt[prevp]
  /\ \A c \in FreeList : Passed(c, prevp) => size[c] < nunits

WalkInv ==
  /\ freep # NULL
  /\ p \in FreeList
  /\ bp \in Allocated

LocalsInv ==
  /\ pc = "kmalloc" => SearchInv
  /\ pc = "kfree" => WalkInv

HeapInv == TypeOK /\ ListInv /\ LocalsInv
-----------------------------------------------------------------------------
(* The addresses, as the solvers need them. *)
LEMMA AddrFacts ==
  /\ Base \in Nat /\ Base > 0 /\ HeapStart \in Nat /\ Base < HeapStart
  /\ HeapUnits \in Nat /\ HeapUnits > 0 /\ HeapEnd \in Nat
  /\ HeapStart \in HeapAddr /\ HeapStart \in Addr /\ Base \in Addr
  /\ \A a \in HeapAddr : a \in Addr /\ a \in Nat /\ Base < a /\ HeapStart <= a /\ a < HeapEnd
  /\ \A a \in Addr : a \in Nat /\ a > 0 /\ Base <= a /\ (a # Base => a \in HeapAddr)
  /\ Stale \notin Addr
  BY HeapAssumption DEF Addr, HeapAddr, HeapEnd, NULL

(* kmalloc always looks for at least one unit. *)
LEMMA UnitsPositive ==
  ASSUME NEW b \in Nat
  PROVE  Units(b) \in Nat \ {0}
<1>1. HeaderBytes \in Nat \ {0} /\ SizeMod \in Nat \ {0}
  BY HeapAssumption
<1>2. \A x \in Nat : \A m \in Nat \ {0} : x % m \in Nat /\ x \div m \in Nat
  BY Z3
<1>3. b + HeaderBytes - 1 \in Nat
  BY <1>1
<1>4. (b + HeaderBytes - 1) % SizeMod \in Nat
  BY <1>1, <1>2, <1>3
<1>5. ((b + HeaderBytes - 1) % SizeMod) \div HeaderBytes \in Nat
  BY <1>1, <1>2, <1>4
<1> QED BY <1>5 DEF Units

(* A request whose rounding does not wrap gets room for what it asks. *)
LEMMA UnitsEnough ==
  ASSUME NEW b \in Nat, b + HeaderBytes - 1 < SizeMod
  PROVE  b <= (Units(b) - 1) * HeaderBytes
<1>1. HeaderBytes \in Nat \ {0} /\ SizeMod \in Nat \ {0}
  BY HeapAssumption
<1>2. PICK x \in Nat : x = b + HeaderBytes - 1
  BY <1>1
<1>3. x % SizeMod = x
  BY <1>1, <1>2
<1>4. Units(b) - 1 = x \div HeaderBytes /\ x \div HeaderBytes \in Nat
  BY <1>1, <1>2, <1>3, Z3 DEF Units
<1>5. x < (x \div HeaderBytes) * HeaderBytes + HeaderBytes
  BY <1>1, Z3
<1>6. ASSUME NEW q \in Nat, x < q * HeaderBytes + HeaderBytes
      PROVE  b <= q * HeaderBytes
  BY <1>1, <1>2, <1>6
<1> QED BY <1>4, <1>5, <1>6
-----------------------------------------------------------------------------
(* heap_init *)

LEMMA SetUpMakesList ==
  ASSUME HeapInv, freep = NULL, SetUpList, UNCHANGED asked
  PROVE  /\ ListInv'
         /\ nxt' \in [Addr -> Addr \cup {Stale}]
         /\ size' \in [Addr -> 0 .. HeapUnits]
         /\ freep' = Base
         /\ FreeList' = {Base, HeapStart}
         /\ nxt'[Base] = HeapStart
<1> USE AddrFacts
<1>1. /\ nxt \in [Addr -> Addr \cup {Stale}] /\ size \in [Addr -> 0 .. HeapUnits]
      /\ FreeList = {} /\ Allocated = {} /\ freep' = Base
  BY DEF HeapInv, TypeOK, ListInv, Anchored, SetUpList
<1>2. /\ nxt' \in [Addr -> Addr \cup {Stale}] /\ size' \in [Addr -> 0 .. HeapUnits]
  BY <1>1 DEF SetUpList
<1>3. /\ nxt'[Base] = HeapStart /\ nxt'[HeapStart] = Base
      /\ size'[Base] = 0 /\ size'[HeapStart] = HeapUnits
      /\ \A a \in Addr : a \notin {Base, HeapStart} => nxt'[a] = Stale
  BY <1>1 DEF SetUpList, FreeList
<1>4. FreeList' = {Base, HeapStart} /\ Allocated' = {} /\ Blocks' = {HeapStart}
  <2>1. \A a \in Addr : nxt'[a] # Stale <=> a \in {Base, HeapStart}
    BY <1>3
  <2>2. FreeList' = {Base, HeapStart}
    BY <2>1 DEF FreeList
  <2>3. Allocated' = {}
    BY <1>1 DEF Allocated
  <2> QED BY <2>2, <2>3 DEF Blocks
<1>5. Anchored' /\ FreeOrAllocated'
  BY <1>1, <1>3, <1>4 DEF Anchored, FreeOrAllocated, NULL
<1>6. BlockShape' /\ NoOverlap' /\ Covered'
  BY <1>3, <1>4 DEF BlockShape, NoOverlap, Covered, HeapEnd, HeapAddr
<1>7. FreeListSorted'
  BY <1>3, <1>4 DEF FreeListSorted
<1>8. FreeBlocksCoalesced'
  BY <1>3, <1>4 DEF FreeBlocksCoalesced
<1> QED BY <1>1, <1>2, <1>3, <1>4, <1>5, <1>6, <1>7, <1>8 DEF ListInv

LEMMA InitEstablishes == Init => HeapInv
<1> SUFFICES ASSUME Init PROVE HeapInv
  OBVIOUS
<1> USE AddrFacts
<1>1. TypeOK
  BY HeapAssumption DEF Init, TypeOK, NULL
<1>2. FreeList = {} /\ Allocated = {} /\ Blocks = {}
  BY DEF Init, FreeList, Allocated, Blocks
<1>3. ListInv
  BY <1>2 DEF Init, ListInv, Anchored, BlockShape, FreeOrAllocated, NoOverlap,
     Covered, FreeListSorted, FreeBlocksCoalesced
<1> QED BY <1>1, <1>3 DEF Init, HeapInv, LocalsInv

(* Steps that leave the list and the headers alone. *)
LEMMA ListUnchanged ==
  ASSUME ListInv, UNCHANGED <<nxt, size, freep, asked>>
  PROVE  /\ ListInv'
         /\ FreeList' = FreeList
         /\ Allocated' = Allocated
  BY DEF ListInv, Anchored, BlockShape, FreeOrAllocated, NoOverlap, Covered,
     FreeListSorted, FreeBlocksCoalesced, FreeList, Allocated, Blocks

LEMMA HeapInitPreserves ==
  ASSUME HeapInv, heap_init
  PROVE  HeapInv'
  BY SetUpMakesList, AddrFacts DEF heap_init, locals, HeapInv, TypeOK, LocalsInv

LEMMA KmallocZeroPreserves ==
  ASSUME HeapInv, KmallocZero
  PROVE  HeapInv'
  BY ListUnchanged, AddrFacts DEF KmallocZero, locals, HeapInv, TypeOK, LocalsInv, NULL

LEMMA KmallocEnterPreserves ==
  ASSUME HeapInv, NEW b \in Requests, KmallocEnter(b)
  PROVE  HeapInv'
<1> USE AddrFacts
<1>1. b \in 1 .. SizeMod - 1 /\ Units(b) \in Nat /\ b \in 0 .. SizeMod - 1
  BY HeapAssumption, UnitsPositive DEF KmallocEnter
<1>2. /\ pc' = "kmalloc" /\ bytes' = b /\ nunits' = Units(b)
      /\ prevp' = freep' /\ p' = nxt'[freep']
      /\ UNCHANGED <<bp, asked, ret>>
  BY DEF KmallocEnter
<1>3. /\ ListInv' /\ freep' # NULL
      /\ nxt' \in [Addr -> Addr \cup {Stale}]
      /\ size' \in [Addr -> 0 .. HeapUnits]
      /\ freep' \in Addr
  <2>1. CASE freep = NULL /\ SetUpList
    BY <1>2, <2>1, SetUpMakesList DEF NULL
  <2>2. CASE freep # NULL /\ UNCHANGED <<nxt, size, freep>>
    BY <1>2, <2>2, ListUnchanged DEF HeapInv, TypeOK
  <2> QED BY <2>1, <2>2 DEF KmallocEnter
<1>4. freep' \in FreeList' /\ nxt'[freep'] \in FreeList'
  BY <1>3 DEF ListInv, Anchored, FreeListSorted
<1>5. p' \in Addr
  BY <1>2, <1>3, <1>4 DEF FreeList
<1>6. TypeOK'
  BY <1>1, <1>2, <1>3, <1>5 DEF HeapInv, TypeOK
<1>7. SearchInv'
  <2>1. \A c \in FreeList' : ~Passed(c, prevp)'
    BY <1>2, <1>3 DEF Passed, FreeList
  <2>2. Units(b)' = Units(b)
    BY DEF Units
  <2> QED BY <1>1, <1>2, <1>3, <1>4, <2>1, <2>2 DEF SearchInv, Units
<1> QED BY <1>2, <1>3, <1>6, <1>7 DEF HeapInv, LocalsInv

LEMMA KmallocFailPreserves ==
  ASSUME HeapInv, KmallocFail
  PROVE  HeapInv'
<1>1. UNCHANGED <<nxt, size, freep, asked>> /\ Return /\ ret' = NULL
  BY DEF KmallocFail
<1> QED BY <1>1, ListUnchanged, AddrFacts, HeapAssumption
        DEF Return, HeapInv, TypeOK, LocalsInv, NULL

LEMMA KmallocNextPreserves ==
  ASSUME HeapInv, KmallocNext
  PROVE  HeapInv'
<1> USE AddrFacts
<1>1. /\ SearchInv /\ ListInv /\ p # freep /\ size[p] < nunits
      /\ prevp' = p /\ p' = nxt[p]
      /\ UNCHANGED <<nxt, size, freep, pc, bytes, nunits, bp, asked, ret>>
  BY DEF HeapInv, LocalsInv, KmallocNext, SearchedAll
<1>2. ListInv' /\ FreeList' = FreeList
  BY <1>1, ListUnchanged
<1>3. p \in FreeList /\ nxt[p] \in FreeList
  BY <1>1 DEF SearchInv, ListInv, FreeListSorted
<1>4. TypeOK'
  BY <1>1, <1>3 DEF HeapInv, TypeOK, FreeList
<1>5. ASSUME NEW c \in FreeList, Passed(c, p) PROVE c = p \/ Passed(c, prevp)
  <2>1. /\ prevp \in FreeList /\ freep \in FreeList /\ Base \in FreeList
        /\ p = nxt[prevp]
    BY <1>1 DEF SearchInv, ListInv, Anchored
  <2>2. \/ p > prevp /\ (c <= prevp \/ c >= p) /\ (freep <= prevp \/ freep >= p)
        \/ p = Base /\ c <= prevp /\ freep <= prevp
    BY <1>1, <2>1 DEF ListInv, FreeListSorted
  <2>3. c \in Nat /\ p \in Nat /\ prevp \in Nat /\ freep \in Nat
        /\ Base <= c /\ Base <= freep
    BY <1>3, <2>1 DEF FreeList
  <2> QED BY <1>1, <1>5, <2>2, <2>3 DEF Passed
<1>6. SearchInv'
  BY <1>1, <1>2, <1>3, <1>5 DEF SearchInv, Passed, Units
<1> QED BY <1>1, <1>2, <1>4, <1>6 DEF HeapInv, LocalsInv, KmallocNext

LEMMA KfreeEnterPreserves ==
  ASSUME HeapInv, NEW a \in Allocated, KfreeEnter(a + 1)
  PROVE  HeapInv'
<1> USE AddrFacts
<1>1. a \in Addr /\ a \in Nat
  BY DEF Allocated
<1>2. /\ pc' = "kfree" /\ bp' = a /\ p' = freep
      /\ UNCHANGED <<nxt, size, freep, bytes, nunits, prevp, asked, ret>>
  BY <1>1 DEF KfreeEnter
<1>3. ListInv' /\ FreeList' = FreeList /\ Allocated' = Allocated
  BY <1>2, ListUnchanged DEF HeapInv
<1>4. freep # NULL /\ freep \in FreeList
  BY DEF HeapInv, ListInv, Anchored
<1>5. TypeOK'
  BY <1>1, <1>2 DEF HeapInv, TypeOK
<1> QED BY <1>2, <1>3, <1>4, <1>5 DEF HeapInv, LocalsInv, WalkInv

LEMMA KfreeWalkPreserves ==
  ASSUME HeapInv, KfreeWalk
  PROVE  HeapInv'
<1>1. /\ WalkInv /\ ListInv /\ p' = nxt[p] /\ pc = "kfree"
      /\ UNCHANGED <<nxt, size, freep, pc, bytes, nunits, prevp, bp, asked, ret>>
  BY DEF HeapInv, LocalsInv, KfreeWalk
<1>2. ListInv' /\ FreeList' = FreeList /\ Allocated' = Allocated
  BY <1>1, ListUnchanged
<1>3. nxt[p] \in FreeList
  BY <1>1 DEF WalkInv, ListInv, FreeListSorted
<1>4. TypeOK'
  BY <1>1, <1>3 DEF HeapInv, TypeOK, FreeList
<1> QED BY <1>1, <1>2, <1>3, <1>4 DEF HeapInv, LocalsInv, WalkInv
-----------------------------------------------------------------------------
(* kmalloc takes a block *)

(* What is known at the turn of the loop that finds a block. *)
LEMMA FoundBlock ==
  ASSUME HeapInv, pc = "kmalloc", size[p] >= nunits
  PROVE  /\ p \in FreeList /\ p \in HeapAddr /\ p \in Blocks /\ p # Base
         /\ p \in Nat /\ nunits \in Nat /\ nunits >= 1
         /\ size[p] \in Nat /\ p + size[p] <= HeapEnd
         /\ prevp \in FreeList /\ prevp \in Addr /\ nxt[prevp] = p /\ prevp < p
         /\ nxt[p] \in FreeList /\ nxt[p] \in Addr /\ nxt[p] # p
         /\ freep # NULL
         /\ bytes \in 1 .. SizeMod - 1
<1> USE AddrFacts
<1>1. SearchInv /\ ListInv
  BY DEF HeapInv, LocalsInv
<1>2. nunits \in Nat \ {0} /\ bytes \in 1 .. SizeMod - 1
  <2>1. bytes \in Nat /\ bytes \in 1 .. SizeMod - 1
    BY <1>1, HeapAssumption DEF SearchInv
  <2> QED BY <1>1, <2>1, UnitsPositive DEF SearchInv
<1>3. prevp \in FreeList /\ p = nxt[prevp] /\ p \in FreeList /\ nxt[p] \in FreeList
      /\ freep # NULL
  BY <1>1 DEF SearchInv, ListInv, FreeListSorted
<1>4. \A a \in FreeList : a \in Addr /\ a \in Nat
  BY DEF FreeList
<1>5. \A a \in Addr : size[a] \in Nat
  BY DEF HeapInv, TypeOK
<1>6. p # Base
  BY <1>1, <1>2, <1>3 DEF ListInv, Anchored
<1>7. p \in Blocks /\ p \in HeapAddr /\ p + size[p] <= HeapEnd
  BY <1>1, <1>3, <1>4, <1>6 DEF Blocks, ListInv, BlockShape
<1>8. prevp < p
  BY <1>1, <1>3, <1>6 DEF ListInv, FreeListSorted
<1>9. nxt[p] # p
  BY <1>1, <1>3, <1>4, <1>6 DEF ListInv, FreeListSorted
<1>10. p \in Nat /\ size[p] \in Nat /\ prevp \in Addr /\ nxt[p] \in Addr
  BY <1>3, <1>4, <1>5, <1>7
<1>11. nunits \in Nat /\ nunits >= 1
  BY <1>2
<1>12. nxt[prevp] = p
  BY <1>3
<1> QED BY <1>2, <1>3, <1>6, <1>7, <1>8, <1>9, <1>10, <1>11, <1>12

LEMMA KmallocExactPreserves ==
  ASSUME HeapInv, KmallocExact
  PROVE  HeapInv'
<1> USE AddrFacts
<1>1. /\ p \in FreeList /\ p \in Addr /\ p # Base /\ prevp \in FreeList
      /\ prevp \in Addr /\ nxt[prevp] = p /\ prevp < p
      /\ nxt[p] \in FreeList /\ nxt[p] \in Addr /\ nxt[p] # p
      /\ bytes \in 1 .. SizeMod - 1 /\ bytes > 0 /\ freep # NULL
  <2>1. pc = "kmalloc" /\ size[p] = nunits /\ nunits \in Nat
    BY DEF KmallocExact, HeapInv, TypeOK
  <2>2. size[p] >= nunits
    BY <2>1
  <2>3. p \in Addr /\ \A m \in 1 .. SizeMod - 1 : m > 0
    BY <2>1, <2>2, FoundBlock, HeapAssumption
  <2> QED BY <2>1, <2>2, <2>3, FoundBlock
<1>2. /\ nxt' = [nxt EXCEPT ![prevp] = nxt[p], ![p] = Stale]
      /\ asked' = [asked EXCEPT ![p] = bytes]
      /\ ret' = p + 1 /\ freep' = prevp /\ size' = size /\ Return
  BY DEF KmallocExact, Give
<1>3. ListInv /\ TypeOK /\ prevp # p /\ p \in Nat /\ prevp \in Nat
  BY <1>1 DEF HeapInv
<1>4. /\ nxt' \in [Addr -> Addr \cup {Stale}]
      /\ nxt'[prevp] = nxt[p] /\ nxt'[p] = Stale
      /\ \A a \in Addr : a # p /\ a # prevp => nxt'[a] = nxt[a]
      /\ asked' \in [Addr -> 0 .. SizeMod - 1]
      /\ asked'[p] > 0
      /\ \A a \in Addr : a # p => asked'[a] = asked[a]
  BY <1>1, <1>2, <1>3 DEF TypeOK
<1>5. FreeList' = FreeList \ {p} /\ Allocated' = Allocated \cup {p}
  BY <1>1, <1>4 DEF FreeList, Allocated
<1>6. Blocks' = Blocks
  BY <1>1, <1>5 DEF Blocks
<1>7. Anchored'
  BY <1>1, <1>2, <1>3, <1>5 DEF ListInv, Anchored, NULL
<1>8. BlockShape' /\ NoOverlap' /\ Covered'
  BY <1>1, <1>2, <1>3, <1>6 DEF ListInv, BlockShape, NoOverlap, Covered
<1>9. FreeOrAllocated'
  BY <1>3, <1>5 DEF ListInv, FreeOrAllocated
<1>10. FreeListSorted'
  <2> SUFFICES ASSUME NEW a \in FreeList \ {p}
               PROVE  /\ nxt'[a] \in FreeList \ {p}
                      /\ \/ nxt'[a] > a /\ \A c \in FreeList \ {p} : c <= a \/ c >= nxt'[a]
                         \/ nxt'[a] = Base /\ \A c \in FreeList \ {p} : c <= a
    BY <1>5 DEF FreeListSorted
  <2>1. \A c \in FreeList : c \in Nat /\ c \in Addr
    BY DEF FreeList
  <2>2. \A c \in FreeList :
          /\ nxt[c] \in FreeList
          /\ \/ nxt[c] > c /\ \A d \in FreeList : d <= c \/ d >= nxt[c]
             \/ nxt[c] = Base /\ \A d \in FreeList : d <= c
    BY <1>3 DEF ListInv, FreeListSorted
  <2>3. CASE a = prevp
    <3>1. nxt'[a] = nxt[p] /\ \A c \in FreeList \ {p} : c <= a \/ c > p
      BY <1>1, <1>4, <2>1, <2>2, <2>3
    <3>2. PICK n \in Nat : n = nxt[p] /\ n \in FreeList /\ n # p
      BY <1>1
    <3>3. a \in Nat /\ p \in Nat /\ a < p /\ p \in FreeList
      BY <1>1, <2>1, <2>3
    <3>4. CASE n > p /\ \A d \in FreeList : d <= p \/ d >= n
      <4>1. \A c \in FreeList \ {p} : c <= a \/ c >= n
        BY <3>1, <3>2, <3>3, <3>4, <2>1
      <4>2. n > a
        BY <3>2, <3>3, <3>4
      <4> QED BY <3>1, <3>2, <4>1, <4>2
    <3>5. CASE n = Base /\ \A d \in FreeList : d <= p
      <4>1. \A c \in FreeList \ {p} : c <= a
        BY <3>1, <3>2, <3>3, <3>5, <2>1
      <4> QED BY <3>1, <3>2, <3>5, <4>1
    <3> QED BY <2>2, <3>2, <3>3, <3>4, <3>5
  <2>4. CASE a # prevp
    <3>1. nxt'[a] = nxt[a]
      BY <1>4, <2>1, <2>4
    <3>2. nxt[a] # p
      BY <1>1, <2>1, <2>2, <2>4
    <3> QED BY <2>2, <3>1, <3>2
  <2> QED BY <2>3, <2>4
<1>11. FreeBlocksCoalesced'
  BY <1>2, <1>3, <1>5 DEF ListInv, FreeBlocksCoalesced
<1>12. TypeOK'
  BY <1>1, <1>2, <1>3, <1>4, HeapAssumption DEF TypeOK, Return, HeapAddr, NULL
<1> QED BY <1>2, <1>7, <1>8, <1>9, <1>10, <1>11, <1>12
        DEF HeapInv, ListInv, LocalsInv, Return

LEMMA KmallocSplitPreserves ==
  ASSUME HeapInv, KmallocSplit
  PROVE  HeapInv'
<1> USE AddrFacts
<1> DEFINE tail == p + (size[p] - nunits)
<1>1. /\ p \in FreeList /\ p \in HeapAddr /\ p \in Blocks /\ p # Base /\ p \in Nat
      /\ nunits \in Nat /\ nunits >= 1 /\ size[p] \in Nat /\ size[p] > nunits
      /\ p + size[p] <= HeapEnd /\ prevp \in FreeList /\ prevp \in Addr
      /\ bytes \in 1 .. SizeMod - 1 /\ bytes > 0 /\ freep # NULL
  <2>1. pc = "kmalloc" /\ size[p] > nunits /\ nunits \in Nat
    BY DEF KmallocSplit, HeapInv, TypeOK
  <2>2. p \in Addr
    BY <2>1 DEF HeapInv, LocalsInv, SearchInv, ListInv, FreeListSorted, FreeList
  <2>3. size[p] >= nunits
    BY <2>1, <2>2 DEF HeapInv, TypeOK
  <2> QED BY <2>1, <2>3, FoundBlock, HeapAssumption
<1>2. /\ size' = [size EXCEPT ![p] = @ - nunits, ![tail] = nunits]
      /\ asked' = [asked EXCEPT ![tail] = bytes]
      /\ ret' = tail + 1 /\ freep' = prevp /\ nxt' = nxt /\ Return
  BY DEF KmallocSplit, Give
<1>3. /\ tail \in Nat /\ p < tail /\ tail < p + size[p]
      /\ tail + nunits = p + size[p] /\ p + (size[p] - nunits) = tail
      /\ tail \in HeapAddr /\ tail \in Addr
  BY <1>1 DEF HeapAddr, Addr
<1> HIDE DEF tail
<1>4. ListInv /\ TypeOK
  BY DEF HeapInv
<1>5. /\ \A a \in Blocks : a \in Nat /\ a \in Addr /\ a \in HeapAddr
      /\ \A a \in Addr : size[a] \in Nat
      /\ p \in Addr
  BY <1>1, <1>4 DEF Blocks, FreeList, Allocated, TypeOK
<1>6. tail \notin Blocks
  BY <1>1, <1>3, <1>4, <1>5 DEF ListInv, NoOverlap
<1>7. tail \notin FreeList /\ tail \notin Allocated /\ tail # Base
  BY <1>3, <1>6 DEF Blocks
<1>8. size[p] - nunits \in 0 .. HeapUnits /\ nunits \in 0 .. HeapUnits
  BY <1>1, <1>4, <1>5 DEF TypeOK
<1>9. /\ size' \in [Addr -> 0 .. HeapUnits]
      /\ size'[p] = size[p] - nunits /\ size'[tail] = nunits
      /\ \A a \in Addr : a # p /\ a # tail => size'[a] = size[a]
      /\ asked' \in [Addr -> 0 .. SizeMod - 1]
      /\ asked'[tail] > 0
      /\ \A a \in Addr : a # tail => asked'[a] = asked[a]
  BY <1>1, <1>2, <1>3, <1>4, <1>5, <1>8 DEF TypeOK
<1>10. FreeList' = FreeList /\ Allocated' = Allocated \cup {tail}
  BY <1>2, <1>3, <1>9 DEF FreeList, Allocated
<1>11. Blocks' = Blocks \cup {tail}
  BY <1>7, <1>10 DEF Blocks
<1>12. Anchored'
  BY <1>1, <1>2, <1>4, <1>7, <1>9, <1>10 DEF ListInv, Anchored, NULL
<1>13. BlockShape'
  BY <1>1, <1>3, <1>4, <1>5, <1>9, <1>11 DEF ListInv, BlockShape
<1>14. NoOverlap'
  <2> SUFFICES ASSUME NEW a \in Blocks \cup {tail}, NEW b \in Blocks \cup {tail}, a < b
               PROVE  a + size'[a] <= b
    BY <1>11 DEF NoOverlap
  <2>1. \A c \in Blocks : \A d \in Blocks : c < d => c + size[c] <= d
    BY <1>4 DEF ListInv, NoOverlap
  <2>2. CASE b = tail
    BY <1>1, <1>3, <1>5, <1>6, <1>9, <2>1, <2>2
  <2>3. CASE b # tail /\ a = tail
    BY <1>1, <1>3, <1>5, <1>6, <1>9, <2>1, <2>3
  <2>4. CASE b # tail /\ a # tail /\ a = p
    BY <1>1, <1>3, <1>5, <1>6, <1>9, <2>1, <2>4
  <2>5. CASE b # tail /\ a # tail /\ a # p
    BY <1>1, <1>3, <1>5, <1>6, <1>9, <2>1, <2>5
  <2> QED BY <2>2, <2>3, <2>4, <2>5
<1>15. Covered'
  <2> SUFFICES ASSUME NEW u \in HeapAddr
               PROVE  \E a \in Blocks \cup {tail} : a <= u /\ u < a + size'[a]
    BY <1>11 DEF Covered
  <2>1. PICK a \in Blocks : a <= u /\ u < a + size[a]
    BY <1>1, <1>4 DEF ListInv, Covered
  <2>2. CASE a = p /\ u < tail
    BY <1>1, <1>3, <1>9, <2>1, <2>2
  <2>3. CASE a = p /\ ~(u < tail)
    BY <1>1, <1>3, <1>9, <2>1, <2>3
  <2>4. CASE a # p
    BY <1>5, <1>6, <1>9, <2>1, <2>4
  <2> QED BY <2>2, <2>3, <2>4
<1>16. FreeOrAllocated' /\ FreeListSorted'
  BY <1>2, <1>4, <1>7, <1>10 DEF ListInv, FreeOrAllocated, FreeListSorted
<1>17. FreeBlocksCoalesced'
  <2> SUFFICES ASSUME NEW a \in FreeList \ {Base} PROVE a + size'[a] \notin FreeList
    BY <1>10 DEF FreeBlocksCoalesced
  <2>1. a \in Addr /\ a # tail
    BY <1>7 DEF FreeList
  <2>2. CASE a = p
    BY <1>3, <1>7, <1>9, <2>2
  <2>3. CASE a # p
    BY <1>4, <1>9, <2>1, <2>3 DEF ListInv, FreeBlocksCoalesced
  <2> QED BY <2>2, <2>3
<1>18. TypeOK'
  BY <1>1, <1>2, <1>3, <1>4, <1>9, HeapAssumption DEF TypeOK, Return, HeapAddr, NULL
<1> QED BY <1>2, <1>12, <1>13, <1>14, <1>15, <1>16, <1>17, <1>18
        DEF HeapInv, ListInv, LocalsInv, Return
-----------------------------------------------------------------------------
(* kfree links a block *)

(* The place that kfree's walk found is the right one: no free block lies  *)
(* between p and bp, nor between bp and the successor of p.                *)
LEMMA LinkPlace ==
  ASSUME HeapInv, pc = "kfree", Between \/ AtEnds, NEW n, n = nxt[p]
  PROVE  /\ p \in FreeList /\ p \in Addr /\ p \in Nat
         /\ bp \in Allocated /\ bp \in HeapAddr /\ bp \in Blocks /\ bp \in Nat
         /\ bp \notin FreeList /\ bp # Base
         /\ n \in FreeList /\ n \in Addr /\ n \in Nat /\ n # bp
         /\ p < bp /\ (n = Base \/ bp < n)
         /\ \A c \in FreeList : c <= p \/ (n # Base /\ n <= c)
         /\ p # Base => p \in Blocks
         /\ n # Base => n \in Blocks
         /\ freep # NULL
<1> USE AddrFacts
<1>1. /\ p \in FreeList /\ bp \in Allocated /\ freep # NULL /\ ListInv /\ TypeOK
  BY DEF HeapInv, LocalsInv, WalkInv
<1>2. p \in Addr /\ p \in Nat /\ bp \in Addr /\ bp \in Nat
  BY <1>1 DEF FreeList, Allocated
<1>3. /\ n \in FreeList
      /\ \/ n > p /\ \A c \in FreeList : c <= p \/ c >= n
         \/ n = Base /\ \A c \in FreeList : c <= p
  BY <1>1 DEF ListInv, FreeListSorted
<1>4. n \in Addr /\ n \in Nat
  BY <1>3 DEF FreeList
<1>5. bp # Base /\ bp \notin FreeList
  BY <1>1 DEF ListInv, Anchored, FreeOrAllocated
<1>6. bp \in HeapAddr /\ bp \in Blocks /\ Base < bp
  BY <1>1, <1>2, <1>5 DEF Blocks
<1>7. n # bp
  BY <1>3, <1>5
<1>8. (p < bp /\ bp < n) \/ (p >= n /\ (bp > p \/ bp < n))
  BY DEF Between, AtEnds
<1>9. p < bp /\ (n = Base \/ bp < n)
  BY <1>2, <1>3, <1>4, <1>6, <1>8
<1>10. \A c \in FreeList : c <= p \/ (n # Base /\ n <= c)
  BY <1>2, <1>3, <1>4
<1>11. (p # Base => p \in Blocks) /\ (n # Base => n \in Blocks)
  BY <1>1, <1>3 DEF Blocks
<1> QED BY <1>1, <1>2, <1>3, <1>4, <1>5, <1>6, <1>7, <1>9, <1>10, <1>11

(* How blocks lie next to each other there, and that the sums fit. *)
LEMMA LinkSizes ==
  ASSUME HeapInv, pc = "kfree", Between \/ AtEnds, NEW n, n = nxt[p]
  PROVE  /\ \A a \in Addr : size[a] \in Nat /\ size[a] <= HeapUnits
         /\ \A a \in Blocks : a \in HeapAddr /\ size[a] >= 1 /\ a + size[a] <= HeapEnd
         /\ p + size[p] <= bp
         /\ JoinsNext => n # Base /\ n > bp
         /\ JoinsPrev => p # Base
         /\ n # Base => bp + size[bp] <= n
         /\ JoinsNext => bp + (size[bp] + size[n]) <= HeapEnd
<1> USE AddrFacts
<1>1. /\ p \in FreeList /\ p \in Addr /\ p \in Nat
      /\ bp \in HeapAddr /\ bp \in Blocks /\ bp \in Nat /\ bp \in Addr
      /\ n \in Addr /\ n \in Nat
      /\ p < bp /\ (n = Base \/ bp < n)
      /\ p # Base => p \in Blocks
      /\ n # Base => n \in Blocks
      /\ freep # NULL
  BY LinkPlace
<1>2. \A a \in Addr : size[a] \in Nat /\ size[a] <= HeapUnits
  BY DEF HeapInv, TypeOK
<1>3. \A a \in Blocks : a \in HeapAddr /\ size[a] >= 1 /\ a + size[a] <= HeapEnd
  BY DEF HeapInv, ListInv, BlockShape, Blocks, FreeList, Allocated
<1>4. p + size[p] <= bp
  <2>1. CASE p = Base
    BY <1>1, <2>1 DEF HeapInv, ListInv, Anchored
  <2>2. CASE p # Base
    BY <1>1, <2>2 DEF HeapInv, ListInv, NoOverlap
  <2> QED BY <2>1, <2>2
<1>5. n # Base => bp + size[bp] <= n
  BY <1>1 DEF HeapInv, ListInv, NoOverlap
<1>6. JoinsNext => n # Base /\ n > bp
  BY <1>1, <1>2, <1>3 DEF JoinsNext
<1>7. JoinsPrev => p # Base
  BY <1>1 DEF JoinsPrev, HeapInv, ListInv, Anchored
<1>8. JoinsNext => bp + (size[bp] + size[n]) <= HeapEnd
  <2> SUFFICES ASSUME JoinsNext PROVE bp + (size[bp] + size[n]) <= HeapEnd
    OBVIOUS
  <2>1. n \in Blocks /\ bp + size[bp] = n
    BY <1>1, <1>6 DEF JoinsNext
  <2>2. n + size[n] <= HeapEnd /\ size[n] \in Nat /\ size[bp] \in Nat
    BY <1>1, <1>2, <1>3, <2>1
  <2> QED BY <1>1, <2>1, <2>2
<1> QED BY <1>2, <1>3, <1>4, <1>5, <1>6, <1>7, <1>8

(* The lists and the headers after KfreeLink, address by address.  size'   *)
(* of the merged block is the sum of what it is made of.                   *)
LEMMA LinkEffect ==
  ASSUME HeapInv, KfreeLink, NEW n, n = nxt[p],
         NEW bpNext, bpNext = IF JoinsNext THEN nxt[n] ELSE n,
         NEW bpSize, bpSize = IF JoinsNext THEN size[bp] + size[n] ELSE size[bp]
  PROVE  /\ bpNext \in FreeList /\ bpNext \in Addr /\ bpNext \in Nat
         /\ bpSize \in Nat /\ bpSize >= 1 /\ bp + bpSize <= HeapEnd
         /\ nxt' \in [Addr -> Addr \cup {Stale}]
         /\ size' \in [Addr -> 0 .. HeapUnits]
         /\ asked' \in [Addr -> 0 .. SizeMod - 1]
         /\ \A a \in Addr : a \notin {p, bp, n} => nxt'[a] = nxt[a] /\ size'[a] = size[a]
         /\ n \notin {p, bp} => IF JoinsNext THEN nxt'[n] = Stale /\ size'[n] = 0
                                ELSE nxt'[n] = nxt[n] /\ size'[n] = size[n]
         /\ nxt'[p] = IF JoinsPrev THEN bpNext ELSE bp
         /\ size'[p] = IF JoinsPrev THEN size[p] + bpSize ELSE size[p]
         /\ nxt'[bp] = IF JoinsPrev THEN Stale ELSE bpNext
         /\ size'[bp] = IF JoinsPrev THEN 0 ELSE bpSize
         /\ asked'[bp] = 0 /\ \A a \in Addr : a # bp => asked'[a] = asked[a]
<1> USE AddrFacts
<1>1. /\ pc = "kfree" /\ (Between \/ AtEnds) /\ TypeOK /\ ListInv
      /\ asked' = [asked EXCEPT ![bp] = 0]
  BY DEF KfreeLink, HeapInv
<1>2. /\ p \in FreeList /\ p \in Addr /\ p \in Nat
      /\ bp \in HeapAddr /\ bp \in Blocks /\ bp \in Nat /\ bp \in Addr
      /\ n \in FreeList /\ n \in Addr /\ n \in Nat /\ n # bp
      /\ p < bp /\ (n = Base \/ bp < n)
  BY <1>1, LinkPlace
<1>3. /\ \A a \in Addr : size[a] \in Nat /\ size[a] <= HeapUnits
      /\ \A a \in Blocks : a \in HeapAddr /\ size[a] >= 1 /\ a + size[a] <= HeapEnd
      /\ p + size[p] <= bp
      /\ JoinsNext => n # Base /\ n > bp
      /\ JoinsPrev => p # Base
      /\ JoinsNext => bp + (size[bp] + size[n]) <= HeapEnd
  BY <1>1, LinkSizes
<1>4. nxt[n] \in FreeList
  BY <1>1, <1>2 DEF ListInv, FreeListSorted
<1>5. bpNext \in FreeList /\ bpNext \in Addr /\ bpNext \in Nat
  BY <1>2, <1>4 DEF FreeList
<1>6. bpSize \in Nat /\ bpSize >= 1 /\ bp + bpSize <= HeapEnd
  BY <1>2, <1>3
<1>7. bpSize <= HeapUnits /\ (JoinsPrev => size[p] + bpSize <= HeapUnits)
  BY <1>2, <1>3, <1>6 DEF HeapEnd, JoinsPrev, HeapAddr
<1>8. /\ nxt' = [a \in Addr |->
                   CASE a = n /\ JoinsNext  -> Stale
                     [] a = p               -> IF JoinsPrev THEN bpNext ELSE bp
                     [] a = bp              -> IF JoinsPrev THEN Stale ELSE bpNext
                     [] OTHER               -> nxt[a]]
      /\ size' = [a \in Addr |->
                   CASE a = n /\ JoinsNext  -> 0
                     [] a = p               -> IF JoinsPrev THEN size[p] + bpSize
                                               ELSE size[p]
                     [] a = bp              -> IF JoinsPrev THEN 0 ELSE bpSize
                     [] OTHER               -> size[a]]
  BY DEF KfreeLink
<1>9. JoinsNext => n # p
  BY <1>2, <1>3
<1>10. /\ \A a \in Addr : a \notin {p, bp, n} => nxt'[a] = nxt[a] /\ size'[a] = size[a]
       /\ n \notin {p, bp} => IF JoinsNext THEN nxt'[n] = Stale /\ size'[n] = 0
                              ELSE nxt'[n] = nxt[n] /\ size'[n] = size[n]
       /\ nxt'[p] = IF JoinsPrev THEN bpNext ELSE bp
       /\ size'[p] = IF JoinsPrev THEN size[p] + bpSize ELSE size[p]
       /\ nxt'[bp] = IF JoinsPrev THEN Stale ELSE bpNext
       /\ size'[bp] = IF JoinsPrev THEN 0 ELSE bpSize
  BY <1>2, <1>8, <1>9
<1>11. nxt' \in [Addr -> Addr \cup {Stale}]
  <2>1. \A a \in Addr : nxt[a] \in Addr \cup {Stale}
    BY <1>1 DEF TypeOK
  <2>2. \A a \in Addr : nxt'[a] \in Addr \cup {Stale}
    BY <1>2, <1>5, <1>10, <2>1
  <2> QED BY <1>8, <2>2
<1>12. size' \in [Addr -> 0 .. HeapUnits]
  <2>1. \A a \in Addr : size'[a] \in 0 .. HeapUnits
    BY <1>2, <1>3, <1>6, <1>7, <1>10
  <2> QED BY <1>8, <2>1
<1>13. /\ asked' \in [Addr -> 0 .. SizeMod - 1]
       /\ asked'[bp] = 0 /\ \A a \in Addr : a # bp => asked'[a] = asked[a]
  BY <1>1, <1>2, HeapAssumption DEF TypeOK
<1> QED BY <1>5, <1>6, <1>10, <1>11, <1>12, <1>13

LEMMA KfreeLinkPreserves ==
  ASSUME HeapInv, KfreeLink
  PROVE  HeapInv'
<1> USE AddrFacts
<1> DEFINE JN == JoinsNext
           JP == JoinsPrev
<1>1. PICK n : n = nxt[p]
  OBVIOUS
<1>2. PICK bpNext : bpNext = IF JN THEN nxt[n] ELSE n
  OBVIOUS
<1>3. PICK bpSize : bpSize = IF JN THEN size[bp] + size[n] ELSE size[bp]
  OBVIOUS
<1>4. /\ pc = "kfree" /\ (Between \/ AtEnds) /\ TypeOK /\ ListInv
      /\ freep' = p /\ Return /\ ret' = ret
  BY DEF KfreeLink, HeapInv
<1>5. /\ p \in FreeList /\ p \in Addr /\ p \in Nat
      /\ bp \in Allocated /\ bp \in HeapAddr /\ bp \in Blocks /\ bp \in Nat /\ bp \in Addr
      /\ bp \notin FreeList /\ bp # Base /\ Base < bp
      /\ n \in FreeList /\ n \in Addr /\ n \in Nat /\ n # bp
      /\ p < bp /\ (n = Base \/ bp < n)
      /\ p # Base => p \in Blocks
      /\ n # Base => n \in Blocks
      /\ freep # NULL
  BY <1>1, <1>4, LinkPlace
<1>6. \A c \in FreeList : c <= p \/ (n # Base /\ n <= c)
  BY <1>1, <1>4, LinkPlace
<1>7. /\ \A a \in Addr : size[a] \in Nat
      /\ \A a \in Blocks : a \in HeapAddr /\ a \in Nat /\ a \in Addr
                           /\ size[a] >= 1 /\ a + size[a] <= HeapEnd
      /\ p + size[p] <= bp
      /\ n # Base => bp + size[bp] <= n
      /\ JN => n # Base /\ n > bp /\ n # p /\ bp + size[bp] = n
      /\ JP => p # Base /\ p + size[p] = bp
      /\ ~JN => bp + size[bp] # n
      /\ ~JP => p + size[p] # bp
  <2>1. /\ \A a \in Addr : size[a] \in Nat
        /\ \A a \in Blocks : a \in HeapAddr /\ size[a] >= 1 /\ a + size[a] <= HeapEnd
        /\ p + size[p] <= bp
        /\ n # Base => bp + size[bp] <= n
        /\ JN => n # Base /\ n > bp
        /\ JP => p # Base
    BY <1>1, <1>4, LinkSizes
  <2> QED BY <1>1, <1>5, <2>1 DEF JoinsNext, JoinsPrev
<1>8. /\ bpNext \in FreeList /\ bpNext \in Addr /\ bpNext \in Nat
      /\ bpSize \in Nat /\ bpSize >= 1 /\ bp + bpSize <= HeapEnd
      /\ nxt' \in [Addr -> Addr \cup {Stale}]
      /\ size' \in [Addr -> 0 .. HeapUnits]
      /\ asked' \in [Addr -> 0 .. SizeMod - 1]
  BY <1>1, <1>2, <1>3, LinkEffect
<1>9. /\ \A a \in Addr : a \notin {p, bp, n} => nxt'[a] = nxt[a] /\ size'[a] = size[a]
      /\ n \notin {p, bp} => IF JN THEN nxt'[n] = Stale /\ size'[n] = 0
                             ELSE nxt'[n] = nxt[n] /\ size'[n] = size[n]
      /\ nxt'[p] = IF JP THEN bpNext ELSE bp
      /\ size'[p] = IF JP THEN size[p] + bpSize ELSE size[p]
      /\ nxt'[bp] = IF JP THEN Stale ELSE bpNext
      /\ size'[bp] = IF JP THEN 0 ELSE bpSize
  BY <1>1, <1>2, <1>3, LinkEffect
<1>10. asked'[bp] = 0 /\ \A a \in Addr : a # bp => asked'[a] = asked[a]
  BY <1>1, <1>2, <1>3, LinkEffect
<1> HIDE DEF JN, JP
<1> DEFINE Gone == {a \in {n, bp} : (a = n /\ JN) \/ (a = bp /\ JP)}
<1>11. FreeList' = (FreeList \cup {bp}) \ Gone
  <2>1. \A a \in Addr : nxt'[a] # Stale <=> a \in (FreeList \cup {bp}) \ Gone
    BY <1>5, <1>7, <1>8, <1>9 DEF FreeList
  <2>2. FreeList \cup {bp} \subseteq Addr
    BY <1>5 DEF FreeList
  <2> QED BY <2>1, <2>2 DEF FreeList
<1>12. Allocated' = Allocated \ {bp}
  <2>1. \A a \in Addr : asked'[a] > 0 <=> asked[a] > 0 /\ a # bp
    BY <1>5, <1>10
  <2> QED BY <2>1 DEF Allocated
<1>13. Blocks' = Blocks \ Gone
  <2>1. n \notin Allocated
    BY <1>4, <1>5 DEF ListInv, FreeOrAllocated
  <2> QED BY <1>5, <1>11, <1>12, <2>1 DEF Blocks
<1>14. p \notin Gone /\ Base \notin Gone /\ (JN => n \in Gone) /\ (JP => bp \in Gone)
       /\ (~JN => n \notin Gone) /\ (~JP => bp \notin Gone)
       /\ \A a : a # n /\ a # bp => a \notin Gone
  BY <1>5, <1>7
<1> HIDE DEF Gone
<1>15. Anchored'
  <2>1. Base \in FreeList /\ size[Base] = 0 /\ Base \notin Allocated
    BY <1>4, <1>5 DEF ListInv, Anchored
  <2>2. size'[Base] = 0
    BY <1>5, <1>7, <1>9, <2>1
  <2> QED BY <1>4, <1>5, <1>11, <1>12, <1>14, <2>1, <2>2 DEF Anchored, NULL
<1>16. FreeOrAllocated'
  BY <1>4, <1>11, <1>12 DEF ListInv, FreeOrAllocated
<1>17. BlockShape'
  <2> SUFFICES ASSUME NEW a \in Blocks \ Gone
               PROVE  size'[a] >= 1 /\ a + size'[a] <= HeapEnd
    BY <1>13 DEF BlockShape
  <2>1. CASE a = p
    BY <1>5, <1>7, <1>8, <1>9, <2>1
  <2>2. CASE a = bp
    BY <1>5, <1>7, <1>8, <1>9, <1>14, <2>2
  <2>3. CASE a # p /\ a # bp
    BY <1>5, <1>7, <1>9, <1>14, <2>3
  <2> QED BY <2>1, <2>2, <2>3
<1>18. \A a \in Blocks : \A b \in Blocks : a < b => a + size[a] <= b
  BY <1>4 DEF ListInv, NoOverlap
<1>19. \A b \in Blocks : b > bp /\ b \notin Gone => bp + bpSize <= b
  <2> SUFFICES ASSUME NEW b \in Blocks, b > bp, b \notin Gone
               PROVE  bp + bpSize <= b
    OBVIOUS
  <2>1. bp + size[bp] <= b
    BY <1>5, <1>18
  <2>2. CASE JN
    <3>1. n \in Blocks /\ b # n /\ n < b
      BY <1>5, <1>7, <1>14, <2>1, <2>2
    <3>2. n + size[n] <= b
      BY <1>18, <3>1
    <3> QED BY <1>3, <1>5, <1>7, <2>2, <3>2
  <2>3. CASE ~JN
    BY <1>3, <2>1, <2>3
  <2> QED BY <2>2, <2>3
<1>20. NoOverlap'
  <2> SUFFICES ASSUME NEW a \in Blocks \ Gone, NEW b \in Blocks \ Gone, a < b
               PROVE  a + size'[a] <= b
    BY <1>13 DEF NoOverlap
  <2>1. CASE a = bp
    BY <1>5, <1>7, <1>9, <1>14, <1>19, <2>1
  <2>2. CASE a = p /\ JP
    <3>1. b # bp /\ p + size[p] <= b
      BY <1>14, <1>18, <2>2
    <3>2. b > bp
      BY <1>5, <1>7, <2>2, <3>1
    <3>3. bp + bpSize <= b
      BY <1>19, <3>2
    <3> QED BY <1>5, <1>7, <1>8, <1>9, <2>2, <3>3
  <2>3. CASE a # bp /\ (a = p => ~JP)
    <3>1. size'[a] = size[a]
      BY <1>5, <1>7, <1>9, <1>14, <2>3
    <3> QED BY <1>18, <3>1
  <2> QED BY <2>1, <2>2, <2>3
<1>21. Covered'
  <2> SUFFICES ASSUME NEW u \in HeapAddr
               PROVE  \E a \in Blocks \ Gone : a <= u /\ u < a + size'[a]
    BY <1>13 DEF Covered
  <2>1. PICK a \in Blocks : a <= u /\ u < a + size[a]
    BY <1>4, <1>5 DEF ListInv, Covered
  <2>2. CASE a # n /\ a # bp
    <3>1. size'[a] >= size[a] /\ size'[a] \in Nat
      BY <1>5, <1>7, <1>8, <1>9, <2>2
    <3>2. a + size[a] <= a + size'[a]
      BY <1>7, <3>1
    <3>3. u < a + size'[a]
      BY <1>7, <2>1, <3>1, <3>2
    <3> QED BY <1>14, <2>1, <2>2, <3>3
  <2>3. CASE a = n /\ ~JN
    <3>1. size'[a] >= size[a] /\ size'[a] \in Nat
      BY <1>5, <1>7, <1>8, <1>9, <2>3
    <3>2. u < a + size'[a]
      BY <1>7, <2>1, <3>1
    <3> QED BY <1>14, <2>1, <2>3, <3>2
  <2>4. CASE a = bp \/ (a = n /\ JN)
    <3>1. bp <= u /\ u < bp + bpSize
      <4>1. CASE a = bp
        BY <1>3, <1>5, <1>7, <2>1, <4>1
      <4>2. CASE a = n /\ JN
        BY <1>3, <1>5, <1>7, <2>1, <4>2
      <4> QED BY <2>4, <4>1, <4>2
    <3>2. CASE JP
      <4>1. p <= u /\ u < p + size'[p]
        BY <1>5, <1>7, <1>8, <1>9, <3>1, <3>2
      <4> QED BY <1>5, <1>7, <1>14, <3>2, <4>1
    <3>3. CASE ~JP
      BY <1>5, <1>9, <1>14, <3>1, <3>3
    <3> QED BY <3>2, <3>3
  <2> QED BY <2>2, <2>3, <2>4
<1>22. \A c \in FreeList :
         /\ c \in Nat /\ c \in Addr /\ nxt[c] \in FreeList
         /\ \/ nxt[c] > c /\ \A d \in FreeList : d <= c \/ d >= nxt[c]
            \/ nxt[c] = Base /\ \A d \in FreeList : d <= c
  BY <1>4 DEF ListInv, FreeListSorted, FreeList
<1>23. FreeListSorted'
  <2> DEFINE F == (FreeList \cup {bp}) \ Gone
  <2> SUFFICES ASSUME NEW a \in F, NEW m, m = nxt'[a]
               PROVE  /\ m \in F
                      /\ \/ m > a /\ \A c \in F : c <= a \/ c >= m
                         \/ m = Base /\ \A c \in F : c <= a
    BY <1>11 DEF FreeListSorted
  <2>1. \A c \in F : c \in Nat /\ (c = bp \/ c \in FreeList)
    BY <1>5, <1>22
  (* the successor of the merged block *)
  <2>2. /\ bpNext \in F
        /\ \/ bpNext > bp /\ \A c \in F : c <= bp \/ c >= bpNext
           \/ bpNext = Base /\ \A c \in F : c <= bp
    <3>1. CASE JN
      <4>1. bpNext = nxt[n] /\ n # Base /\ n > bp /\ n \notin F
        BY <1>2, <1>7, <1>14, <3>1
      <4>2. \/ bpNext > n /\ \A d \in FreeList : d <= n \/ d >= bpNext
            \/ bpNext = Base /\ \A d \in FreeList : d <= n
        BY <1>5, <1>22, <4>1
      <4>3. bpNext # n
        BY <1>5, <4>1, <4>2
      <4>4. bpNext \in F
        BY <1>5, <1>8, <1>14, <4>3
      <4>5. \A c \in F : c <= bp \/ c > n
        BY <1>5, <1>6, <2>1, <4>1
      <4>6. CASE bpNext > n /\ \A d \in FreeList : d <= n \/ d >= bpNext
        BY <1>5, <1>8, <2>1, <4>1, <4>4, <4>5, <4>6
      <4>7. CASE bpNext = Base /\ \A d \in FreeList : d <= n
        BY <1>5, <1>8, <2>1, <4>1, <4>4, <4>5, <4>7
      <4> QED BY <4>2, <4>6, <4>7
    <3>2. CASE ~JN
      <4>1. bpNext = n /\ n \in F
        BY <1>2, <1>5, <1>14, <3>2
      <4> QED BY <1>5, <1>6, <2>1, <4>1
    <3> QED BY <3>1, <3>2
  <2>3. CASE a = p /\ JP
    <3>1. m = bpNext /\ bp \notin F
      BY <1>9, <1>14, <2>3
    <3>2. \A c \in F : c <= p \/ c > bp
      BY <1>5, <1>6, <2>1, <3>1
    <3> QED BY <1>5, <1>8, <2>1, <2>2, <2>3, <3>1, <3>2
  <2>4. CASE a = p /\ ~JP
    <3>1. m = bp /\ bp \in F
      BY <1>5, <1>9, <1>14, <2>4
    <3> QED BY <1>5, <1>6, <2>1, <2>4, <3>1
  <2>5. CASE a = bp
    BY <1>9, <1>14, <2>2, <2>5
  <2>6. CASE a # p /\ a # bp
    <3>1. a \in FreeList /\ a \in Nat /\ m = nxt[a] /\ m \in FreeList /\ m \in Nat
      BY <1>5, <1>9, <1>14, <1>22, <2>6
    <3>2. \/ m > a /\ \A d \in FreeList : d <= a \/ d >= m
          \/ m = Base /\ \A d \in FreeList : d <= a
      BY <1>22, <3>1
    <3>3. m # n \/ n = Base
      <4>1. \/ n > p /\ \A d \in FreeList : d <= p \/ d >= n
            \/ n = Base
        BY <1>1, <1>5, <1>22
      <4> QED BY <1>5, <2>6, <3>1, <3>2, <4>1
    <3>4. m \in F
      BY <1>5, <1>7, <1>14, <3>1, <3>3
    <3>5. CASE m > a /\ \A d \in FreeList : d <= a \/ d >= m
      <4>1. bp <= a \/ bp >= m
        BY <1>5, <1>6, <2>6, <3>1, <3>5
      <4> QED BY <2>1, <3>4, <3>5, <4>1
    <3>6. CASE m = Base /\ \A d \in FreeList : d <= a
      <4>1. bp <= a
        BY <1>5, <1>6, <2>6, <3>1, <3>6
      <4> QED BY <2>1, <3>4, <3>6, <4>1
    <3> QED BY <3>2, <3>5, <3>6
  <2> QED BY <2>3, <2>4, <2>5, <2>6
<1>24. FreeBlocksCoalesced'
  <2> DEFINE F == (FreeList \cup {bp}) \ Gone
  <2> SUFFICES ASSUME NEW a \in F, a # Base PROVE a + size'[a] \notin F
    BY <1>11 DEF FreeBlocksCoalesced
  <2>1. \A c \in FreeList : c # Base => c + size[c] \notin FreeList
    BY <1>4 DEF ListInv, FreeBlocksCoalesced
  <2>2. bp + bpSize \notin F
    <3>1. CASE JN
      <4>1. bp + bpSize = n + size[n] /\ n + size[n] > bp
        BY <1>3, <1>5, <1>7, <3>1
      <4> QED BY <1>5, <1>7, <2>1, <3>1, <4>1
    <3>2. CASE ~JN
      <4>1. bpSize = size[bp] /\ bp + size[bp] # n /\ bp + size[bp] > bp
        BY <1>3, <1>5, <1>7, <3>2
      <4>2. ASSUME NEW c \in FreeList, c = bp + size[bp] PROVE FALSE
        <5>1. n # Base /\ n <= c
          BY <1>5, <1>6, <1>22, <4>1, <4>2
        <5>2. bp + size[bp] <= n
          BY <1>7, <5>1
        <5> QED BY <1>5, <1>7, <1>22, <4>1, <4>2, <5>1, <5>2
      <4> QED BY <1>5, <1>7, <4>1, <4>2
    <3> QED BY <3>1, <3>2
  <2>3. CASE a = bp
    BY <1>9, <1>14, <2>2, <2>3
  <2>4. CASE a = p /\ JP
    <3>1. a + size'[a] = bp + bpSize
      BY <1>5, <1>7, <1>8, <1>9, <2>4
    <3> QED BY <2>2, <3>1
  <2>5. CASE a = p /\ ~JP
    BY <1>5, <1>7, <1>9, <2>1, <2>5
  <2>6. CASE a # p /\ a # bp
    <3>1. a \in FreeList /\ a \in Nat /\ size'[a] = size[a] /\ a \in Blocks
      BY <1>9, <1>14, <1>22, <2>6 DEF Blocks
    <3>2. a + size[a] # bp
      <4>1. CASE a < p
        <5>1. p \in Blocks
          BY <1>5, <1>7, <3>1, <4>1
        <5>2. a + size[a] <= p
          BY <1>18, <3>1, <4>1, <5>1
        <5> QED BY <1>5, <1>7, <3>1, <5>2
      <4>2. CASE ~(a < p)
        <5>1. n # Base /\ n <= a
          BY <1>5, <1>6, <2>6, <3>1, <4>2
        <5> QED BY <1>5, <1>7, <3>1, <5>1
      <4> QED BY <4>1, <4>2
    <3> QED BY <2>1, <3>1, <3>2
  <2> QED BY <2>3, <2>4, <2>5, <2>6
<1>25. TypeOK'
  BY <1>4, <1>5, <1>8, HeapAssumption DEF TypeOK, Return, NULL
<1> QED BY <1>4, <1>15, <1>16, <1>17, <1>20, <1>21, <1>23, <1>24, <1>25
        DEF HeapInv, ListInv, LocalsInv, Return
-----------------------------------------------------------------------------
LEMMA NextPreserves == HeapInv /\ [Next]_vars => HeapInv'
<1> SUFFICES ASSUME HeapInv, [Next]_vars PROVE HeapInv'
  OBVIOUS
<1>1. CASE heap_init
  BY <1>1, HeapInitPreserves
<1>2. CASE KmallocZero
  BY <1>2, KmallocZeroPreserves
<1>3. CASE \E b \in Requests : KmallocEnter(b)
  BY <1>3, KmallocEnterPreserves
<1>4. CASE \E a \in Allocated : KfreeEnter(a + 1)
  BY <1>4, KfreeEnterPreserves
<1>5. CASE Loop
  BY <1>5, KmallocExactPreserves, KmallocSplitPreserves, KmallocFailPreserves,
     KmallocNextPreserves, KfreeWalkPreserves, KfreeLinkPreserves DEF Loop
<1>6. CASE UNCHANGED vars
  <2>1. ListInv' /\ FreeList' = FreeList /\ Allocated' = Allocated
    BY <1>6, ListUnchanged DEF vars, HeapInv
  <2> QED BY <1>6, <2>1 DEF vars, locals, HeapInv, TypeOK, LocalsInv, SearchInv,
          WalkInv, Passed, Units
<1> QED BY <1>1, <1>2, <1>3, <1>4, <1>5, <1>6 DEF Next

(* HeapInv holds in every state of heap.c, between calls and inside them.  *)
THEOREM Invariance == Spec => []HeapInv
<1>1. Init => HeapInv
  BY InitEstablishes
<1>2. HeapInv /\ [Next]_vars => HeapInv'
  BY NextPreserves
<1> QED BY <1>1, <1>2, PTL DEF Spec
-----------------------------------------------------------------------------
(* The variables always hold values of their types: no pointer of heap.c   *)
(* leaves the heap, no size exceeds it.                                    *)
THEOREM TypeCorrect == Spec => []TypeOK
<1>1. HeapInv => TypeOK
  BY DEF HeapInv
<1> QED BY <1>1, Invariance, PTL

(* The free list always is circular and in address order. *)
THEOREM Sorted == Spec => []FreeListSorted
<1>1. HeapInv => FreeListSorted
  BY DEF HeapInv, ListInv
<1> QED BY <1>1, Invariance, PTL

(* No two free blocks ever touch. *)
THEOREM Coalesced == Spec => []FreeBlocksCoalesced
<1>1. HeapInv => FreeBlocksCoalesced
  BY DEF HeapInv, ListInv
<1> QED BY <1>1, Invariance, PTL

(* What the solvers need of ListInv and TypeOK about blocks. *)
LEMMA BlockFacts ==
  ASSUME HeapInv
  PROVE  /\ \A a \in Blocks : /\ a \in HeapAddr /\ a \in Addr /\ a \in Nat
                              /\ size[a] \in Nat /\ size[a] >= 1
                              /\ a + size[a] <= HeapEnd
         /\ \A a \in Blocks : \A b \in Blocks : a < b => a + size[a] <= b
         /\ freep # NULL =>
              \A u \in HeapAddr : \E a \in Blocks : a <= u /\ u < a + size[a]
         /\ \A a \in Allocated : a \in Blocks /\ a \notin FreeList
         /\ \A a \in Blocks : a \notin Allocated => a \in FreeList
         /\ \A a \in FreeList : \A b \in FreeList : a # Base => a + size[a] # b
<1>1. TypeOK /\ ListInv
  BY DEF HeapInv
<1>2. \A a \in Blocks : a \in HeapAddr /\ a \in Addr /\ a \in Nat
  BY AddrFacts DEF Blocks, FreeList, Allocated
<1>3. \A a \in Blocks : size[a] \in Nat /\ size[a] >= 1 /\ a + size[a] <= HeapEnd
  BY <1>1, <1>2 DEF TypeOK, ListInv, BlockShape
<1>4. \A a \in Allocated : a \in Blocks /\ a \notin FreeList
  BY <1>1 DEF ListInv, Anchored, FreeOrAllocated, Blocks
<1>5. \A a \in FreeList : \A b \in FreeList : a # Base => a + size[a] # b
  BY <1>1 DEF ListInv, FreeBlocksCoalesced
<1> QED BY <1>1, <1>2, <1>3, <1>4, <1>5 DEF ListInv, NoOverlap, Covered, Blocks

(* Where a free block ends, the heap ends or a client's block begins. *)
LEMMA AfterFreeBlock ==
  ASSUME HeapInv, freep # NULL, NEW a \in FreeList, a # Base
  PROVE  a + size[a] = HeapEnd \/ a + size[a] \in Allocated
<1> SUFFICES ASSUME a + size[a] # HeapEnd
             PROVE  a + size[a] \in Allocated
  OBVIOUS
<1>1. a \in Blocks
  BY DEF Blocks
<1>2. /\ a \in Nat /\ size[a] \in Nat /\ size[a] >= 1 /\ a + size[a] <= HeapEnd
      /\ a >= HeapStart
  BY <1>1, BlockFacts, AddrFacts
<1>3. PICK e \in Nat : e = a + size[a]
  BY <1>2
<1>4. e \in HeapAddr
  BY <1>2, <1>3, AddrFacts DEF HeapAddr
<1>5. PICK b \in Blocks : b <= e /\ e < b + size[b]
  BY <1>4, BlockFacts
<1>6. b \in Nat /\ b # a /\ b > a
  <2>1. b \in Nat /\ size[b] \in Nat
    BY BlockFacts
  <2>2. b # a
    BY <1>2, <1>3, <1>5
  <2>3. ~(b < a)
    <3> SUFFICES ASSUME b < a PROVE FALSE
      OBVIOUS
    <3>1. b + size[b] <= a
      BY <1>1, BlockFacts
    <3> QED BY <1>2, <1>3, <1>5, <2>1, <3>1
  <2> QED BY <1>2, <2>1, <2>2, <2>3
<1>7. e <= b
  BY <1>1, <1>3, <1>6, BlockFacts
<1>8. b = e
  BY <1>3, <1>5, <1>6, <1>7
<1> QED BY <1>3, <1>8, BlockFacts

(* Each unit of the heap always belongs to exactly one block, free or a    *)
(* client's.                                                               *)
THEOREM Tiled == Spec => []BlocksTileHeap
<1>1. ASSUME HeapInv, freep # NULL, NEW u \in HeapAddr
      PROVE  \E a \in Blocks : /\ u \in Extent(a)
                               /\ \A b \in Blocks \ {a} : u \notin Extent(b)
  <2>1. PICK a \in Blocks : a <= u /\ u < a + size[a]
    BY <1>1, BlockFacts
  <2>2. u \in Nat
    BY AddrFacts
  <2>3. u \in Extent(a)
    BY <1>1, <2>1, <2>2, BlockFacts DEF Extent
  <2>4. ASSUME NEW b \in Blocks, b # a, u \in Extent(b) PROVE FALSE
    <3>1. b \in Nat /\ a \in Nat /\ size[a] \in Nat /\ size[b] \in Nat
      BY <1>1, BlockFacts
    <3>2. b <= u /\ u < b + size[b]
      BY <2>2, <2>4, <3>1 DEF Extent
    <3>3. a < b \/ b < a
      BY <2>4, <3>1
    <3>4. a + size[a] <= b \/ b + size[b] <= a
      BY <1>1, <3>3, BlockFacts
    <3> QED BY <2>1, <2>2, <3>1, <3>2, <3>4
  <2> QED BY <2>3, <2>4
<1>2. HeapInv => BlocksTileHeap
  BY <1>1 DEF BlocksTileHeap
<1> QED BY <1>2, Invariance, PTL

(* Once everything is given back the heap is one free block again. *)
THEOREM Whole == Spec => []WholeWhenUnused
<1>1. ASSUME HeapInv, Allocated = {}, freep # NULL
      PROVE  size[HeapStart] = HeapUnits
  <2>1. PICK a \in Blocks : a <= HeapStart
    BY <1>1, BlockFacts, AddrFacts
  <2>2. a = HeapStart /\ a \in FreeList /\ a # Base
    BY <1>1, <2>1, BlockFacts, AddrFacts
  <2>3. a + size[a] = HeapEnd
    BY <1>1, <2>2, AfterFreeBlock
  <2> QED BY <1>1, <2>1, <2>2, <2>3, BlockFacts, AddrFacts DEF HeapEnd
<1>2. HeapInv => WholeWhenUnused
  BY <1>1 DEF WholeWhenUnused
<1> QED BY <1>2, Invariance, PTL
-----------------------------------------------------------------------------
(* Requests small enough for kmalloc's rounding not to wrap. *)
NoWrap == \A b \in Requests : b + HeaderBytes - 1 < SizeMod

BigInv ==
  /\ BlocksBigEnough
  /\ pc = "kmalloc" => bytes \in Requests

(* If no request is so large that its rounding wraps, every client has as  *)
(* many bytes as it asked for, as long as it holds the block.              *)
THEOREM BigEnough ==
  ASSUME NoWrap
  PROVE  Spec => []BlocksBigEnough
<1>1. Init => BigInv
  BY DEF Init, BigInv, BlocksBigEnough, Allocated
<1>2. ASSUME HeapInv, BigInv, [Next]_vars PROVE BigInv'
  <2> USE AddrFacts
  <2>1. \A a \in Allocated : a \in Addr /\ asked[a] <= (size[a] - 1) * HeaderBytes
    BY <1>2 DEF BigInv, BlocksBigEnough, Allocated
  <2>2. \A a \in Allocated : a \in Blocks /\ a \notin FreeList /\ a # Base
    BY <1>2, BlockFacts DEF HeapInv, ListInv, Anchored
  (* the block kmalloc gives away is as big as Units says *)
  <2>3. pc = "kmalloc" => bytes <= (nunits - 1) * HeaderBytes
    <3> SUFFICES ASSUME pc = "kmalloc" PROVE bytes <= (nunits - 1) * HeaderBytes
      OBVIOUS
    <3>1. bytes \in Requests /\ nunits = Units(bytes)
      BY <1>2 DEF BigInv, HeapInv, LocalsInv, SearchInv
    <3>2. bytes \in Nat /\ bytes + HeaderBytes - 1 < SizeMod
      BY <3>1, HeapAssumption DEF NoWrap
    <3> QED BY <3>1, <3>2, UnitsEnough
  <2>4. CASE \/ KmallocZero
             \/ \E a \in Allocated : KfreeEnter(a + 1)
             \/ KmallocFail \/ KmallocNext \/ KfreeWalk
             \/ UNCHANGED vars
    BY <1>2, <2>4 DEF KmallocZero, KfreeEnter, KmallocFail, KmallocNext, KfreeWalk,
       Return, vars, locals, BigInv, BlocksBigEnough, Allocated
  <2>5. CASE heap_init \/ \E b \in Requests : KmallocEnter(b)
    <3>1. CASE freep = NULL
      <4>1. Allocated' = {}
        BY <1>2, <2>5, <3>1 DEF heap_init, KmallocEnter, HeapInv, ListInv, Anchored,
           Allocated
      <4>2. pc' = "kmalloc" => bytes' \in Requests
        BY <1>2, <2>5 DEF heap_init, locals, KmallocEnter, BigInv
      <4> QED BY <4>1, <4>2 DEF BigInv, BlocksBigEnough
    <3>2. CASE freep # NULL
      BY <1>2, <2>5, <3>2 DEF heap_init, KmallocEnter, BigInv, BlocksBigEnough,
         Allocated
    <3> QED BY <3>1, <3>2
  <2>6. CASE KmallocExact
    <3>1. /\ pc = "kmalloc" /\ size[p] = nunits /\ size' = size
          /\ asked' = [asked EXCEPT ![p] = bytes] /\ pc' = "idle"
      BY <2>6 DEF KmallocExact, Give, Return
    <3>2. \A a \in Allocated' : a = p \/ (a \in Allocated /\ asked'[a] = asked[a])
      BY <1>2, <3>1 DEF Allocated, HeapInv, TypeOK
    <3>3. p \in Allocated' => asked'[p] = bytes
      BY <1>2, <3>1 DEF Allocated, HeapInv, TypeOK
    <3> QED BY <2>1, <2>3, <3>1, <3>2, <3>3 DEF BigInv, BlocksBigEnough
  <2>7. CASE KmallocSplit
    <3> DEFINE tail == p + (size[p] - nunits)
    <3>1. /\ pc = "kmalloc" /\ size[p] > nunits
          /\ size' = [size EXCEPT ![p] = @ - nunits, ![tail] = nunits]
          /\ asked' = [asked EXCEPT ![tail] = bytes] /\ pc' = "idle"
      BY <2>7 DEF KmallocSplit, Give, Return
    <3>2. p \in FreeList /\ p \in Addr
      BY <1>2, <3>1 DEF HeapInv, LocalsInv, SearchInv, ListInv, FreeListSorted, FreeList
    <3> HIDE DEF tail
    <3>3. \A a \in Allocated' :
            a = tail \/ (a \in Allocated /\ asked'[a] = asked[a] /\ a # tail)
      BY <1>2, <3>1 DEF Allocated, HeapInv, TypeOK
    <3>4. tail \in Allocated' => asked'[tail] = bytes /\ size'[tail] = nunits
      BY <1>2, <3>1 DEF Allocated, HeapInv, TypeOK
    <3>5. \A a \in Allocated : a # tail => size'[a] = size[a]
      BY <1>2, <2>1, <2>2, <3>1, <3>2 DEF HeapInv, TypeOK
    <3> QED BY <2>1, <2>3, <3>1, <3>3, <3>4, <3>5 DEF BigInv, BlocksBigEnough
  <2>8. CASE KfreeLink
    <3>1. PICK n : n = nxt[p]
      OBVIOUS
    <3>2. pc = "kfree" /\ (Between \/ AtEnds) /\ pc' = "idle"
      BY <2>8 DEF KfreeLink, Return
    <3>3. p \in FreeList /\ n \in FreeList /\ bp \in Addr
      BY <1>2, <3>1, <3>2, LinkPlace
    <3>4. PICK bpNext : bpNext = IF JoinsNext THEN nxt[n] ELSE n
      OBVIOUS
    <3>5. PICK bpSize : bpSize = IF JoinsNext THEN size[bp] + size[n] ELSE size[bp]
      OBVIOUS
    <3>6. /\ \A a \in Addr : a \notin {p, bp, n} => size'[a] = size[a]
          /\ asked'[bp] = 0 /\ \A a \in Addr : a # bp => asked'[a] = asked[a]
      BY <1>2, <2>8, <3>1, <3>4, <3>5, LinkEffect
    <3>7. \A a \in Allocated' : /\ a \in Allocated /\ asked'[a] = asked[a]
                                /\ size'[a] = size[a]
      <4>1. \A a \in Allocated' : a \in Addr /\ a # bp /\ asked'[a] > 0
        BY <3>6 DEF Allocated
      <4>2. \A a \in Allocated' : a \in Allocated /\ asked'[a] = asked[a]
        BY <3>6, <4>1 DEF Allocated
      <4> QED BY <2>2, <3>3, <3>6, <4>1, <4>2
    <3> QED BY <2>1, <3>2, <3>7 DEF BigInv, BlocksBigEnough
  <2> QED BY <1>2, <2>4, <2>5, <2>6, <2>7, <2>8 DEF Next, Loop
<1>3. BigInv => BlocksBigEnough
  BY DEF BigInv
<1> QED BY <1>1, <1>2, <1>3, Invariance, PTL DEF Spec
-----------------------------------------------------------------------------
(* The search has looked at every free block when it is back at freep, and *)
(* found all too small: no row of nunits free units exists anywhere.       *)
LEMMA NoRowIsMissed ==
  ASSUME HeapInv, KmallocFail, NEW at \in HeapAddr
  PROVE  ~BA!Fits(at, nunits)
<1> USE AddrFacts
<1>1. /\ SearchInv /\ ListInv /\ pc = "kmalloc" /\ p = freep /\ size[p] < nunits
      /\ nunits \in Nat /\ at \in Nat
  BY DEF HeapInv, LocalsInv, TypeOK, KmallocFail, SearchedAll
<1>2. \A c \in FreeList : size[c] < nunits
  <2> SUFFICES ASSUME NEW c \in FreeList, c # freep PROVE size[c] < nunits
    BY <1>1
  <2>1. /\ prevp \in FreeList /\ freep \in FreeList /\ freep = nxt[prevp]
        /\ Base \in FreeList
    BY <1>1 DEF SearchInv, ListInv, Anchored
  <2>2. c \in Nat /\ prevp \in Nat /\ freep \in Nat /\ Base <= c
    BY <2>1 DEF FreeList
  <2>3. \/ freep > prevp /\ (c <= prevp \/ c >= freep)
        \/ freep = Base /\ c <= prevp
    BY <1>1, <2>1 DEF ListInv, FreeListSorted
  <2>4. Passed(c, prevp)
    BY <2>2, <2>3 DEF Passed
  <2> QED BY <1>1, <2>4 DEF SearchInv
<1> SUFFICES ASSUME BA!Fits(at, nunits) PROVE FALSE
  OBVIOUS
<1>3. /\ at + nunits <= HeapEnd
      /\ \A a \in Allocated : ~(at < a + size[a] /\ a < at + nunits)
  <2>1. \A a \in Allocated :
          [at |-> a, units |-> size[a]] \in {[at |-> x, units |-> size[x]] : x \in Allocated}
    OBVIOUS
  <2> QED BY <2>1 DEF BA!Fits, BA!Touches
<1>4. PICK a \in Blocks : a <= at /\ at < a + size[a]
  BY <1>1, BlockFacts DEF SearchInv
<1>5. a \in Nat /\ size[a] \in Nat
  BY BlockFacts
<1>6. nunits >= 1
  <2>1. bytes \in Nat
    BY DEF HeapInv, TypeOK
  <2>2. Units(bytes) \in Nat \ {0}
    BY <2>1, UnitsPositive
  <2> QED BY <1>1, <2>2 DEF SearchInv
<1>7. a \notin Allocated
  BY <1>1, <1>3, <1>4, <1>5, <1>6
<1>8. a \in FreeList /\ a # Base
  BY <1>7, BlockFacts
<1>9. size[a] < nunits
  BY <1>2, <1>8
<1>10. PICK e \in Nat : e = a + size[a]
  BY <1>5
<1>11. e # HeapEnd /\ at < e /\ e < at + nunits
  BY <1>1, <1>3, <1>4, <1>5, <1>9, <1>10
<1>12. e \in Allocated
  BY <1>1, <1>8, <1>10, <1>11, AfterFreeBlock DEF SearchInv
<1>13. size[e] \in Nat /\ size[e] >= 1
  BY <1>12, BlockFacts
<1> QED BY <1>1, <1>3, <1>10, <1>11, <1>12, <1>13

LEMMA GrantStep ==
  ASSUME HeapInv, NEW at, pc = "kmalloc", pc' = "idle",
         at \in HeapAddr, at + nunits <= HeapEnd,
         \A a \in Allocated : ~(at < a + size[a] /\ a < at + nunits),
         Allocated' = Allocated \cup {at}, size'[at] = nunits,
         \A a \in Allocated : size'[a] = size[a],
         ret' = at + 1, freep # NULL, freep' # NULL
  PROVE  BA!Grant
<1>1. nunits \in Nat /\ nunits > 0
  <2>1. bytes \in Nat /\ nunits = Units(bytes)
    BY DEF HeapInv, TypeOK, LocalsInv, SearchInv
  <2> QED BY <2>1, UnitsPositive
<1>2. BA!Fits(at, nunits)
  BY DEF BA!Fits, BA!Touches
<1>3. {[at |-> a, units |-> size'[a]] : a \in Allocated'}
        = {[at |-> a, units |-> size[a]] : a \in Allocated} \cup {[at |-> at, units |-> nunits]}
  OBVIOUS
<1> QED BY <1>1, <1>2, <1>3 DEF BA!Grant, BA!Block, HeapAddr

(* heap.c implements BlockAllocator: whatever the free list has become, a  *)
(* request is granted with units nobody holds, and refused only if nothing *)
(* is requested or no row of free units is long enough.                    *)
THEOREM Implements == Spec => ImplementsBlockAllocator
<1> USE AddrFacts
<1>1. Init => BA!Init
  <2> SUFFICES ASSUME Init PROVE BA!Init
    OBVIOUS
  <2>1. Allocated = {}
    BY DEF Init, Allocated
  <2> QED BY <2>1 DEF Init, BA!Init, NULL
<1>2. ASSUME HeapInv, heap_init PROVE BA!Setup
  BY <1>2 DEF heap_init, SetUpList, locals, BA!Setup, Allocated, HeapInv, ListInv,
     Anchored, NULL
<1>3. ASSUME HeapInv, KmallocZero PROVE BA!Refuse
  BY <1>3 DEF KmallocZero, locals, BA!Refuse, Allocated, NULL
<1>4. ASSUME HeapInv, NEW b \in Requests, KmallocEnter(b) PROVE BA!Request
  <2>1. Units(b) \in 1 .. SizeMod
    <3>1. b \in Nat /\ HeaderBytes \in Nat \ {0} /\ SizeMod \in Nat \ {0}
      BY HeapAssumption
    <3>2. PICK x \in Nat : x = (b + HeaderBytes - 1) % SizeMod /\ x < SizeMod
      BY <3>1
    <3>3. x \div HeaderBytes \in Nat /\ x \div HeaderBytes <= x
      BY <3>1, Z3
    <3>4. Units(b) = x \div HeaderBytes + 1
      BY <3>2 DEF Units
    <3> QED BY <3>1, <3>2, <3>3, <3>4
  <2>2. pc = "idle" /\ pc' = "kmalloc" /\ nunits' = Units(b) /\ asked' = asked /\ ret' = ret
    BY <1>4 DEF KmallocEnter
  <2>3. Allocated' = Allocated /\ freep' # NULL
    BY <1>4, <2>2 DEF Allocated, KmallocEnter, SetUpList, NULL
  <2>4. \A a \in Allocated : size'[a] = size[a]
    BY <1>4 DEF KmallocEnter, HeapInv, ListInv, Anchored
  <2>5. {[at |-> a, units |-> size'[a]] : a \in Allocated'}
          = {[at |-> a, units |-> size[a]] : a \in Allocated}
    BY <2>3, <2>4
  <2> QED BY <2>1, <2>2, <2>3, <2>5 DEF BA!Request
<1>5. ASSUME HeapInv, KmallocExact PROVE BA!Grant
  <2>1. /\ pc = "kmalloc" /\ pc' = "idle" /\ size[p] = nunits /\ size' = size
        /\ asked' = [asked EXCEPT ![p] = bytes] /\ ret' = p + 1 /\ freep' = prevp
    BY <1>5 DEF KmallocExact, Give, Return
  <2>2. size[p] >= nunits
    BY <1>5, <2>1 DEF HeapInv, TypeOK
  <2>3. /\ p \in HeapAddr /\ p \in Blocks /\ p \in FreeList /\ p + nunits <= HeapEnd
        /\ bytes \in 1 .. SizeMod - 1 /\ prevp \in Addr /\ freep # NULL
    BY <1>5, <2>1, <2>2, FoundBlock
  <2>4. Allocated' = Allocated \cup {p}
    <3>1. bytes > 0 /\ asked \in [Addr -> 0 .. SizeMod - 1]
      BY <1>5, <2>3, HeapAssumption DEF HeapInv, TypeOK
    <3> QED BY <2>1, <2>3, <3>1 DEF Allocated
  <2>5. \A a \in Allocated : ~(p < a + size[a] /\ a < p + nunits)
    <3> SUFFICES ASSUME NEW a \in Allocated
                 PROVE  ~(p < a + size[a] /\ a < p + nunits)
      OBVIOUS
    <3>1. a \in Blocks /\ a # p
      BY <1>5, <2>3, BlockFacts
    <3>2. a \in Nat /\ p \in Nat /\ size[a] \in Nat /\ size[p] \in Nat
      BY <1>5, <2>3, <3>1, BlockFacts
    <3>3. a + size[a] <= p \/ p + size[p] <= a
      BY <1>5, <2>3, <3>1, <3>2, BlockFacts
    <3> QED BY <2>1, <3>2, <3>3
  <2>6. freep' # NULL
    BY <2>1, <2>3 DEF NULL
  <2> QED BY <1>5, <2>1, <2>3, <2>4, <2>5, <2>6, GrantStep
<1>6. ASSUME HeapInv, KmallocSplit PROVE BA!Grant
  <2>1. /\ pc = "kmalloc" /\ pc' = "idle" /\ size[p] > nunits /\ freep' = prevp
    BY <1>6 DEF KmallocSplit, Give, Return
  <2>2. p \in Addr
    BY <1>6, <2>1 DEF HeapInv, LocalsInv, SearchInv, ListInv, FreeListSorted, FreeList
  <2>3. size[p] >= nunits
    BY <1>6, <2>1, <2>2 DEF HeapInv, TypeOK
  <2>4. /\ p \in HeapAddr /\ p \in Blocks /\ p \in FreeList /\ p \in Nat
        /\ nunits \in Nat /\ nunits >= 1 /\ size[p] \in Nat
        /\ p + size[p] <= HeapEnd
        /\ bytes \in 1 .. SizeMod - 1 /\ prevp \in Addr /\ freep # NULL
    BY <1>6, <2>1, <2>3, FoundBlock
  <2>5. PICK t \in Nat : t = p + (size[p] - nunits)
    BY <2>1, <2>4
  <2>6. /\ size' = [size EXCEPT ![p] = @ - nunits, ![t] = nunits]
        /\ asked' = [asked EXCEPT ![t] = bytes] /\ ret' = t + 1
    BY <1>6, <2>5 DEF KmallocSplit, Give
  <2>7. p < t /\ t + nunits = p + size[p] /\ t + nunits <= HeapEnd
        /\ t \in HeapAddr /\ t \in Addr
    BY <2>1, <2>4, <2>5 DEF HeapAddr, Addr
  <2>8. Allocated' = Allocated \cup {t}
    <3>1. bytes > 0 /\ asked \in [Addr -> 0 .. SizeMod - 1]
      BY <1>6, <2>4, HeapAssumption DEF HeapInv, TypeOK
    <3> QED BY <2>6, <2>7, <3>1 DEF Allocated
  <2>9. \A a \in Allocated : ~(t < a + size[a] /\ a < t + nunits)
    <3> SUFFICES ASSUME NEW a \in Allocated
                 PROVE  ~(t < a + size[a] /\ a < t + nunits)
      OBVIOUS
    <3>1. a \in Blocks /\ a # p
      BY <1>6, <2>4, BlockFacts
    <3>2. a \in Nat /\ size[a] \in Nat
      BY <1>6, <3>1, BlockFacts
    <3>3. a + size[a] <= p \/ p + size[p] <= a
      BY <1>6, <2>4, <3>1, <3>2, BlockFacts
    <3> QED BY <2>4, <2>7, <3>2, <3>3
  <2>10. size'[t] = nunits /\ \A a \in Allocated : size'[a] = size[a]
    <3>1. \A a \in Allocated : a # p /\ a # t /\ a \in Addr
      <4> SUFFICES ASSUME NEW a \in Allocated PROVE a # p /\ a # t /\ a \in Addr
        OBVIOUS
      <4>1. a \in Nat /\ size[a] \in Nat /\ size[a] >= 1 /\ a \notin FreeList /\ a \in Addr
        BY <1>6, BlockFacts
      <4> QED BY <2>4, <2>7, <2>9, <4>1
    <3> QED BY <1>6, <2>6, <2>7, <3>1 DEF HeapInv, TypeOK
  <2>11. freep' # NULL
    BY <2>1, <2>4 DEF NULL
  <2> QED BY <1>6, <2>1, <2>4, <2>6, <2>7, <2>8, <2>9, <2>10, <2>11, GrantStep
<1>7. ASSUME HeapInv, KmallocFail PROVE BA!Refuse
  <2>1. \A at \in HeapStart .. HeapEnd - 1 : ~BA!Fits(at, nunits)
    BY <1>7, NoRowIsMissed DEF HeapAddr
  <2>2. /\ pc = "kmalloc" /\ pc' = "idle" /\ ret' = NULL
        /\ UNCHANGED <<size, freep, asked>>
    BY <1>7 DEF KmallocFail, Return
  <2> QED BY <2>1, <2>2 DEF BA!Refuse, Allocated, NULL
<1>8. ASSUME HeapInv, KmallocNext \/ KfreeWalk \/ UNCHANGED vars
      PROVE  UNCHANGED BA!vars
  BY <1>8 DEF KmallocNext, KfreeWalk, vars, locals, BA!vars, Allocated
<1>9. ASSUME HeapInv, NEW a \in Allocated, KfreeEnter(a + 1) PROVE UNCHANGED BA!vars
  BY <1>9 DEF KfreeEnter, BA!vars, Allocated
<1>10. ASSUME HeapInv, KfreeLink PROVE BA!GiveBack
  <2>1. PICK n : n = nxt[p]
    OBVIOUS
  <2>2. pc = "kfree" /\ (Between \/ AtEnds) /\ pc' = "idle" /\ ret' = ret /\ freep' = p
    BY <1>10 DEF KfreeLink, Return
  <2>3. p \in FreeList /\ p \in Addr /\ n \in FreeList /\ bp \in Allocated /\ freep # NULL
    BY <1>10, <2>1, <2>2, LinkPlace
  <2>4. PICK bpNext : bpNext = IF JoinsNext THEN nxt[n] ELSE n
    OBVIOUS
  <2>5. PICK bpSize : bpSize = IF JoinsNext THEN size[bp] + size[n] ELSE size[bp]
    OBVIOUS
  <2>6. /\ \A a \in Addr : a \notin {p, bp, n} => size'[a] = size[a]
        /\ asked'[bp] = 0 /\ \A a \in Addr : a # bp => asked'[a] = asked[a]
    BY <1>10, <2>1, <2>4, <2>5, LinkEffect
  <2>7. Allocated' = Allocated \ {bp}
    <3>1. \A a \in Addr : asked'[a] > 0 <=> asked[a] > 0 /\ a # bp
      <4>1. ~(asked'[bp] > 0)
        BY <2>6
      <4> QED BY <2>6, <4>1
    <3> QED BY <3>1 DEF Allocated
  <2>8. \A a \in Allocated : a \in Addr /\ a \notin FreeList
    BY <1>10, BlockFacts
  <2>9. \A a \in Allocated \ {bp} : size'[a] = size[a]
    BY <2>3, <2>6, <2>8
  <2>10. {[at |-> a, units |-> size'[a]] : a \in Allocated'}
           = {[at |-> a, units |-> size[a]] : a \in Allocated}
               \ {[at |-> bp, units |-> size[bp]]}
    <3>1. \A a \in Allocated \ {bp} :
            [at |-> a, units |-> size'[a]] = [at |-> a, units |-> size[a]]
            /\ [at |-> a, units |-> size[a]] # [at |-> bp, units |-> size[bp]]
      BY <2>9
    <3> QED BY <2>7, <2>9, <3>1
  <2>11. freep' # NULL
    BY <2>2, <2>3 DEF NULL
  <2> QED BY <2>2, <2>3, <2>10, <2>11 DEF BA!GiveBack
<1>11. HeapInv /\ [Next]_vars => [BA!Next]_(BA!vars)
  BY <1>2, <1>3, <1>4, <1>5, <1>6, <1>7, <1>8, <1>9, <1>10 DEF Next, Loop, BA!Next
<1> QED BY <1>1, <1>11, Invariance, PTL DEF Spec, BA!Spec, ImplementsBlockAllocator
-----------------------------------------------------------------------------
(* Every call comes to its end: the addresses a search has still to go by. *)

(* From a upwards, and on from Base, to where the search ends. *)
Ahead(a, end) == IF a < end THEN end - a ELSE end + HeapEnd - a

(* kmalloc is on its way back to freep, kfree to the place of bp. *)
Distance == IF pc = "kmalloc" THEN Ahead(prevp, freep) ELSE Ahead(p, bp)

Advances == pc' = pc /\ Distance <= 2 * HeapEnd /\ Distance' \in 0 .. Distance - 1

CallsAdvance == [][pc # "idle" => pc' = "idle" \/ Advances]_vars

LEMMA KmallocNextAdvances ==
  ASSUME HeapInv, KmallocNext
  PROVE  Advances
<1> USE AddrFacts
<1>1. /\ SearchInv /\ ListInv /\ pc = "kmalloc" /\ p # freep /\ p = nxt[prevp]
      /\ prevp' = p /\ UNCHANGED <<freep, pc>>
  BY DEF HeapInv, LocalsInv, KmallocNext, SearchedAll, SearchInv
<1>2. prevp \in FreeList /\ freep \in FreeList /\ p \in FreeList
  BY <1>1 DEF SearchInv, ListInv, Anchored, FreeListSorted
<1>3. \A a \in FreeList : a \in Nat /\ Base <= a /\ a < HeapEnd
  BY HeapAssumption DEF FreeList, HeapEnd
<1>4. \/ p > prevp /\ (freep <= prevp \/ freep >= p)
      \/ p = Base /\ freep <= prevp
  BY <1>1, <1>2 DEF ListInv, FreeListSorted
<1>5. Distance = Ahead(prevp, freep) /\ Distance' = Ahead(p, freep)
  BY <1>1 DEF Distance, Ahead
<1> QED BY <1>1, <1>2, <1>3, <1>4, <1>5 DEF Ahead, Advances

LEMMA KfreeWalkAdvances ==
  ASSUME HeapInv, KfreeWalk
  PROVE  Advances
<1> USE AddrFacts
<1>1. /\ WalkInv /\ ListInv /\ pc = "kfree" /\ ~Between /\ ~AtEnds
      /\ p' = nxt[p] /\ UNCHANGED <<bp, pc>>
  BY DEF HeapInv, LocalsInv, KfreeWalk
<1>2. p \in FreeList /\ nxt[p] \in FreeList /\ bp \in Allocated /\ bp \notin FreeList
  BY <1>1 DEF WalkInv, ListInv, FreeListSorted, FreeOrAllocated
<1>3. \A a \in FreeList : a \in Nat /\ Base <= a /\ a < HeapEnd
  BY HeapAssumption DEF FreeList, HeapEnd
<1>4. bp \in Nat /\ Base < bp /\ bp < HeapEnd
  BY <1>1, <1>2 DEF Allocated, ListInv, Anchored
<1>5. PICK n : n = nxt[p]
  OBVIOUS
<1>6. n > p \/ n = Base
  BY <1>1, <1>2, <1>5 DEF ListInv, FreeListSorted
<1>7. /\ n \in Nat /\ p \in Nat /\ n # bp /\ p # bp /\ Base <= n /\ Base <= p
      /\ n < HeapEnd /\ p < HeapEnd
  BY <1>2, <1>3, <1>5
<1>8. ~(p < bp /\ bp < n) /\ ~(p >= n /\ (bp > p \/ bp < n))
  BY <1>1, <1>5 DEF Between, AtEnds
<1>9. Distance = Ahead(p, bp) /\ Distance' = Ahead(n, bp)
  BY <1>1, <1>5 DEF Distance, Ahead
<1> QED BY <1>1, <1>4, <1>6, <1>7, <1>8, <1>9 DEF Ahead, Advances

(* Every turn of a loop of kmalloc or kfree ends the call or brings it     *)
(* nearer to its end, and the way is never longer than twice HeapEnd: the  *)
(* circular list sends no search round for ever.                           *)
THEOREM Advance == Spec => CallsAdvance
<1>1. ASSUME HeapInv, [Next]_vars
      PROVE  [pc # "idle" => pc' = "idle" \/ Advances]_vars
  <2> SUFFICES ASSUME Next, pc # "idle"
               PROVE  pc' = "idle" \/ Advances
    BY <1>1
  <2>1. Loop
    BY DEF Next, heap_init, KmallocZero, KmallocEnter, KfreeEnter
  <2>2. CASE KmallocExact \/ KmallocSplit \/ KmallocFail \/ KfreeLink
    BY <2>2 DEF KmallocExact, KmallocSplit, KmallocFail, KfreeLink, Give, Return
  <2>3. CASE KmallocNext
    BY <1>1, <2>3, KmallocNextAdvances
  <2>4. CASE KfreeWalk
    BY <1>1, <2>4, KfreeWalkAdvances
  <2> QED BY <2>1, <2>2, <2>3, <2>4 DEF Loop
<1> QED BY <1>1, Invariance, PTL DEF Spec, CallsAdvance
=============================================================================
