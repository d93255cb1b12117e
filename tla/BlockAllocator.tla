--------------------------- MODULE BlockAllocator ---------------------------
(***************************************************************************)
(* What a client of heap.c may rely on, with no list and no headers: the   *)
(* heap is a row of units; a request for n of them is answered with n      *)
(* units in a row that no client holds, and is refused only when there is  *)
(* no such row; what a client gives back is free again, in one piece with  *)
(* what is free around it.                                                 *)
(***************************************************************************)
EXTENDS Integers

CONSTANTS
  First, End,   \* the units of the heap are First .. End - 1
  MaxWant       \* no request is for more units than this

VARIABLES
  ready,    \* has the heap been set up?
  want,     \* units of the request being served, 0 when there is none
  held,     \* blocks in the hands of clients
  answer    \* last answer: the unit after the block's first one, or 0

vars == <<ready, want, held, answer>>

Block(at, units) == [at |-> at, units |-> units]

Touches(b, at, units) == at < b.at + b.units /\ b.at < at + units

(* units in a row from at on are in the heap and in nobody's hands. *)
Fits(at, units) ==
  /\ at + units <= End
  /\ \A b \in held : ~Touches(b, at, units)

Init == ready = FALSE /\ want = 0 /\ held = {} /\ answer = 0

Setup ==
  /\ ~ready
  /\ ready' = TRUE
  /\ UNCHANGED <<want, held, answer>>

(* A request may be the first use of the heap. *)
Request ==
  /\ want = 0
  /\ want' \in 1 .. MaxWant
  /\ ready' = TRUE
  /\ UNCHANGED <<held, answer>>

Grant ==
  /\ want > 0
  /\ \E at \in First .. End - 1 :
       /\ Fits(at, want)
       /\ held' = held \cup {Block(at, want)}
       /\ answer' = at + 1
  /\ want' = 0
  /\ UNCHANGED ready

(* Nothing is requested (0 bytes), or nothing is left that is big enough. *)
Refuse ==
  /\ \A at \in First .. End - 1 : want > 0 => ~Fits(at, want)
  /\ answer' = 0
  /\ want' = 0
  /\ UNCHANGED <<ready, held>>

GiveBack ==
  /\ want = 0
  /\ \E b \in held : held' = held \ {b}
  /\ UNCHANGED <<ready, want, answer>>

Next == Setup \/ Request \/ Grant \/ Refuse \/ GiveBack

Spec == Init /\ [][Next]_vars
=============================================================================
