--------------------------- MODULE FrameAllocator ---------------------------
(***************************************************************************)
(* What a client of pmm.c may rely on, with no bitmap and no counter.  A   *)
(* pool of frames is fixed once, when the memory manager is set up; after  *)
(* that a request takes some frame out of the pool and hands it to the     *)
(* caller, a request is refused only when the pool is empty, and a frame   *)
(* goes back to the pool when its holder returns it.                       *)
(***************************************************************************)
EXTENDS Naturals

CONSTANTS
  Frames,   \* the addresses a frame can have; NoFrame is not one of them
  NoFrame   \* the answer to a request that is refused

VARIABLES
  ready,    \* has the pool been fixed?
  pool,     \* frames that can be handed out
  held,     \* frames in the hands of clients
  ret       \* the answer to the last request

vars == <<ready, pool, held, ret>>

Init ==
  /\ ready = FALSE
  /\ pool = {}
  /\ held = {}
  /\ ret = NoFrame

Setup ==
  /\ ~ready
  /\ ready' = TRUE
  /\ pool' \in SUBSET Frames
  /\ UNCHANGED <<held, ret>>

Grant ==
  \E f \in pool :
    /\ pool' = pool \ {f}
    /\ held' = held \cup {f}
    /\ ret' = f
    /\ UNCHANGED ready

Refuse ==
  /\ pool = {}
  /\ ret' = NoFrame
  /\ UNCHANGED <<ready, pool, held>>

Return ==
  \E f \in held :
    /\ held' = held \ {f}
    /\ pool' = pool \cup {f}
    /\ UNCHANGED <<ready, ret>>

Next == Setup \/ Grant \/ Refuse \/ Return

Spec == Init /\ [][Next]_vars
=============================================================================
