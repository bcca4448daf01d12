--------------------------- MODULE PageAllocator ---------------------------
(***************************************************************************)
(* What the physical memory manager promises its callers: there is a pool  *)
(* of free pages that only grows by pages nobody has, an allocation takes  *)
(* a run of consecutive pages out of the pool, and giving a block back     *)
(* returns exactly its pages.  Bitmaps, search orders and memory maps are  *)
(* unknown here; Pmm.tla is shown to implement this.                       *)
(***************************************************************************)
EXTENDS Naturals

CONSTANT Sizes      \* the numbers of pages a caller may ask for

VARIABLES
  pool,             \* pages that may be handed out
  out               \* blocks handed out and not given back: [start, pages]

vars == <<pool, out>>

Span(b) == b.start .. b.start + b.pages - 1

Taken == UNION {Span(b) : b \in out}

Init == pool = {} /\ out = {}

(* Memory that belonged to nobody becomes available. *)
Donate ==
  /\ pool \subseteq pool'
  /\ (pool' \ pool) \cap Taken = {}
  /\ UNCHANGED out

Grant ==
  \E n \in Sizes, s \in pool :
    LET b == [start |-> s, pages |-> n]
    IN  /\ Span(b) \subseteq pool
        /\ pool' = pool \ Span(b)
        /\ out' = out \cup {b}

GiveBack ==
  \E b \in out :
    /\ pool' = pool \cup Span(b)
    /\ out' = out \ {b}

Next == Donate \/ Grant \/ GiveBack

Spec == Init /\ [][Next]_vars
=============================================================================
