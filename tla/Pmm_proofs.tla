----------------------------- MODULE Pmm_proofs -----------------------------
(***************************************************************************)
(* Proofs about the physical memory manager, for every set of well-formed  *)
(* memory maps, every page and byte size and every set of request sizes.   *)
(***************************************************************************)
EXTENDS Pmm, FiniteSetTheorems, WellFoundedInduction, TLAPS

(* A range of n pages has n pages.                                         *)
LEMMA RangeSize ==
  ASSUME NEW s \in Nat, NEW n \in Nat
  PROVE  /\ IsFiniteSet(s .. s + n - 1)
         /\ Cardinality(s .. s + n - 1) = n
<1>1. s + n - 1 \in Int /\ s \in Int
  OBVIOUS
<1>2. /\ IsFiniteSet(s .. s + n - 1)
      /\ Cardinality(s .. s + n - 1) = IF s > s + n - 1 THEN 0 ELSE s + n - 1 - s + 1
  BY <1>1, FS_Interval
<1> QED
  BY <1>2

(* The bitmap has a whole number of pages.                                 *)
LEMMA MapPagesNat ==
  ASSUME NEW h \in Nat
  PROVE  MapPages(h) \in Nat
<1>1. h \div BITS \in Nat
  BY PmmAssumption
<1>2. h \div BITS + (PAGE_SIZE - 1) \in Nat
  BY <1>1, PmmAssumption
<1> QED
  BY <1>2, PmmAssumption DEF MapPages, div_round_up

(* The entries of a memory map are records of naturals.                    *)
LEMMA EntryFields ==
  ASSUME TypeOK, NEW k \in 1 .. Len(memmap)
  PROVE  /\ memmap[k] \in Entry
         /\ memmap[k].type \in EntryTypes
         /\ memmap[k].base \in Nat
         /\ memmap[k].length \in Nat
<1>1. memmap[k] \in Entry
  BY DEF TypeOK
<1> QED
  BY <1>1 DEF Entry

(* The start state satisfies the invariant: nothing is free, nothing out.  *)
LEMMA InitIInv == Init => IInv
<1> SUFFICES ASSUME Init PROVE IInv
  OBVIOUS
<1>1. /\ memmap \in Seq(Entry) /\ Apart(memmap)
  BY PmmAssumption DEF Init, WellFormed
<1>2. TypeOK
  BY <1>1 DEF Init, TypeOK, Phases
<1>3. BitmapApart
  BY DEF BitmapApart, BitmapPages, Init
<1>4. Released = {} /\ Taken = {}
  BY <1>1 DEF Released, Taken, Init
<1>5. Conservation
  BY <1>4 DEF Conservation, Init
<1>6. IsFiniteSet(clear) /\ FreePagesExact
  BY FS_EmptySet DEF FreePagesExact, Init
<1> QED
  BY <1>1, <1>2, <1>3, <1>5, <1>6 DEF IInv, AtStart, Init

(* Cutting the bitmap off an entry leaves the entries apart from each      *)
(* other and from the bitmap.                                              *)
LEMMA PmmInitKeepsIInv ==
  ASSUME IInv, PmmInit
  PROVE  IInv'
<1>1. /\ TypeOK /\ Apart(memmap) /\ Conservation
      /\ IsFiniteSet(clear) /\ FreePagesExact
  BY DEF IInv
<1>2. PICK h \in Tops(memmap), k \in Usable(memmap) :
        /\ highest_usable_page_index' = h
        /\ memmap[k].length >= MapPages(h)
        /\ bitmap' = [map |-> memmap[k].base, size |-> MapPages(h)]
        /\ memmap' = [memmap EXCEPT ![k] = Carved(@, MapPages(h))]
  BY DEF PmmInit, Fits, Scan
<1>3. k \in 1 .. Len(memmap) /\ memmap[k].type = "usable"
  BY DEF Usable
<1>4. \A j \in 1 .. Len(memmap) :
        memmap[j] \in Entry /\ memmap[j].base \in Nat /\ memmap[j].length \in Nat
  BY <1>1, EntryFields
<1>5. h \in Nat
  BY <1>4 DEF Tops, Usable
<1>6. MapPages(h) \in Nat
  BY <1>5, MapPagesNat
<1> DEFINE p == MapPages(h)
           e == [type |-> "usable", base |-> memmap[k].base + p, length |-> memmap[k].length - p]
<1>7. Carved(memmap[k], p) = e
  BY <1>3 DEF Carved
<1>8. e \in Entry
  BY <1>2, <1>3, <1>4, <1>6 DEF Entry, EntryTypes
<1> HIDE DEF e, p
<1>9. memmap' = [memmap EXCEPT ![k] = e]
  BY <1>2, <1>7 DEF p
<1>10. memmap' \in Seq(Entry) /\ Len(memmap') = Len(memmap)
  BY <1>1, <1>3, <1>8, <1>9 DEF TypeOK
<1>11. \A j \in 1 .. Len(memmap) :
         /\ memmap'[j].type = memmap[j].type
         /\ j # k => memmap'[j] = memmap[j]
         /\ Extent(memmap'[j]) \subseteq Extent(memmap[j])
  <2> SUFFICES ASSUME NEW j \in 1 .. Len(memmap)
               PROVE  /\ memmap'[j].type = memmap[j].type
                      /\ j # k => memmap'[j] = memmap[j]
                      /\ Extent(memmap'[j]) \subseteq Extent(memmap[j])
    OBVIOUS
  <2>1. CASE j = k
    <3>1. memmap'[k] = e
      BY <1>1, <1>3, <1>9 DEF TypeOK
    <3>2. Extent(e) \subseteq Extent(memmap[k])
      BY <1>2, <1>3, <1>4, <1>6 DEF Extent, e, p
    <3> QED
      BY <2>1, <3>1, <3>2, <1>3 DEF e
  <2>2. CASE j # k
    BY <2>2, <1>1, <1>9 DEF TypeOK
  <2> QED
    BY <2>1, <2>2
<1>12. phase = "boot" /\ phase' = "freeing" /\ i' = i /\ i \in 1 .. Len(memmap) + 1
  BY <1>1 DEF PmmInit, TypeOK
<1>13. TypeOK'
  BY <1>1, <1>2, <1>3, <1>4, <1>5, <1>6, <1>10, <1>12 DEF TypeOK, PmmInit, Phases
<1>14. Apart(memmap')
  BY <1>1, <1>10, <1>11 DEF Apart
<1>15. BitmapApart'
  <2>1. BitmapPages' = memmap[k].base .. memmap[k].base + p - 1
    BY <1>2 DEF BitmapPages, p
  <2>2. BitmapPages' \subseteq Extent(memmap[k])
    BY <2>1, <1>2, <1>3, <1>4, <1>6 DEF Extent, p
  <2>3. Extent(memmap'[k]) \cap BitmapPages' = {}
    <3>1. memmap'[k] = e
      BY <1>1, <1>3, <1>9 DEF TypeOK
    <3> QED
      BY <3>1, <2>1, <1>2, <1>3, <1>4, <1>6 DEF Extent, e, p
  <2>4. \A j \in 1 .. Len(memmap) : j # k /\ memmap[j].type # "other"
          => Extent(memmap'[j]) \cap BitmapPages' = {}
    BY <2>2, <1>1, <1>3, <1>11 DEF Apart
  <2> QED
    BY <2>3, <2>4, <1>10, <1>11 DEF BitmapApart
<1>16. Released = {} /\ Released' = {}
  <2>1. i = 1 /\ i' = 1
    BY <1>12 DEF IInv, AtStart
  <2>2. \A k1 \in 1 .. Len(memmap) : ~ (k1 < 1)
    OBVIOUS
  <2> QED
    BY <2>1, <2>2, <1>10, <1>12 DEF Released
<1>17. /\ clear' = clear /\ free_pages' = free_pages /\ Taken' = Taken /\ blocks' = blocks
  BY DEF PmmInit, Taken
<1>18. Conservation'
  BY <1>1, <1>16, <1>17 DEF Conservation
<1> QED
  BY <1>1, <1>12, <1>13, <1>14, <1>15, <1>17, <1>18 DEF IInv, AtStart, FreePagesExact

(* A step that moves neither pages nor entries keeps the invariant.        *)
LEMMA SameMemory ==
  ASSUME IInv, UNCHANGED <<memmap, bitmap, clear, free_pages, blocks>>,
         Released' = Released, TypeOK', AtStart', phase = "boot" => phase' = "boot"
  PROVE  IInv'
BY DEF IInv, BitmapApart, BitmapPages, Conservation, Taken, FreePagesExact

(* Freeing the next entry of the memory map: its pages were neither free   *)
(* nor in a block before.                                                  *)
LEMMA FreeEntryKeepsIInv ==
  ASSUME IInv, NEW type, FreeEntry(type),
         \/ phase = "freeing" /\ type = "usable"
         \/ phase = "reclaiming" /\ type = "reclaimable"
  PROVE  IInv'
<1>1. /\ TypeOK /\ Apart(memmap) /\ Conservation
      /\ IsFiniteSet(clear) /\ FreePagesExact
  BY DEF IInv
<1>2. /\ i \in 1 .. Len(memmap) /\ i' = i + 1 /\ Len(memmap) \in Nat
      /\ memmap' = memmap /\ bitmap' = bitmap /\ phase' = phase
      /\ blocks' = blocks /\ AtStart'
      /\ UNCHANGED <<highest_usable_page_index, cached_page_index, stopped, wanted>>
  BY <1>1 DEF FreeEntry, TypeOK, AtStart
<1>3. /\ memmap[i].base \in Nat /\ memmap[i].length \in Nat
  BY <1>1, <1>2, EntryFields
<1>4. Taken' = Taken
  BY <1>2 DEF Taken
<1>5. CASE memmap[i].type = type
  <2> DEFINE E == Extent(memmap[i])
  <2>1. clear' = clear \cup E /\ free_pages' = free_pages + memmap[i].length
    BY <1>5 DEF FreeEntry, pmm_free, Extent
  <2>2. Released' = Released \cup {i} /\ i \notin Released
    BY <1>2, <1>5 DEF Released
  <2>3. E \cap (clear \cup Taken) = {}
    <3>1. \A k \in Released : Extent(memmap[k]) \cap E = {}
      BY <1>1, <1>2, <1>5, <2>2 DEF Apart, Released
    <3> QED
      BY <3>1, <1>1 DEF Conservation
  <2>4. IsFiniteSet(E) /\ Cardinality(E) = memmap[i].length
    BY <1>3, RangeSize DEF Extent
  <2> HIDE DEF E
  <2>5. IsFiniteSet(clear') /\ Cardinality(clear') = Cardinality(clear) + memmap[i].length
    <3>1. E \cap clear = {} /\ Cardinality({}) = 0
      BY <2>3, FS_EmptySet
    <3>2. /\ IsFiniteSet(clear \cup E)
          /\ Cardinality(clear \cup E)
               = Cardinality(clear) + Cardinality(E) - Cardinality(clear \cap E)
      BY <2>4, <1>1, FS_Union
    <3>3. clear \cap E = {} /\ Cardinality(clear) \in Nat
      BY <3>1, <1>1, FS_CardinalityType
    <3>4. Cardinality(clear \cap E) = 0
      BY <3>1, <3>3
    <3>5. Cardinality(clear \cup E) = Cardinality(clear) + memmap[i].length
      BY <3>2, <3>3, <3>4, <2>4, <1>3
    <3> QED
      BY <3>2, <3>5, <2>1
  <2>6. FreePagesExact'
    BY <2>1, <2>5, <1>1 DEF FreePagesExact
  <2>7. E \subseteq Nat
    BY <1>3 DEF Extent, E
  <2>8. TypeOK'
    <3>1. free_pages' \in Nat /\ clear' \in SUBSET Nat
      BY <2>1, <2>7, <1>1, <1>3 DEF TypeOK
    <3> QED
      BY <3>1, <1>1, <1>2 DEF TypeOK
  <2>9. Conservation'
    <3>1. UNION {Extent(memmap[k]) : k \in Released'}
            = (UNION {Extent(memmap[k]) : k \in Released}) \cup E
      BY <2>2 DEF E
    <3> QED
      BY <3>1, <2>1, <2>3, <1>1, <1>2, <1>4 DEF Conservation
  <2> QED
    BY <2>5, <2>6, <2>8, <2>9, <1>2 DEF IInv, BitmapApart, BitmapPages
<1>6. CASE memmap[i].type # type
  <2>1. UNCHANGED <<memmap, bitmap, clear, free_pages, blocks>>
    BY <1>6 DEF FreeEntry
  <2>2. Released' = Released
    BY <1>2, <1>6 DEF Released
  <2>3. TypeOK'
    BY <2>1, <1>1, <1>2 DEF TypeOK, FreeEntry
  <2> QED
    BY <2>1, <2>2, <2>3, <1>2, SameMemory
<1> QED
  BY <1>5, <1>6

(* Taking a run of clear bits moves its pages from the pool to one block.  *)
LEMMA TakeKeepsIInv ==
  ASSUME IInv, NEW n \in Requests, NEW lo, NEW hi, NEW s, Take(s, Runs(n, lo, hi), n)
  PROVE  IInv'
<1>1. /\ TypeOK /\ Apart(memmap) /\ Conservation
      /\ IsFiniteSet(clear) /\ FreePagesExact
  BY DEF IInv
<1>2. s \in Nat /\ n \in Nat /\ n > 0 /\ s .. s + n - 1 \subseteq clear
  BY <1>1, PmmAssumption DEF Take, Runs, TypeOK
<1> DEFINE b == [start |-> s, pages |-> n]
<1>3. b \in Block /\ Span(b) = s .. s + n - 1 /\ s \in Span(b)
  BY <1>2 DEF Block, Span
<1> HIDE DEF b
<1>4. /\ clear' = clear \ Span(b) /\ blocks' = blocks \cup {b}
      /\ free_pages' = free_pages - n
      /\ UNCHANGED <<memmap, bitmap, highest_usable_page_index, phase, i, stopped, wanted>>
      /\ cached_page_index' = s + n
  BY <1>3 DEF Take, b
<1>5. Span(b) \subseteq clear
  BY <1>2, <1>3
<1>6. Taken' = Taken \cup Span(b)
  BY <1>4 DEF Taken
<1>7. IsFiniteSet(clear') /\ Cardinality(clear') = Cardinality(clear) - n
      /\ Cardinality(clear') \in Nat
  <2>1. IsFiniteSet(Span(b)) /\ Cardinality(Span(b)) = n
    BY <1>2, <1>3, RangeSize
  <2>2. /\ IsFiniteSet(clear \ Span(b))
        /\ Cardinality(clear \ Span(b)) = Cardinality(clear) - Cardinality(clear \cap Span(b))
    BY <1>1, FS_Difference
  <2>3. clear \cap Span(b) = Span(b)
    BY <1>5
  <2>4. Cardinality(clear \ Span(b)) \in Nat
    BY <2>2, FS_CardinalityType
  <2> QED
    BY <2>1, <2>2, <2>3, <2>4, <1>4
<1>8. FreePagesExact' /\ free_pages' \in Nat
  BY <1>1, <1>4, <1>7 DEF FreePagesExact
<1>9. TypeOK'
  BY <1>1, <1>2, <1>3, <1>4, <1>8 DEF TypeOK
<1>10. Released' = Released
  BY <1>4 DEF Released
<1>11. Conservation'
  <2>1. \A c \in blocks : Span(c) \subseteq Taken
    BY DEF Taken
  <2>2. \A c \in blocks : Span(c) \cap Span(b) = {}
    BY <2>1, <1>1, <1>5 DEF Conservation
  <2>3. \A c, d \in blocks' : c # d => Span(c) \cap Span(d) = {}
    BY <2>2, <1>1, <1>4 DEF Conservation
  <2>4. clear' \cup Taken' = clear \cup Taken /\ clear' \cap Taken' = {}
    BY <1>1, <1>4, <1>5, <1>6 DEF Conservation
  <2> QED
    BY <2>3, <2>4, <1>1, <1>4, <1>10 DEF Conservation
<1> QED
  BY <1>1, <1>4, <1>7, <1>8, <1>9, <1>11 DEF IInv, AtStart, BitmapApart, BitmapPages

(* Freeing a block puts its pages, and nobody else's, back into the pool.  *)
LEMMA FreeKeepsIInv ==
  ASSUME IInv, NEW b \in blocks, Free(b)
  PROVE  IInv'
<1>1. /\ TypeOK /\ Apart(memmap) /\ Conservation
      /\ IsFiniteSet(clear) /\ FreePagesExact
  BY DEF IInv
<1>2. b.start \in Nat /\ b.pages \in Nat
  BY <1>1 DEF TypeOK, Block
<1>3. /\ clear' = clear \cup Span(b) /\ blocks' = blocks \ {b}
      /\ free_pages' = free_pages + b.pages
      /\ UNCHANGED <<memmap, bitmap, highest_usable_page_index, cached_page_index,
                     phase, i, stopped, wanted>>
  BY DEF Free, pmm_free, Span
<1>4. Span(b) \subseteq Taken /\ Span(b) \cap clear = {}
  BY <1>1 DEF Taken, Conservation
<1>5. Taken' = Taken \ Span(b)
  <2>1. \A c \in blocks \ {b} : Span(c) \cap Span(b) = {}
    BY <1>1 DEF Conservation
  <2> QED
    BY <2>1, <1>3 DEF Taken
<1>6. IsFiniteSet(clear') /\ Cardinality(clear') = Cardinality(clear) + b.pages
  <2>1. IsFiniteSet(Span(b)) /\ Cardinality(Span(b)) = b.pages
    BY <1>2, RangeSize DEF Span
  <2>2. /\ IsFiniteSet(clear \cup Span(b))
        /\ Cardinality(clear \cup Span(b))
             = Cardinality(clear) + Cardinality(Span(b)) - Cardinality(clear \cap Span(b))
    BY <2>1, <1>1, FS_Union
  <2>3. Cardinality(clear \cap Span(b)) = 0 /\ Cardinality(clear) \in Nat
    BY <1>1, <1>4, FS_EmptySet, FS_CardinalityType
  <2>4. Cardinality(clear \cup Span(b)) = Cardinality(clear) + b.pages
    BY <2>1, <2>2, <2>3, <1>2
  <2> QED
    BY <2>2, <2>4, <1>3
<1>7. FreePagesExact'
  BY <1>1, <1>3, <1>6 DEF FreePagesExact
<1>8. TypeOK'
  <2>1. clear' \in SUBSET Nat /\ free_pages' \in Nat /\ blocks' \in SUBSET Block
    <3>1. Span(b) \subseteq Nat
      BY <1>2 DEF Span
    <3>2. free_pages' \in Nat
      BY <1>1, <1>2, <1>3 DEF TypeOK
    <3> QED
      BY <3>1, <3>2, <1>1, <1>3 DEF TypeOK
  <2> QED
    BY <2>1, <1>1, <1>3 DEF TypeOK
<1>9. Released' = Released
  BY <1>3 DEF Released
<1>10. Conservation'
  <2>1. clear' \cup Taken' = clear \cup Taken /\ clear' \cap Taken' = {}
    BY <1>1, <1>3, <1>4, <1>5 DEF Conservation
  <2>2. \A c, d \in blocks' : c # d => Span(c) \cap Span(d) = {}
    BY <1>1, <1>3 DEF Conservation
  <2> QED
    BY <2>1, <2>2, <1>1, <1>3, <1>9 DEF Conservation
<1> QED
  BY <1>1, <1>3, <1>6, <1>7, <1>8, <1>10 DEF IInv, AtStart, BitmapApart, BitmapPages

(* Entering the next phase releases nothing by itself: a loop that has     *)
(* ended has freed every entry of its type, one that begins has freed none.*)
LEMMA EnterKeepsIInv ==
  ASSUME IInv, PmmInitReturns \/ CallReclaim \/ ReclaimReturns
  PROVE  IInv'
<1>1. TypeOK /\ Len(memmap) \in Nat
  BY DEF IInv, TypeOK
<1>2. UNCHANGED <<memmap, bitmap, clear, free_pages, blocks>>
  BY DEF PmmInitReturns, CallReclaim, ReclaimReturns, Enter
<1>3. /\ phase # "boot" /\ phase' \in {"running", "reclaiming", "reclaimed"}
      /\ i' \in 1 .. Len(memmap) + 1
  BY <1>1 DEF PmmInitReturns, CallReclaim, ReclaimReturns, Enter, TypeOK
<1>4. TypeOK' /\ AtStart'
  BY <1>1, <1>2, <1>3
     DEF TypeOK, AtStart, Phases, PmmInitReturns, CallReclaim, ReclaimReturns, Enter
<1>5. Released' = Released
  <2>1. CASE PmmInitReturns
    BY <2>1, <1>1 DEF PmmInitReturns, Enter, Released, TypeOK
  <2>2. CASE CallReclaim
    BY <2>2, <1>1 DEF CallReclaim, Enter, Released, TypeOK
  <2>3. CASE ReclaimReturns
    BY <2>3, <1>1 DEF ReclaimReturns, Enter, Released, TypeOK
  <2> QED
    BY <2>1, <2>2, <2>3
<1> QED
  BY <1>2, <1>3, <1>4, <1>5, SameMemory

(* Stopping changes no memory.                                             *)
LEMMA StopKeepsIInv ==
  ASSUME IInv, NEW how \in {"oom", "wild"}, NEW n \in Requests \cup {0}, Stop(how, n)
  PROVE  IInv'
<1>1. TypeOK /\ AtStart
  BY DEF IInv
<1>2. TypeOK' /\ AtStart'
  BY <1>1 DEF TypeOK, AtStart, Stop
<1>3. Released' = Released
  BY DEF Released, Stop
<1> QED
  BY <1>2, <1>3, SameMemory DEF Stop

(* So does giving up on a place for the bitmap.                            *)
LEMMA PmmInitNoRoomKeepsIInv ==
  ASSUME IInv, PmmInitNoRoom
  PROVE  IInv'
<1>1. /\ TypeOK /\ AtStart /\ phase = "boot"
  BY DEF IInv, PmmInitNoRoom
<1>2. PICK h \in Tops(memmap) : /\ highest_usable_page_index' = h
                                /\ bitmap' = [map |-> 0, size |-> MapPages(h)]
  BY DEF PmmInitNoRoom, Scan
<1>3. h \in Nat
  BY <1>1, EntryFields DEF Tops, Usable
<1>4. /\ UNCHANGED <<memmap, clear, free_pages, cached_page_index, phase, i, blocks, wanted>>
      /\ stopped' = "wild"
  BY DEF PmmInitNoRoom
<1>5. TypeOK'
  BY <1>1, <1>2, <1>3, <1>4, MapPagesNat DEF TypeOK
<1>6. Conservation' /\ FreePagesExact' /\ AtStart' /\ BitmapApart'
  BY <1>1, <1>4 DEF IInv, Conservation, Released, Taken, FreePagesExact, AtStart, BitmapApart
<1> QED
  BY <1>4, <1>5, <1>6 DEF IInv

(* Every step keeps the invariant.                                         *)
LEMMA NextIInv == IInv /\ [Next]_vars => IInv'
<1> SUFFICES ASSUME IInv, [Next]_vars PROVE IInv'
  OBVIOUS
<1>1. CASE PmmInit
  BY <1>1, PmmInitKeepsIInv
<1>2. CASE PmmInitNoRoom
  BY <1>2, PmmInitNoRoomKeepsIInv
<1>3. CASE FreeUsable \/ FreeReclaimable
  BY <1>3, FreeEntryKeepsIInv DEF FreeUsable, FreeReclaimable
<1>4. CASE PmmInitReturns \/ CallReclaim \/ ReclaimReturns
  BY <1>4, EnterKeepsIInv
<1>5. CASE FreeStrays
  BY <1>5, StopKeepsIInv DEF FreeStrays
<1>6. ASSUME NEW n \in Requests, AllocAbove(n) \/ AllocBelow(n)
      PROVE  IInv'
  BY <1>6, TakeKeepsIInv DEF AllocAbove, AllocBelow, Above, Below
<1>7. ASSUME NEW n \in Requests, OutOfMemory(n) \/ SearchStrays(n)
      PROVE  IInv'
  BY <1>7, StopKeepsIInv DEF OutOfMemory, SearchStrays
<1>8. ASSUME NEW b \in blocks, Free(b)
      PROVE  IInv'
  BY <1>8, FreeKeepsIInv
<1>9. CASE UNCHANGED vars
  <2>1. TypeOK' /\ AtStart'
    BY <1>9 DEF vars, IInv, TypeOK, AtStart
  <2>2. Released' = Released
    BY <1>9 DEF vars, Released
  <2> QED
    BY <2>1, <2>2, <1>9, SameMemory DEF vars
<1> QED
  BY <1>1, <1>2, <1>3, <1>4, <1>5, <1>6, <1>7, <1>8, <1>9 DEF Next, KernelNext

(* The invariant holds for every client of pmm.h.                          *)
THEOREM PmmInvariant == Spec => []IInv
<1>1. Init => IInv
  BY InitIInv
<1>2. IInv /\ [Next]_vars => IInv'
  BY NextIInv
<1> QED
  BY <1>1, <1>2, PTL DEF Spec

(* Type correctness; in particular free_pages never goes below zero.       *)
THEOREM PmmTypeOK == Spec => []TypeOK
<1>1. IInv => TypeOK
  BY DEF IInv
<1> QED
  BY <1>1, PmmInvariant, PTL

(* Every released page is free or in exactly one block, on every memory    *)
(* map and after any sequence of allocations and frees.                    *)
THEOREM PmmConservation == Spec => []Conservation
<1>1. IInv => Conservation
  BY DEF IInv
<1> QED
  BY <1>1, PmmInvariant, PTL

(* The counter of free pages equals the number of clear bits.              *)
THEOREM PmmFreePagesExact == Spec => []FreePagesExact
<1>1. IInv => FreePagesExact
  BY DEF IInv
<1> QED
  BY <1>1, PmmInvariant, PTL

(* No page of the bitmap is ever free or handed out.                       *)
THEOREM PmmBitmapProtected == Spec => []BitmapProtected
<1>1. IInv => BitmapProtected
  <2> SUFFICES ASSUME IInv PROVE BitmapProtected
    OBVIOUS
  <2>1. CASE phase = "boot"
    <3>1. Released = {}
      BY <2>1 DEF Released
    <3> QED
      BY <3>1 DEF IInv, Conservation, BitmapProtected
  <2>2. CASE phase # "boot"
    <3>1. \A k \in Released : Extent(memmap[k]) \cap BitmapPages = {}
      BY <2>2 DEF IInv, BitmapApart, Released
    <3> QED
      BY <3>1 DEF IInv, Conservation, BitmapProtected
  <2> QED
    BY <2>1, <2>2
<1> QED
  BY <1>1, PmmInvariant, PTL

-----------------------------------------------------------------------------
(* The refinement: allocating is granting, freeing a block is giving it    *)
(* back, the loops over the memory map donate, and all else stutters.      *)
THEOREM PmmImplementsAllocator == Spec => ImplementsAllocator
<1>1. Init => Allocator!Init
  BY DEF Init, Allocator!Init
<1>2. IInv /\ [Next]_vars => [Allocator!Next]_(Allocator!vars)
  <2> SUFFICES ASSUME IInv, [Next]_vars, ~ UNCHANGED <<clear, blocks>>
               PROVE  Allocator!Next
    BY DEF Allocator!vars
  <2>1. Conservation' /\ Conservation
    BY NextIInv DEF IInv
  <2>2. CASE \E type : FreeEntry(type)
    <3>1. clear \subseteq clear' /\ blocks' = blocks
      BY <2>2 DEF FreeEntry, pmm_free
    <3>2. (clear' \ clear) \cap Allocator!Taken = {}
      BY <3>1, <2>1 DEF Conservation, Taken, Span, Allocator!Taken, Allocator!Span
    <3> QED
      BY <3>1, <3>2 DEF Allocator!Next, Allocator!Donate
  <2>3. ASSUME NEW n \in Requests, NEW lo, NEW hi, NEW s, Take(s, Runs(n, lo, hi), n)
        PROVE  Allocator!Next
    <3> DEFINE b == [start |-> s, pages |-> n]
    <3>1. s \in clear /\ Allocator!Span(b) = s .. s + n - 1
      BY <2>3 DEF Take, Runs, Allocator!Span
    <3>2. Allocator!Span(b) \subseteq clear /\ clear' = clear \ Allocator!Span(b)
          /\ blocks' = blocks \cup {b}
      BY <2>3, <3>1 DEF Take, Runs
    <3> QED
      BY <3>1, <3>2 DEF Allocator!Next, Allocator!Grant
  <2>4. ASSUME NEW b \in blocks, Free(b)
        PROVE  Allocator!Next
    BY <2>4 DEF Free, pmm_free, Allocator!Next, Allocator!GiveBack, Allocator!Span
  <2>5. CASE \/ PmmInit \/ PmmInitNoRoom \/ FreeStrays
             \/ PmmInitReturns \/ CallReclaim \/ ReclaimReturns
             \/ \E n \in Requests : OutOfMemory(n) \/ SearchStrays(n)
             \/ UNCHANGED vars
    BY <2>5 DEF PmmInit, PmmInitNoRoom, FreeStrays, PmmInitReturns, CallReclaim,
                ReclaimReturns, OutOfMemory, SearchStrays, Enter, Stop, vars
  <2>6. CASE \E n \in Requests : AllocAbove(n) \/ AllocBelow(n)
    BY <2>3, <2>6 DEF AllocAbove, AllocBelow, Above, Below
  <2> QED
    BY <2>2, <2>4, <2>5, <2>6 DEF Next, KernelNext, FreeUsable, FreeReclaimable
<1> QED
  BY <1>1, <1>2, PmmInvariant, PTL DEF ImplementsAllocator, Allocator!Spec, Spec

-----------------------------------------------------------------------------
(* Out of memory.  A free run that both searches miss lies across          *)
(* cached_page_index; the kernel never frees the page below that index.    *)
LEMMA RunsAreOnOneSide ==
  ASSUME TypeOK, NEW n \in Requests, Above(n) = {}, Below(n) = {},
         NEW s \in Runs(n, 0, highest_usable_page_index)
  PROVE  s < cached_page_index /\ cached_page_index < s + n
<1>1. /\ s \in Nat /\ n \in Nat /\ cached_page_index \in Nat
      /\ highest_usable_page_index \in Nat
  BY PmmAssumption DEF TypeOK, Runs
<1>2. ~ (cached_page_index <= s)
  BY <1>1 DEF Above, Runs
<1>3. ~ (s + n <= cached_page_index)
  BY <1>1 DEF Below, Runs
<1> QED
  BY <1>1, <1>2, <1>3

(* For every client of pmm.h: memory that an "Out of memory" panic missed  *)
(* lies across cached_page_index.                                          *)
THEOREM PmmMissesOnlyAcrossTheCache == Spec => []MissesOnlyAcrossTheCache
<1>1. Init => MissesOnlyAcrossTheCache
  BY DEF Init, MissesOnlyAcrossTheCache
<1>2. IInv /\ MissesOnlyAcrossTheCache /\ [Next]_vars => MissesOnlyAcrossTheCache'
  <2> SUFFICES ASSUME IInv, MissesOnlyAcrossTheCache, [Next]_vars
               PROVE  MissesOnlyAcrossTheCache'
    OBVIOUS
  <2>1. ASSUME NEW n \in Requests, OutOfMemory(n)
        PROVE  MissesOnlyAcrossTheCache'
    BY <2>1, RunsAreOnOneSide
       DEF IInv, OutOfMemory, Stop, MissesOnlyAcrossTheCache, Runs
  <2>2. CASE UNCHANGED vars
    BY <2>2 DEF vars, MissesOnlyAcrossTheCache, Runs
  <2>3. CASE stopped' # "oom"
    BY <2>3 DEF MissesOnlyAcrossTheCache
  <2>4. CASE /\ Next
             /\ ~ \E n \in Requests : OutOfMemory(n)
    <3>1. stopped = "no" /\ stopped' # "oom"
      BY <2>4 DEF Next, KernelNext, PmmInit, PmmInitNoRoom, FreeUsable, FreeReclaimable,
                  FreeEntry, PmmInitReturns, CallReclaim, ReclaimReturns, FreeStrays,
                  AllocAbove, AllocBelow, SearchStrays, Enter, Stop, Take, Free, Serving
    <3> QED
      BY <3>1, <2>3
  <2> QED
    BY <2>1, <2>2, <2>4
<1> QED
  BY <1>1, <1>2, PmmInvariant, PTL DEF Spec

(* Nobody frees the page just below cached_page_index.                     *)
CacheIsBehindABlock == cached_page_index = 0 \/ cached_page_index - 1 \in Taken

(* For the kernel, which frees no block, "Out of memory" is only said when *)
(* no free run of the wanted size exists below the top of usable memory.   *)
THEOREM KernelOutOfMemoryIsReal == KernelSpec => []OutOfMemoryIsReal
<1>1. Init => CacheIsBehindABlock
  BY DEF Init, CacheIsBehindABlock
<1>2. KernelNext => Next
  BY DEF Next
<1>3. IInv /\ CacheIsBehindABlock /\ [KernelNext]_vars => CacheIsBehindABlock'
  <2> SUFFICES ASSUME IInv, CacheIsBehindABlock, [KernelNext]_vars
               PROVE  CacheIsBehindABlock'
    OBVIOUS
  <2>1. CASE UNCHANGED <<cached_page_index, blocks>>
    BY <2>1 DEF CacheIsBehindABlock, Taken
  <2>2. ASSUME NEW n \in Requests, NEW lo, NEW hi, NEW s, Take(s, Runs(n, lo, hi), n)
        PROVE  CacheIsBehindABlock'
    <3>1. s \in Nat /\ n \in Nat \ {0} /\ cached_page_index' = s + n
      BY <2>2, PmmAssumption DEF IInv, TypeOK, Take, Runs
    <3>2. [start |-> s, pages |-> n] \in blocks'
      BY <2>2 DEF Take
    <3>3. cached_page_index' - 1 \in Span([start |-> s, pages |-> n])
      BY <3>1 DEF Span
    <3> QED
      BY <3>2, <3>3 DEF CacheIsBehindABlock, Taken
  <2>3. CASE \E n \in Requests : AllocAbove(n) \/ AllocBelow(n)
    BY <2>2, <2>3 DEF AllocAbove, AllocBelow, Above, Below
  <2> QED
    BY <2>1, <2>3
       DEF KernelNext, PmmInit, PmmInitNoRoom, FreeUsable, FreeReclaimable, FreeEntry,
           PmmInitReturns, CallReclaim, ReclaimReturns, FreeStrays, OutOfMemory,
           SearchStrays, Enter, Stop, vars
<1>4. IInv /\ CacheIsBehindABlock /\ MissesOnlyAcrossTheCache => OutOfMemoryIsReal
  <2> SUFFICES ASSUME IInv, CacheIsBehindABlock, MissesOnlyAcrossTheCache, stopped = "oom",
                      NEW s \in Runs(wanted, 0, highest_usable_page_index)
               PROVE  FALSE
    BY DEF OutOfMemoryIsReal
  <2>1. s < cached_page_index /\ cached_page_index < s + wanted
    BY DEF MissesOnlyAcrossTheCache
  <2>2. s \in Nat /\ wanted \in Nat /\ cached_page_index \in Nat
    BY PmmAssumption DEF IInv, TypeOK, Runs
  <2>3. cached_page_index - 1 \in clear
    BY <2>1, <2>2 DEF Runs
  <2> QED
    BY <2>1, <2>2, <2>3 DEF CacheIsBehindABlock, IInv, Conservation
<1>5. KernelSpec => Spec
  BY <1>2, PTL DEF KernelSpec, Spec
<1> QED
  BY <1>1, <1>3, <1>4, <1>5, PmmInvariant, PmmMissesOnlyAcrossTheCache, PTL DEF KernelSpec

-----------------------------------------------------------------------------
(* How many bits the bitmap has.                                           *)

(* Quotient and remainder, as a sum the provers can work with.             *)
LEMMA DivMod ==
  ASSUME NEW a \in Nat, NEW b \in Nat \ {0}
  PROVE  \E c \in Nat, d \in 0 .. b - 1 : c = a \div b /\ d = a % b /\ a = b * c + d
<1>1. PICK c \in Nat : c = a \div b
  OBVIOUS
<1>2. PICK d \in 0 .. b - 1 : d = a % b
  OBVIOUS
<1>3. d = a - b * c
  BY <1>1, <1>2
<1>4. a = b * c + d
  <2>1. \A x \in Nat, y \in Nat : y = a - b * x => a = b * x + y
    OBVIOUS
  <2>2. d \in Nat
    BY <1>2
  <2> QED
    BY <1>3, <2>1, <2>2
<1> QED
  BY <1>1, <1>2, <1>4

(* A product grows with its factor.                                        *)
LEMMA ProductMonotone ==
  ASSUME NEW x \in Nat, NEW y \in Nat, NEW b \in Nat \ {0}
  PROVE  x <= y <=> b * x <= b * y
  OBVIOUS

(* A bitmap of MapPages pages has a bit for every page, but for the tops   *)
(* that the computation rounds away.                                       *)
LEMMA MapPagesSuffice ==
  ASSUME NEW h \in Nat, ~ RoundedAway(h)
  PROVE  h <= MapPages(h) * PAGE_SIZE * BITS
<1> DEFINE B == BITS  P == PAGE_SIZE
<1>1. B \in Nat \ {0} /\ P \in Nat \ {0} /\ B * P \in Nat \ {0}
  <2>1. BITS \in Nat \ {0} /\ PAGE_SIZE \in Nat \ {0}
    BY PmmAssumption
  <2> QED
    BY <2>1
<1> HIDE DEF B, P
<1>2. PICK a \in Nat, s \in 0 .. B - 1 : a = h \div B /\ s = h % B /\ h = B * a + s
  BY <1>1, DivMod
<1>3. PICK q \in Nat, r \in 0 .. B * P - 1 :
        q = h \div (B * P) /\ r = h % (B * P) /\ h = (B * P) * q + r
  BY <1>1, DivMod
<1>4. PICK m \in Nat, t \in 0 .. P - 1 :
        m = (a + (P - 1)) \div P /\ t = (a + (P - 1)) % P /\ a + (P - 1) = P * m + t
  <2>1. a + (P - 1) \in Nat
    BY <1>1
  <2> QED
    BY <1>1, <2>1, DivMod
<1>5. r = 0 \/ r >= B
  BY <1>1, <1>3 DEF RoundedAway, B, P
<1>6. MapPages(h) = m
  BY <1>2, <1>4 DEF MapPages, div_round_up, B, P
<1>7. P * q \in Nat /\ P * m \in Nat /\ B * a \in Nat /\ B * (P * m) \in Nat /\ B * (P * q) \in Nat
      /\ (B * P) * q = B * (P * q) /\ m * P * B = B * (P * m)
  <2>1. P * q \in Nat /\ P * m \in Nat /\ B * a \in Nat
    BY <1>1
  <2>2. (B * P) * q = B * (P * q) /\ m * P * B = B * (P * m)
    BY <1>1
  <2> QED
    BY <1>1, <2>1, <2>2
<1>8. a <= P * m
  BY <1>1, <1>4, <1>7
<1>9. CASE r = 0
  <2>1. h = B * (P * q)
    BY <1>1, <1>3, <1>7, <1>9
  <2>2. P * q <= a
    <3>1. CASE a + 1 <= P * q
      <4>1. B * (a + 1) <= B * (P * q)
        BY <1>1, <1>2, <1>7, <3>1, ProductMonotone
      <4>2. B * (a + 1) = B * a + B
        BY <1>1, <1>2
      <4> QED
        BY <1>1, <1>2, <1>7, <2>1, <4>1, <4>2
    <3> QED
      BY <1>2, <1>7, <3>1
  <2>3. B * (P * q) <= B * (P * m)
    BY <1>1, <1>2, <1>8, <1>7, <2>2, ProductMonotone
  <2> QED
    BY <1>6, <1>7, <2>1, <2>3 DEF B, P
<1>10. CASE r >= B
  <2>1. B * (P * q) + B <= B * a + s
    BY <1>1, <1>2, <1>3, <1>7, <1>10
  <2>2. P * q + 1 <= a
    <3>1. CASE a <= P * q
      <4>1. B * a <= B * (P * q)
        BY <1>1, <1>2, <1>7, <3>1, ProductMonotone
      <4> QED
        BY <1>1, <1>2, <1>7, <2>1, <4>1
    <3> QED
      BY <1>2, <1>7, <3>1
  <2>3. q + 1 <= m
    <3>1. CASE m <= q
      <4>1. P * m <= P * q
        BY <1>1, <1>3, <1>4, <3>1, ProductMonotone
      <4> QED
        BY <1>2, <1>8, <1>7, <2>2, <4>1
    <3> QED
      BY <1>3, <1>4, <3>1
  <2>4. (B * P) * (q + 1) <= (B * P) * m
    <3>1. q + 1 \in Nat
      BY <1>3
    <3> QED
      BY <1>1, <1>4, <2>3, <3>1, ProductMonotone
  <2>5. (B * P) * (q + 1) = (B * P) * q + B * P /\ (B * P) * q \in Nat
    BY <1>1
  <2>6. (B * P) * m = m * P * B /\ (B * P) * m \in Nat
    BY <1>1
  <2> QED
    BY <1>1, <1>3, <1>4, <1>6, <1>7, <2>4, <2>5, <2>6 DEF B, P
<1> QED
  BY <1>5, <1>9, <1>10

(* The bitmap was sized for the top of memory, which no usable entry       *)
(* exceeds, also after one of them has been carved.                        *)
Sized ==
  phase # "boot" =>
    /\ bitmap.size = MapPages(highest_usable_page_index)
    /\ \A k \in Usable(memmap) : memmap[k].base + memmap[k].length <= highest_usable_page_index

(* pmm_init gives the bitmap its size from the highest usable page.        *)
LEMMA PmmInitSized ==
  ASSUME IInv, PmmInit
  PROVE  Sized'
<1>1. TypeOK
  BY DEF IInv
<1>2. PICK h \in Tops(memmap), k \in Usable(memmap) :
        /\ Scan(h) /\ Fits(k, MapPages(h))
        /\ bitmap' = [map |-> memmap[k].base, size |-> MapPages(h)]
        /\ memmap' = [memmap EXCEPT ![k] = Carved(@, MapPages(h))]
  BY DEF PmmInit
<1>3. h \in Nat
  BY <1>1, EntryFields DEF Tops, Usable
<1>4. highest_usable_page_index' = h /\ \A t \in Tops(memmap) : t <= h
  BY <1>2 DEF Scan
<1>5. MapPages(h) \in Nat /\ MapPages(h) <= memmap[k].length
  BY <1>2, <1>3, MapPagesNat DEF Fits
<1>6. ASSUME NEW j \in Usable(memmap')
      PROVE  memmap'[j].base + memmap'[j].length <= h
  <2>1. memmap \in Seq(Entry) /\ j \in 1 .. Len(memmap) /\ k \in 1 .. Len(memmap)
    BY <1>1, <1>2 DEF TypeOK, Usable
  <2>2. CASE j = k
    <3>1. /\ memmap'[j].base = memmap[k].base + MapPages(h)
          /\ memmap'[j].length = memmap[k].length - MapPages(h)
      BY <1>2, <2>1, <2>2 DEF Carved
    <3>2. memmap[k].base + memmap[k].length <= h
      BY <1>4 DEF Tops
    <3>3. memmap[k].base \in Nat /\ memmap[k].length \in Nat
      BY <1>1, <2>1, EntryFields
    <3> QED
      BY <1>3, <1>5, <3>1, <3>2, <3>3
  <2>3. CASE j # k
    <3>1. memmap'[j] = memmap[j]
      BY <1>2, <2>1, <2>3
    <3>2. j \in Usable(memmap)
      BY <2>1, <3>1 DEF Usable
    <3> QED
      BY <1>4, <3>1, <3>2 DEF Tops
  <2> QED
    BY <2>2, <2>3
<1> QED
  BY <1>2, <1>4, <1>6 DEF Sized

(* No later step moves a usable entry or the size of the bitmap.           *)
LEMMA NextSized == IInv /\ Sized /\ [Next]_vars => Sized'
<1> SUFFICES ASSUME IInv, Sized, [Next]_vars PROVE Sized'
  OBVIOUS
<1>1. CASE PmmInit
  BY <1>1, PmmInitSized
<1>2. CASE PmmInitNoRoom
  BY <1>2 DEF PmmInitNoRoom, Sized
<1>3. CASE ~ PmmInit /\ ~ PmmInitNoRoom
  <2>1. UNCHANGED <<memmap, bitmap, highest_usable_page_index>> /\ (phase = "boot" => phase' = "boot")
    BY <1>3 DEF Next, KernelNext, FreeUsable, FreeEntry, PmmInitReturns, CallReclaim, FreeReclaimable,
                ReclaimReturns, Enter, FreeStrays, Stop, AllocAbove, AllocBelow, Take, OutOfMemory,
                SearchStrays, Free, vars
  <2> QED
    BY <2>1 DEF Sized, Usable
<1> QED
  BY <1>1, <1>2, <1>3

(* There is a bit for every usable page.                                   *)
LEMMA BitsSuffice ==
  ASSUME IInv, Sized, phase # "boot", ~ RoundedAway(highest_usable_page_index)
  PROVE  highest_usable_page_index <= Bits
  BY MapPagesSuffice DEF IInv, TypeOK, Sized, Bits

(* A step that leaves the bitmap does it in one of the three named cases.  *)
LEMMA NextStrays == IInv /\ Sized /\ StraysOnlyAtTheEdges /\ [Next]_vars => StraysOnlyAtTheEdges'
<1> SUFFICES ASSUME IInv, Sized, StraysOnlyAtTheEdges, [Next]_vars, stopped' = "wild"
             PROVE  StraysOnlyAtTheEdges'
  BY DEF StraysOnlyAtTheEdges
<1>1. CASE PmmInitNoRoom
  <2>1. PICK h \in Tops(memmap) :
          /\ \A k \in Usable(memmap) : ~ Fits(k, MapPages(h))
          /\ bitmap' = [map |-> 0, size |-> MapPages(h)]
    BY <1>1 DEF PmmInitNoRoom
  <2>2. TypeOK /\ h \in Nat
    BY EntryFields DEF IInv, Tops, Usable
  <2>3. \A k \in Usable(memmap) : memmap[k].length < MapPages(h)
    <3>1. MapPages(h) \in Nat
      BY <2>2, MapPagesNat
    <3>2. \A k \in Usable(memmap) : memmap[k].length \in Nat
      BY <2>2, EntryFields DEF Usable
    <3> QED
      BY <2>1, <3>1, <3>2 DEF Fits
  <2>4. phase' = "boot" /\ memmap' = memmap /\ bitmap'.size = MapPages(h)
    BY <1>1, <2>1 DEF PmmInitNoRoom
  <2> QED
    BY <2>3, <2>4 DEF StraysOnlyAtTheEdges, Usable
<1>2. CASE FreeStrays
  <2>1. UNCHANGED <<memmap, bitmap, highest_usable_page_index, phase, i>>
    BY <1>2 DEF FreeStrays, Stop
  <2>2. /\ i \in 1 .. Len(memmap) /\ phase # "boot"
        /\ phase = "freeing" => i \in Usable(memmap)
        /\ phase = "freeing" \/ (phase = "reclaiming" /\ memmap[i].type = "reclaimable")
    BY <1>2 DEF FreeStrays, Usable, IInv, TypeOK
  <2>3. memmap[i].base + memmap[i].length > Bits
    <3>1. Bits \in Nat
      BY PmmAssumption DEF IInv, TypeOK, Bits
    <3> QED
      BY <1>2, <2>2, <3>1, EntryFields DEF FreeStrays, InBitmap, IInv
  <2>4. CASE RoundedAway(highest_usable_page_index)
    BY <2>1, <2>4 DEF StraysOnlyAtTheEdges, RoundedAway
  <2>5. CASE ~ RoundedAway(highest_usable_page_index)
    <3>1. highest_usable_page_index <= Bits /\ Bits \in Nat /\ highest_usable_page_index \in Nat
      BY <2>2, <2>5, BitsSuffice, PmmAssumption DEF IInv, TypeOK, Bits
    <3>2. memmap[i].base \in Nat /\ memmap[i].length \in Nat
      BY <2>2, EntryFields DEF IInv
    <3>3. memmap[i].base + memmap[i].length > highest_usable_page_index
      BY <2>3, <3>1, <3>2
    <3>4. phase # "freeing"
      BY <2>2, <3>1, <3>2, <3>3 DEF Sized
    <3> QED
      BY <2>1, <2>2, <3>3, <3>4 DEF StraysOnlyAtTheEdges
  <2> QED
    BY <2>4, <2>5
<1>3. ASSUME NEW n \in Requests, SearchStrays(n) PROVE StraysOnlyAtTheEdges'
  <2>1. UNCHANGED <<highest_usable_page_index>> /\ phase # "boot" /\ ~ (highest_usable_page_index <= Bits)
    BY <1>3 DEF SearchStrays, Stop, Serving, SearchStays
  <2>2. RoundedAway(highest_usable_page_index)
    BY <2>1, BitsSuffice
  <2> QED
    BY <2>1, <2>2 DEF StraysOnlyAtTheEdges, RoundedAway
<1>4. CASE UNCHANGED vars
  BY <1>4 DEF vars, StraysOnlyAtTheEdges, Usable, RoundedAway
<1> QED
  <2>1. ~ (PmmInit \/ FreeUsable \/ PmmInitReturns \/ CallReclaim \/ FreeReclaimable \/ ReclaimReturns)
    BY DEF PmmInit, FreeUsable, FreeEntry, PmmInitReturns, CallReclaim, FreeReclaimable, ReclaimReturns, Enter
  <2>2. \A n \in Requests : ~ (AllocAbove(n) \/ AllocBelow(n) \/ OutOfMemory(n))
    BY DEF AllocAbove, AllocBelow, Take, OutOfMemory, Serving, Stop
  <2>3. \A b \in blocks : ~ Free(b)
    BY DEF Free, Serving
  <2> QED
    BY <1>1, <1>2, <1>3, <1>4, <2>1, <2>2, <2>3 DEF Next, KernelNext

(* The bitmap is accessed outside of its bounds only in the three cases    *)
(* that StraysOnlyAtTheEdges names, on every memory map: it has a bit for  *)
(* every page unless the top of memory is one of those rounded away.       *)
THEOREM PmmStraysOnlyAtTheEdges == Spec => []StraysOnlyAtTheEdges
<1>1. Init => Sized /\ StraysOnlyAtTheEdges
  BY DEF Init, Sized, StraysOnlyAtTheEdges
<1> QED
  BY <1>1, NextSized, NextStrays, PmmInvariant, PTL DEF Spec

-----------------------------------------------------------------------------
(* The search loop.  Induction over the numbers, from WFMin.               *)
LEMMA LessIsWellFounded == IsWellFoundedOn({p \in Nat \X Nat : p[1] < p[2]}, Nat)
  BY NatLessThanWellFounded DEF OpToRel

LEMMA SetInduction ==
  ASSUME NEW S, 0 \in S, \A n \in Nat : n \in S => n + 1 \in S
  PROVE  Nat \subseteq S
<1> DEFINE Less == {p \in Nat \X Nat : p[1] < p[2]}
           Rest == Nat \ S
<1> SUFFICES ASSUME Rest # {} PROVE FALSE
  OBVIOUS
<1>1. PICK n \in Rest : \A k \in Rest : ~ (<<k, n>> \in Less)
  <2>1. IsWellFoundedOn(Less, Nat) /\ Rest \subseteq Nat
    BY LessIsWellFounded
  <2> HIDE DEF Less, Rest
  <2> QED
    BY <2>1, WFMin
<1>2. n \in Nat /\ n \notin S /\ n # 0
  OBVIOUS
<1>3. n - 1 \in Nat /\ n - 1 < n /\ n - 1 + 1 = n
  BY <1>2
<1>4. n - 1 \notin Rest
  <2>1. <<n - 1, n>> \in Less
    BY <1>2, <1>3
  <2> QED
    BY <1>1, <2>1
<1>5. n - 1 \in S
  BY <1>3, <1>4
<1> QED
  BY <1>2, <1>3, <1>5

(* The clear bits just below k begin at b.                                 *)
Begins(b, k, lo) ==
  b \in lo .. k /\ b .. k - 1 \subseteq clear /\ (b = lo \/ b - 1 \notin clear)

LEMMA OneBeginning ==
  ASSUME NEW lo \in Nat, NEW k \in Nat, NEW a, NEW b, Begins(a, k, lo), Begins(b, k, lo)
  PROVE  a = b
<1>1. a \in Nat /\ b \in Nat /\ a >= lo /\ b >= lo /\ a <= k /\ b <= k
  BY DEF Begins
<1>2. ~ (a < b)
  <2> SUFFICES ASSUME a < b PROVE FALSE
    OBVIOUS
  <2>1. b - 1 \in a .. k - 1 /\ b # lo
    BY <1>1
  <2> QED
    BY <2>1 DEF Begins
<1>3. ~ (b < a)
  <2> SUFFICES ASSUME b < a PROVE FALSE
    OBVIOUS
  <2>1. a - 1 \in b .. k - 1 /\ a # lo
    BY <1>1
  <2> QED
    BY <2>1 DEF Begins
<1> QED
  BY <1>1, <1>2, <1>3

LEMMA BeginningIs ==
  ASSUME NEW lo \in Nat, NEW k \in Nat, k >= lo
  PROVE  /\ k = lo => Begins(k, k, lo)
         /\ k > lo /\ k - 1 \notin clear => Begins(k, k, lo)
         /\ \A b : k > lo /\ k - 1 \in clear /\ Begins(b, k - 1, lo) => Begins(b, k, lo)
<1>1. k .. k - 1 = {} /\ k \in lo .. k
  OBVIOUS
<1>2. ASSUME NEW b, k > lo, k - 1 \in clear, Begins(b, k - 1, lo) PROVE Begins(b, k, lo)
  <2>1. b \in lo .. k - 1 /\ b .. k - 1 - 1 \subseteq clear /\ (b = lo \/ b - 1 \notin clear)
    BY <1>2 DEF Begins
  <2>2. b .. k - 1 \subseteq (b .. k - 1 - 1) \cup {k - 1} /\ b \in lo .. k
    BY <2>1
  <2> QED
    BY <1>2, <2>1, <2>2 DEF Begins
<1> QED
  BY <1>1, <1>2 DEF Begins

LEMMA BeginningExists ==
  ASSUME NEW lo \in Nat, NEW k \in Nat, k >= lo
  PROVE  \E b : Begins(b, k, lo)
<1> DEFINE S == {n \in Nat : \E b : Begins(b, lo + n, lo)}
<1>1. 0 \in S
  <2>1. Begins(lo, lo, lo)
    BY BeginningIs
  <2> QED
    BY <2>1
<1>2. ASSUME NEW n \in Nat, n \in S PROVE n + 1 \in S
  <2>1. PICK b : Begins(b, lo + n, lo)
    BY <1>2
  <2> DEFINE j == lo + (n + 1)
  <2>2. j \in Nat /\ j > lo /\ j >= lo /\ j - 1 = lo + n
    OBVIOUS
  <2> HIDE DEF j
  <2>3. Begins(j, j, lo) \/ Begins(b, j, lo)
    BY <2>1, <2>2, BeginningIs
  <2> QED
    BY <2>3 DEF j
<1>3. Nat \subseteq S
  <2> HIDE DEF S
  <2> QED
    BY <1>1, <1>2, SetInduction
<1>4. k - lo \in S /\ lo + (k - lo) = k
  BY <1>3
<1> QED
  BY <1>4

(* The counter of the loop: the length of the run of clear bits below k.   *)
Counts(f, lo, hi) ==
  f = [k \in lo .. hi |-> IF k > lo /\ k - 1 \in clear THEN f[k - 1] + 1 ELSE 0]

LEMMA CounterExists ==
  ASSUME NEW lo \in Nat, NEW hi \in Nat
  PROVE  \E f : Counts(f, lo, hi)
<1> DEFINE Beginning(k) == CHOOSE b : Begins(b, k, lo)
           f == [k \in lo .. hi |-> k - Beginning(k)]
           Turn(k) == IF k > lo /\ k - 1 \in clear THEN f[k - 1] + 1 ELSE 0
<1>1. ASSUME NEW k \in Nat, k >= lo PROVE Begins(Beginning(k), k, lo)
  BY <1>1, BeginningExists
<1> HIDE DEF Beginning
<1>2. ASSUME NEW k \in lo .. hi PROVE f[k] = Turn(k)
  <2>1. k \in Nat /\ k >= lo /\ Begins(Beginning(k), k, lo)
    BY <1>1
  <2>2. CASE k > lo /\ k - 1 \in clear
    <3>1. k - 1 \in lo .. hi /\ k - 1 \in Nat /\ k - 1 >= lo
      BY <2>2
    <3>2. Begins(Beginning(k - 1), k - 1, lo)
      BY <1>1, <3>1
    <3>3. Begins(Beginning(k - 1), k, lo)
      BY <2>1, <2>2, <3>2, BeginningIs
    <3>4. Beginning(k - 1) = Beginning(k)
      BY <2>1, <3>3, OneBeginning
    <3>5. Beginning(k) \in Nat
      BY <2>1 DEF Begins
    <3> QED
      BY <2>1, <2>2, <3>1, <3>4, <3>5
  <2>3. CASE ~ (k > lo /\ k - 1 \in clear)
    <3>1. Begins(k, k, lo)
      <4>1. k = lo \/ (k > lo /\ k - 1 \notin clear)
        BY <2>1, <2>3
      <4> QED
        BY <2>1, <4>1, BeginningIs
    <3>2. Beginning(k) = k
      BY <2>1, <3>1, OneBeginning
    <3> QED
      BY <2>1, <2>3, <3>2
  <2> QED
    BY <2>2, <2>3
<1>3. f = [k \in lo .. hi |-> Turn(k)]
  <2> DEFINE g(k) == k - Beginning(k)
  <2>1. \A k \in lo .. hi : g(k) = Turn(k)
    BY <1>2
  <2> HIDE DEF Turn
  <2> QED
    BY <2>1
<1>4. Counts(f, lo, hi)
  BY <1>3 DEF Counts
<1> QED
  BY <1>4

LEMMA CounterIs ==
  ASSUME NEW lo \in Nat, NEW hi \in Nat, NEW f, Counts(f, lo, hi), NEW k \in lo .. hi, NEW b,
         Begins(b, k, lo)
  PROVE  f[k] = k - b
<1> DEFINE P(j) == \A a : j <= hi /\ Begins(a, j, lo) => f[j] = j - a
           S == {n \in Nat : P(lo + n)}
<1>1. ASSUME NEW j \in lo .. hi PROVE f[j] = IF j > lo /\ j - 1 \in clear THEN f[j - 1] + 1 ELSE 0
  BY Zenon DEF Counts
<1>2. P(lo)
  <2> SUFFICES ASSUME NEW a, lo <= hi, Begins(a, lo, lo) PROVE f[lo] = lo - a
    OBVIOUS
  <2>1. a = lo /\ lo \in lo .. hi
    BY DEF Begins
  <2> QED
    BY <1>1, <2>1
<1>3. ASSUME NEW j \in Nat, j > lo, P(j - 1) PROVE P(j)
  <2> SUFFICES ASSUME NEW a, j <= hi, Begins(a, j, lo) PROVE f[j] = j - a
    OBVIOUS
  <2>1. j \in lo .. hi /\ j > lo /\ j >= lo /\ j - 1 <= hi /\ j - 1 \in Nat /\ j - 1 >= lo
    BY <1>3
  <2>2. CASE j - 1 \in clear
    <3>1. PICK c : Begins(c, j - 1, lo)
      BY <2>1, BeginningExists
    <3>2. Begins(c, j, lo)
      BY <2>1, <2>2, <3>1, BeginningIs
    <3>3. c = a
      BY <2>1, <3>2, OneBeginning
    <3>4. f[j - 1] = j - 1 - a
      BY <1>3, <2>1, <3>1, <3>3
    <3>5. a \in Nat
      BY <2>1 DEF Begins
    <3> QED
      BY <1>1, <2>1, <2>2, <3>4, <3>5
  <2>3. CASE j - 1 \notin clear
    <3>1. Begins(j, j, lo)
      BY <2>1, <2>3, BeginningIs
    <3>2. a = j
      BY <2>1, <3>1, OneBeginning
    <3> QED
      BY <1>1, <2>1, <2>3, <3>2
  <2> QED
    BY <2>2, <2>3
<1> HIDE DEF P
<1>4. 0 \in S /\ \A n \in Nat : n \in S => n + 1 \in S
  <2>1. lo + 0 = lo
    OBVIOUS
  <2>2. ASSUME NEW n \in Nat PROVE lo + (n + 1) \in Nat /\ lo + (n + 1) > lo /\ lo + (n + 1) - 1 = lo + n
    OBVIOUS
  <2> QED
    BY <1>2, <1>3, <2>1, <2>2
<1>5. Nat \subseteq S
  <2> HIDE DEF S
  <2> QED
    BY <1>4, SetInduction
<1>6. k - lo \in Nat /\ lo + (k - lo) = k /\ k <= hi
  OBVIOUS
<1>7. P(k)
  BY <1>5, <1>6
<1> QED
  BY <1>6, <1>7 DEF P

(* Counting up to n for the first time finds the first run of n.           *)
LEMMA SearchIs ==
  ASSUME clear \in SUBSET Nat, NEW n \in Nat \ {0}, NEW lo \in Nat, NEW hi \in Nat
  PROVE  pmm_search_free_pages(n, lo, hi) = {s \in Runs(n, lo, hi) : \A t \in Runs(n, lo, hi) : s <= t}
<1> DEFINE pages_counter ==
             CHOOSE f : f = [k \in lo .. hi |-> IF k > lo /\ k - 1 \in clear THEN f[k - 1] + 1 ELSE 0]
           ends == {k \in lo .. hi : pages_counter[k] = n}
           first == {k \in ends : \A l \in ends : k <= l}
           R == Runs(n, lo, hi)
<1>1. pmm_search_free_pages(n, lo, hi) = {k - n : k \in first}
  BY Zenon DEF pmm_search_free_pages
<1>2. Counts(pages_counter, lo, hi)
  <2>1. \E f : f = [k \in lo .. hi |-> IF k > lo /\ k - 1 \in clear THEN f[k - 1] + 1 ELSE 0]
    BY CounterExists, Zenon DEF Counts
  <2> QED
    BY <2>1, Zenon DEF Counts
<1> HIDE DEF pages_counter
<1>3. ASSUME NEW k \in ends PROVE k - n \in R /\ k \in lo .. hi
  <2>1. k \in lo .. hi /\ pages_counter[k] = n /\ k \in Nat /\ k >= lo
    OBVIOUS
  <2>2. PICK b : Begins(b, k, lo)
    BY <2>1, BeginningExists
  <2>3. n = k - b /\ b \in lo .. k /\ b .. k - 1 \subseteq clear
    <3>1. pages_counter[k] = k - b
      BY <1>2, <2>1, <2>2, CounterIs
    <3> QED
      BY <2>1, <2>2, <3>1 DEF Begins
  <2>4. k - n = b /\ b + n = k /\ b \in b .. k - 1
    BY <2>1, <2>3
  <2> QED
    BY <2>1, <2>3, <2>4 DEF Runs
<1>4. ASSUME NEW t \in R PROVE \E k \in ends : k <= t + n
  <2> DEFINE e == t + n
  <2>1. t \in Nat /\ lo <= t /\ e <= hi /\ t .. e - 1 \subseteq clear
    BY DEF Runs
  <2>2. e \in Nat /\ e >= lo /\ e = t + n
    BY <2>1
  <2> HIDE DEF e
  <2>3. PICK b : Begins(b, e, lo)
    BY <2>2, BeginningExists
  <2>4. b \in lo .. e /\ b .. e - 1 \subseteq clear /\ (b = lo \/ b - 1 \notin clear)
    BY <2>3 DEF Begins
  <2>5. b <= t
    <3> SUFFICES ASSUME b > t PROVE FALSE
      BY <2>1, <2>4
    <3>1. b - 1 \in t .. e - 1 /\ b # lo
      BY <2>1, <2>2, <2>4
    <3> QED
      BY <2>1, <2>4, <3>1
  <2>6. b + n \in lo .. hi /\ b + n <= e /\ b \in Nat
    BY <2>1, <2>2, <2>4, <2>5
  <2>7. Begins(b, b + n, lo)
    <3>1. b .. b + n - 1 \subseteq b .. e - 1 /\ b \in lo .. b + n
      BY <2>1, <2>2, <2>4, <2>5
    <3> QED
      BY <2>4, <3>1 DEF Begins
  <2>8. pages_counter[b + n] = b + n - b
    BY <1>2, <2>6, <2>7, CounterIs
  <2> QED
    BY <2>2, <2>6, <2>8
<1>5. R \subseteq Nat
  BY DEF Runs
<1> HIDE DEF ends, R
<1>6. ASSUME NEW k \in first PROVE k - n \in R /\ \A t \in R : k - n <= t
  <2>1. k \in ends /\ (\A l \in ends : k <= l) /\ k \in Nat /\ k - n \in R
    BY <1>3
  <2>2. ASSUME NEW t \in R PROVE k - n <= t
    <3>1. PICK l \in ends : l <= t + n
      BY <1>4
    <3>2. l \in Nat /\ k <= l /\ t \in Nat
      BY <1>3, <1>5, <2>1
    <3> QED
      BY <2>1, <3>1, <3>2
  <2> QED
    BY <2>1, <2>2
<1>7. ASSUME NEW s \in R, \A t \in R : s <= t PROVE s + n \in first
  <2>1. PICK k \in ends : k <= s + n
    BY <1>4
  <2>2. ASSUME NEW l \in ends PROVE s + n <= l
    <3>1. l - n \in R /\ l \in Nat /\ s \in Nat
      BY <1>3, <1>5
    <3>2. s <= l - n
      BY <1>7, <3>1
    <3> QED
      BY <3>1, <3>2
  <2>3. k = s + n
    <3>1. k \in Nat /\ s \in Nat /\ s + n <= k
      BY <1>3, <1>5, <2>2
    <3> QED
      BY <2>1, <3>1
  <2> QED
    BY <2>2, <2>3
<1> HIDE DEF first
<1> DEFINE found == {k - n : k \in first}
           lowest == {s \in R : \A t \in R : s <= t}
<1>8. ASSUME NEW s \in lowest PROVE s \in found
  <2>1. s + n \in first /\ s \in Nat
    BY <1>5, <1>7
  <2> DEFINE k == s + n
  <2>2. k \in first /\ k - n = s
    BY <2>1
  <2> HIDE DEF lowest, k
  <2> QED
    BY <2>2
<1>9. ASSUME NEW k \in first PROVE k - n \in lowest
  BY <1>6
<1>10. found = lowest
  BY <1>8, <1>9
<1> QED
  BY <1>1, <1>10 DEF R

(* pmm_search_free_pages returns the lowest run of the range, for every    *)
(* bitmap and every request: resetting its counter loses no run.           *)
THEOREM PmmSearchIsFirstFit == Spec => []SearchIsFirstFit
<1>1. IInv => SearchIsFirstFit
  <2> SUFFICES ASSUME IInv, NEW n \in Requests, NEW lo \in 0 .. highest_usable_page_index,
                      NEW hi \in 0 .. highest_usable_page_index
               PROVE  pmm_search_free_pages(n, lo, hi) =
                        {s \in Runs(n, lo, hi) : \A t \in Runs(n, lo, hi) : s <= t}
    BY DEF SearchIsFirstFit
  <2>1. n \in Nat \ {0} /\ lo \in Nat /\ hi \in Nat /\ clear \in SUBSET Nat
    BY PmmAssumption DEF IInv, TypeOK
  <2> QED
    BY <2>1, SearchIs
<1> QED
  BY <1>1, PmmInvariant, PTL
=============================================================================
