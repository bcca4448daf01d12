-------------------------------- MODULE Pmm --------------------------------
(***************************************************************************)
(* The physical memory manager, memory/pmm.c with lib/bitmap/bitmap.c, as  *)
(* one CPU runs it: pmm_init builds a bitmap over the pages of the memory  *)
(* map (bit set = taken) inside the first usable entry it fits in and      *)
(* frees the usable entries, pmm_alloc searches for a run of clear bits    *)
(* from cached_page_index on and then below it, pmm_free clears bits, and  *)
(* pmm_reclaim_bootloader_memory frees the bootloader's entries.           *)
(*                                                                         *)
(* Addresses are counted in pages (the boot protocol aligns usable and     *)
(* reclaimable entries to pages, does not let them overlap and never       *)
(* reports page 0, whose address is NULL, as either).  The bitmap is the   *)
(* set of its clear bits; an access to a bit the bitmap does not have      *)
(* stops the program as "wild", and nothing more is said of it.            *)
(***************************************************************************)
EXTENDS Naturals, Integers, Sequences, FiniteSets

CONSTANTS
  MemMaps,          \* the memory maps the bootloader may hand over
  PAGE_SIZE,        \* bytes in a page (4096)
  BITS,             \* bits in a byte (8)
  Requests          \* page counts callers of pmm_alloc ask for (1 and 16)

EntryTypes == {"usable", "reclaimable", "other"}

Entry == [type : EntryTypes, base : Nat, length : Nat]

Extent(e) == e.base .. e.base + e.length - 1

(* The entries whose pages can become free do not overlap. *)
Apart(m) ==
  \A j, k \in 1 .. Len(m) :
    j # k /\ m[j].type # "other" /\ m[k].type # "other"
      => Extent(m[j]) \cap Extent(m[k]) = {}

WellFormed(m) ==
  /\ m \in Seq(Entry)
  /\ \E k \in 1 .. Len(m) : m[k].type = "usable"
  /\ \A k \in 1 .. Len(m) : m[k].type # "other" => m[k].base > 0
  /\ Apart(m)

ASSUME PmmAssumption ==
  /\ \A m \in MemMaps : WellFormed(m)
  /\ PAGE_SIZE \in Nat \ {0}
  /\ BITS \in Nat \ {0}
  /\ Requests \subseteq Nat \ {0}

VARIABLES
  memmap,           \* memmap->entries; pmm_init changes one of them
  bitmap,           \* struct bitmap: map is a page index, size counts pages
  clear,            \* the indices of the bits that are 0
  highest_usable_page_index,
  free_pages,
  cached_page_index,
  phase,            \* which function runs, or the last that returned
  i,                \* the loop variable of pmm_init and of the reclaim
  blocks,           \* what pmm_alloc has returned and nobody has freed
  stopped,          \* "no", or how the program has stopped
  wanted            \* the request that found no memory

vars == <<memmap, bitmap, clear, highest_usable_page_index, free_pages,
          cached_page_index, phase, i, blocks, stopped, wanted>>

-----------------------------------------------------------------------------
(* Mutants of the operators below, used to show that the properties bite.  *)

(* The entry keeps its old base: the bitmap's pages are freed with it. *)
CarvedNot(e, p) == [e EXCEPT !.length = @ - p]
(* Does not round the last partial page of the bitmap up. *)
MapPagesDown(h) == (h \div BITS) \div PAGE_SIZE
(* "<=" for "<" in the loop of pmm_free. *)
FreeOneMore(start, n) ==
  /\ n > 0 => start + n <= bitmap.size * PAGE_SIZE * BITS
  /\ clear' = clear \cup (start .. start + n)
  /\ free_pages' = free_pages + n
(* The search takes runs whose last page it never looked at. *)
RunsPastEnd(n, lo, hi) ==
  {s \in clear : lo <= s /\ s + n <= hi /\ s .. s + n - 2 \subseteq clear}
(* The counter of the search is not reset at a set bit. *)
SearchWithoutReset(n, lo, hi) ==
  LET pages_counter[k \in lo .. hi] ==
        IF k = lo THEN 0
        ELSE pages_counter[k - 1] + (IF k - 1 \in clear THEN 1 ELSE 0)
      ends == {k \in lo .. hi : pages_counter[k] = n}
  IN  {k - n : k \in {k \in ends : \A l \in ends : k <= l}}
(* The page at cached_page_index is skipped; the second search is missing. *)
AboveSkipping(n) ==
  {s \in clear : /\ cached_page_index < s
                 /\ s + n <= highest_usable_page_index
                 /\ s .. s + n - 1 \subseteq clear}
-----------------------------------------------------------------------------
(* div_round_up of lib/misc/math.h. *)
div_round_up(a, b) == (a + (b - 1)) \div b

(* Pages of the bitmap for h pages of memory: align_up(h / 8, PAGE_SIZE)   *)
(* counted in pages.                                                       *)
MapPages(h) == div_round_up(h \div BITS, PAGE_SIZE)

(* The bits the bitmap has. *)
Bits == bitmap.size * PAGE_SIZE * BITS

(* An entry after its first p pages were cut off for the bitmap. *)
Carved(e, p) ==
  [type |-> e.type, base |-> e.base + p, length |-> e.length - p]

Usable(m) == {k \in 1 .. Len(m) : m[k].type = "usable"}

(* The tops of the usable entries; highest_usable_page starts at 0. *)
Tops(m) == {0} \cup {m[k].base + m[k].length : k \in Usable(m)}

Init ==
  /\ memmap \in MemMaps
  /\ bitmap = [map |-> 0, size |-> 0]
  /\ clear = {}
  /\ highest_usable_page_index = 0
  /\ free_pages = 0
  /\ cached_page_index = 0
  /\ phase = "boot"
  /\ i = 1
  /\ blocks = {}
  /\ stopped = "no"
  /\ wanted = 0

Scan(h) ==
  /\ h \in Tops(memmap)
  /\ \A t \in Tops(memmap) : t <= h
  /\ highest_usable_page_index' = h

Fits(k, p) == k \in Usable(memmap) /\ memmap[k].length >= p

(* pmm_init up to its last loop: the top of usable memory, the size of the *)
(* bitmap, the first usable entry it fits in, and every bit set.           *)
PmmInit ==
  /\ phase = "boot"
  /\ stopped = "no"
  /\ \E h \in Tops(memmap), k \in Usable(memmap) :
       LET p == MapPages(h)
       IN  /\ Scan(h)
           /\ Fits(k, p)
           /\ \A j \in 1 .. k - 1 : ~ Fits(j, p)
           /\ bitmap' = [map |-> memmap[k].base, size |-> p]
           /\ memmap' = [memmap EXCEPT ![k] = Carved(@, p)]
  /\ phase' = "freeing"
  /\ UNCHANGED <<clear, free_pages, cached_page_index, i, blocks, stopped, wanted>>

(* No usable entry holds the bitmap: bitmap.map stays NULL, and the loop   *)
(* that sets every bit writes through it.                                  *)
PmmInitNoRoom ==
  /\ phase = "boot"
  /\ stopped = "no"
  /\ \E h \in Tops(memmap) :
       /\ Scan(h)
       /\ \A k \in Usable(memmap) : ~ Fits(k, MapPages(h))
       /\ bitmap' = [map |-> 0, size |-> MapPages(h)]
  /\ stopped' = "wild"
  /\ UNCHANGED <<memmap, clear, free_pages, cached_page_index, phase, i, blocks, wanted>>

InBitmap(start, n) == n > 0 => start + n <= Bits

pmm_free(start, n) ==
  /\ InBitmap(start, n)
  /\ clear' = clear \cup (start .. start + n - 1)
  /\ free_pages' = free_pages + n

(* One turn of a loop that frees the entries of one type. *)
FreeEntry(type) ==
  /\ stopped = "no"
  /\ i <= Len(memmap)
  /\ i' = i + 1
  /\ IF memmap[i].type = type
       THEN pmm_free(memmap[i].base, memmap[i].length)
       ELSE UNCHANGED <<clear, free_pages>>
  /\ UNCHANGED <<memmap, bitmap, highest_usable_page_index, cached_page_index,
                 phase, blocks, stopped, wanted>>

Enter(now) ==
  /\ stopped = "no"
  /\ phase' = now
  /\ UNCHANGED <<memmap, bitmap, clear, highest_usable_page_index, free_pages,
                 cached_page_index, blocks, stopped, wanted>>

Stop(how, n) ==
  /\ stopped' = how
  /\ wanted' = n
  /\ UNCHANGED <<memmap, bitmap, clear, highest_usable_page_index, free_pages,
                 cached_page_index, phase, i, blocks>>

(* The last loop of pmm_init. *)
FreeUsable == phase = "freeing" /\ FreeEntry("usable")

PmmInitReturns ==
  phase = "freeing" /\ i > Len(memmap) /\ Enter("running") /\ UNCHANGED i

(* pmm_reclaim_bootloader_memory, called once at the end of kmain. *)
CallReclaim == phase = "running" /\ Enter("reclaiming") /\ i' = 1

FreeReclaimable == phase = "reclaiming" /\ FreeEntry("reclaimable")

ReclaimReturns ==
  phase = "reclaiming" /\ i > Len(memmap) /\ Enter("reclaimed") /\ UNCHANGED i

(* The next entry to be freed has a page for which the bitmap has no bit. *)
FreeStrays ==
  /\ stopped = "no"
  /\ \/ phase = "freeing" /\ i \in Usable(memmap)
     \/ phase = "reclaiming" /\ i <= Len(memmap) /\ memmap[i].type = "reclaimable"
  /\ ~ InBitmap(memmap[i].base, memmap[i].length)
  /\ Stop("wild", 0)

(* Starts of the runs of n clear bits in [lo, hi). *)
Runs(n, lo, hi) ==
  {s \in clear : lo <= s /\ s + n <= hi /\ s .. s + n - 1 \subseteq clear}

(* The loop of pmm_search_free_pages: how many clear bits in a row end     *)
(* below index k, and the first time that it is n.  Take below uses the    *)
(* runs; SearchIsFirstFit says that it is the same.                        *)
pmm_search_free_pages(n, lo, hi) ==
  LET pages_counter[k \in lo .. hi] ==
        IF k > lo /\ k - 1 \in clear THEN pages_counter[k - 1] + 1 ELSE 0
      ends == {k \in lo .. hi : pages_counter[k] = n}
  IN  {k - n : k \in {k \in ends : \A l \in ends : k <= l}}

Above(n) == Runs(n, cached_page_index, highest_usable_page_index)
Below(n) == Runs(n, 0, cached_page_index)

Serving == stopped = "no" /\ phase \in {"running", "reclaimed"}

(* pmm_search_free_pages takes the first run of the range. *)
Take(s, S, n) ==
  /\ s \in S
  /\ \A t \in S : s <= t
  /\ clear' = clear \ (s .. s + n - 1)
  /\ cached_page_index' = s + n
  /\ free_pages' = free_pages - n
  /\ blocks' = blocks \cup {[start |-> s, pages |-> n]}
  /\ UNCHANGED <<memmap, bitmap, highest_usable_page_index, phase, i, stopped, wanted>>

(* The search from cached_page_index up reads past the end of the bitmap   *)
(* when it finds nothing and there are pages without a bit.                *)
SearchStays(n) == Above(n) # {} \/ highest_usable_page_index <= Bits

(* pmm_alloc, when its first search succeeds and when its second does. *)
AllocAbove(n) == Serving /\ \E s \in Above(n) : Take(s, Above(n), n)

AllocBelow(n) ==
  /\ Serving
  /\ SearchStays(n)
  /\ Above(n) = {}
  /\ \E s \in Below(n) : Take(s, Below(n), n)

(* Both searches fail: panic("Out of memory"). *)
OutOfMemory(n) ==
  /\ Serving
  /\ SearchStays(n)
  /\ Above(n) = {}
  /\ Below(n) = {}
  /\ Stop("oom", n)

SearchStrays(n) ==
  Serving /\ ~ SearchStays(n) /\ Stop("wild", n)

(* pmm_free as a caller uses it: on a block it got from pmm_alloc. *)
Free(b) ==
  /\ Serving
  /\ pmm_free(b.start, b.pages)
  /\ blocks' = blocks \ {b}
  /\ UNCHANGED <<memmap, bitmap, highest_usable_page_index, cached_page_index,
                 phase, i, stopped, wanted>>

(* What the kernel does with the allocator: it never frees a block. *)
KernelNext ==
  \/ PmmInit
  \/ PmmInitNoRoom
  \/ FreeUsable
  \/ PmmInitReturns
  \/ CallReclaim
  \/ FreeReclaimable
  \/ ReclaimReturns
  \/ FreeStrays
  \/ \E n \in Requests :
       AllocAbove(n) \/ AllocBelow(n) \/ OutOfMemory(n) \/ SearchStrays(n)

(* What the interface of pmm.h allows. *)
Next == KernelNext \/ \E b \in blocks : Free(b)

KernelSpec == Init /\ [][KernelNext]_vars

Spec == Init /\ [][Next]_vars

-----------------------------------------------------------------------------
Phases == {"boot", "freeing", "running", "reclaiming", "reclaimed"}

Block == [start : Nat, pages : Nat \ {0}]

TypeOK ==
  /\ memmap \in Seq(Entry)
  /\ bitmap \in [map : Nat, size : Nat]
  /\ clear \in SUBSET Nat
  /\ highest_usable_page_index \in Nat
  /\ free_pages \in Nat
  /\ cached_page_index \in Nat
  /\ phase \in Phases
  /\ i \in 1 .. Len(memmap) + 1
  /\ blocks \in SUBSET Block
  /\ stopped \in {"no", "oom", "wild"}
  /\ wanted \in Requests \cup {0}

Span(b) == b.start .. b.start + b.pages - 1

Taken == UNION {Span(b) : b \in blocks}

BitmapPages == bitmap.map .. bitmap.map + bitmap.size - 1

(* The entries whose pages have been handed to the allocator. *)
Released ==
  {k \in 1 .. Len(memmap) :
     \/ /\ memmap[k].type = "usable"
        /\ \/ phase = "freeing" /\ k < i
           \/ phase \in {"running", "reclaiming", "reclaimed"}
     \/ /\ memmap[k].type = "reclaimable"
        /\ \/ phase = "reclaiming" /\ k < i
           \/ phase = "reclaimed"}

(* Every page of memory that was released is either free or in exactly one *)
(* block, and no other page is: nothing is lost, nothing is handed out     *)
(* twice, and no page that is in use by firmware, kernel or (before the    *)
(* reclaim) bootloader is ever given to a caller of pmm_alloc.             *)
Conservation ==
  /\ clear \cup Taken = UNION {Extent(memmap[k]) : k \in Released}
  /\ clear \cap Taken = {}
  /\ \A b, c \in blocks : b # c => Span(b) \cap Span(c) = {}

(* The pages the bitmap itself lives in are never free and never in a      *)
(* block: pmm_init moved the base of the entry it carved them from.        *)
BitmapProtected == BitmapPages \cap (clear \cup Taken) = {}

(* The counter that pmm_init prints is the number of clear bits.           *)
FreePagesExact == free_pages = Cardinality(clear)

(* The inductive invariant.  Conservation alone is not inductive: that the *)
(* next entry to be freed is disjoint from everything freed before it      *)
(* rests on the entries of the (carved) memory map not overlapping, and    *)
(* that the bitmap stays out of circulation on its pages belonging to no   *)
(* entry any more.                                                         *)
BitmapApart ==
  phase # "boot" =>
    \A k \in 1 .. Len(memmap) :
      memmap[k].type # "other" => Extent(memmap[k]) \cap BitmapPages = {}

AtStart == phase = "boot" => i = 1

IInv ==
  /\ TypeOK
  /\ AtStart
  /\ Apart(memmap)
  /\ BitmapApart
  /\ Conservation
  /\ IsFiniteSet(clear)
  /\ FreePagesExact

(* pmm_alloc only misses memory it could have had when every free run of   *)
(* the wanted size lies across cached_page_index: it looks on both sides   *)
(* of it and never over it.                                                *)
MissesOnlyAcrossTheCache ==
  stopped = "oom" =>
    \A s \in Runs(wanted, 0, highest_usable_page_index) :
      s < cached_page_index /\ cached_page_index < s + wanted

(* panic("Out of memory") tells the truth: no free run of the wanted size  *)
(* exists.  It holds for the kernel, whose page below cached_page_index is *)
(* never freed, and not for a caller that frees blocks.                    *)
OutOfMemoryIsReal ==
  stopped = "oom" => Runs(wanted, 0, highest_usable_page_index) = {}

(* The memory maps on which the bitmap gets too few bits: highest / 8 is   *)
(* rounded down before it is rounded up to pages.                          *)
RoundedAway(h) == h % (BITS * PAGE_SIZE) \in 1 .. BITS - 1

(* The bitmap is accessed outside its bounds in three cases only: no entry *)
(* has room for it, the top of memory is one of those the size computation *)
(* rounds away, or bootloader memory above the bitmap's range is reclaimed.*)
StraysOnlyAtTheEdges ==
  stopped = "wild" =>
    \/ phase = "boot" /\ \A k \in Usable(memmap) : memmap[k].length < bitmap.size
    \/ RoundedAway(highest_usable_page_index)
    \/ /\ phase = "reclaiming"
       /\ memmap[i].type = "reclaimable"
       /\ memmap[i].base + memmap[i].length > highest_usable_page_index

(* The search loop returns the lowest run of the range, and nothing when   *)
(* there is none: resetting the counter at every set bit loses no run.     *)
SearchIsFirstFit ==
  \A n \in Requests, lo, hi \in 0 .. highest_usable_page_index :
    lo <= hi =>
      pmm_search_free_pages(n, lo, hi) =
        {s \in Runs(n, lo, hi) : \A t \in Runs(n, lo, hi) : s <= t}

(* Seen through its clear bits and its blocks, the memory manager is the   *)
(* abstract page allocator.                                                *)
Allocator ==
  INSTANCE PageAllocator WITH Sizes <- Requests, pool <- clear, out <- blocks

ImplementsAllocator == Allocator!Spec
=============================================================================
