-------------------------------- MODULE Vmm --------------------------------
(***************************************************************************)
(* The kernel's page tables: vmm_init, vmm_map_page and vmm_get_next_pml   *)
(* of memory/vmm.c, with the section symbols of linker.ld.                 *)
(*                                                                         *)
(* vmm_init runs on one CPU.  A table is a function from its indices to    *)
(* entries; pmm_alloc(1, true) returns a new page of zeroes, as            *)
(* PageAllocator says, and the tables are numbered in that order.  Virtual *)
(* addresses are counted in pages and reduced to the bits that the tables  *)
(* look at; the addresses of the memory map and of the sections in bytes.  *)
(***************************************************************************)
EXTENDS Naturals, Integers, Sequences, FiniteSets, FiniteSetsExt, SequencesExt

CONSTANTS
  MemMaps,          \* the memory maps: sequences of [base, length] in bytes
  BitmapSize,       \* bytes pmm_init takes for its bitmap, whole pages
  Sizes,            \* the sizes the kernel's sections may have, in bytes
  PAGE_SIZE,        \* bytes in a page (4096)
  FANOUT,           \* entries in a table (512)
  DEPTH,            \* levels of tables without la57 (4)
  Low,              \* pages below 4 GiB
  hhdm_offset,      \* the page where the bootloader maps physical memory
  KernelBase,       \* the page of text_start_address: kernel_address->virtual_base
  PhysicalBase,     \* and the page it is loaded to: kernel_address->physical_base
  Absent            \* an entry that is not present

ASSUME VmmAssumption ==
  /\ {PAGE_SIZE, FANOUT, DEPTH, Low, BitmapSize} \subseteq Nat \ {0}
  /\ {hhdm_offset, KernelBase, PhysicalBase} \subseteq Nat
  /\ \A m \in MemMaps : m \in Seq([base : Nat, length : Nat])
  /\ BitmapSize % PAGE_SIZE = 0
  /\ Sizes \subseteq [text : Nat, rodata : Nat, data : Nat]
  /\ Absent \notin [physical : Nat, flags : SUBSET {"present", "writable", "nx"}]

VARIABLES
  memmap,           \* as pmm_init leaves it
  bitmap,           \* [base, length], the part of it pmm_init took
  sizes,            \* of .text, .rodata and .data
  la57_enabled,
  tables,           \* the tables in the order of their allocation
  calls,            \* the calls of vmm_map_page that vmm_init makes
  done,             \* how many of them have returned
  walk,             \* where the current call is: [level, pml], or Idle
  loaded            \* cr3 holds the kernel's page tables

inputs == <<memmap, bitmap, sizes, la57_enabled>>
vars == <<inputs, calls, tables, done, walk, loaded>>

Levels == IF la57_enabled THEN DEPTH + 1 ELSE DEPTH

(* The pages below an entry that points to a table of that level; a power  *)
(* of FANOUT.                                                              *)
Span[level \in Nat] == IF level = 0 THEN 1 ELSE FANOUT * Span[level - 1]

Space == Span[Levels]
Index(page, level) == (page \div Span[level - 1]) % FANOUT

-----------------------------------------------------------------------------
(* The calls of vmm_map_page that vmm_init makes.                          *)

align_down(address) == address \div PAGE_SIZE
align_up(address) == (address + PAGE_SIZE - 1) \div PAGE_SIZE

(* The pages of physical memory and those that the kernel is linked to: the *)
(* boot protocol keeps them apart in the address space.                    *)
InMemory(m) ==
  (0 .. Low - 1) \cup UNION {0 .. align_up(m[k].base + m[k].length) - 1 : k \in DOMAIN m}
InKernel(size) == 0 .. align_up(size.text + size.rodata + size.data + 2 * PAGE_SIZE) - 1

ASSUME LayoutAssumption ==
  \A space \in {Span[DEPTH], Span[DEPTH + 1]}, m \in MemMaps, size \in Sizes :
    /\ InMemory(m) \cup InKernel(size) \subseteq 0 .. space - 1
    /\ \A p \in InMemory(m), q \in InKernel(size) :
         (hhdm_offset + p) % space # (KernelBase + q) % space

Memory == {"present", "writable", "nx"}

(* The physical pages from first up to top, at hhdm_offset. *)
Direct(first, top) ==
  [k \in 1 .. Max({top - first, 0}) |->
    [page |-> (hhdm_offset + first + k - 1) % Space, physical |-> first + k - 1, flags |-> Memory]]

NoGap == 0                  \* mutant: the sections follow each other directly
Gap == PAGE_SIZE            \* . += CONSTANT(MAXPAGESIZE)

text == [start |-> 0, end |-> sizes.text]
rodata == [start |-> text.end + Gap, end |-> text.end + Gap + sizes.rodata]
data == [start |-> rodata.end + Gap, end |-> rodata.end + Gap + sizes.data]

(* A section is linked at KernelBase and was loaded at PhysicalBase. *)
Section(s, flags) ==
  LET first == align_down(s.start)
  IN  [k \in 1 .. align_up(s.end) - first |->
        [page |-> (KernelBase + first + k - 1) % Space,
         physical |-> PhysicalBase + first + k - 1,
         flags |-> flags]]

Kernel ==
  Section(text, {"present"}) \o Section(rodata, {"present", "nx"})
    \o Section(data, {"present", "writable", "nx"})

HighTruncated(e) ==              \* mutant: the top is rounded down
  Direct(Max({align_down(e.base), Low}), align_down(e.base + e.length))

(* An entry of the memory map, as far as it lies above 4 GiB. *)
High(e) == Direct(Max({align_down(e.base), Low}), align_up(e.base + e.length))

Calls ==
  Direct(1, Low) \o Kernel \o FlattenSeq([k \in 1 .. Len(memmap) |-> High(memmap[k])])

-----------------------------------------------------------------------------
Idle == [level |-> 0, pml |-> 0]
Empty == [index \in 0 .. FANOUT - 1 |-> Absent]

Carve(m, k) == [m EXCEPT ![k] = [base |-> @.base + BitmapSize, length |-> @.length - BitmapSize]]

Init ==
  /\ \E m \in MemMaps : \E k \in DOMAIN m :
       /\ m[k].length >= BitmapSize /\ m[k].base % PAGE_SIZE = 0
       /\ memmap = Carve(m, k)
       /\ bitmap = [base |-> m[k].base, length |-> BitmapSize]
  /\ sizes \in Sizes
  /\ la57_enabled \in BOOLEAN
  /\ calls = Calls
  /\ tables = <<Empty>>                 \* kernel_pagemap
  /\ done = 0
  /\ walk = Idle
  /\ loaded = FALSE

CallMapPage ==
  /\ walk = Idle /\ done < Len(calls)
  /\ walk' = [level |-> Levels, pml |-> 1]
  /\ UNCHANGED <<inputs, calls, tables, done, loaded>>

Page == calls[done + 1].page

PutEntry(memory, pml, index, entry) == [memory EXCEPT ![pml][index] = entry]

GetNextPmlShared ==              \* mutant: every missing table is the one allocated last
  /\ walk.level > 1
  /\ LET index == Index(Page, walk.level)
         entry == tables[walk.pml][index]
         new == Max({Len(tables), 2})
     IN  /\ tables' = IF entry # Absent THEN tables ELSE
               PutEntry(IF Len(tables) = 1 THEN Append(tables, Empty) ELSE tables, walk.pml, index,
                 [physical |-> new, flags |-> {"present", "writable"}])
         /\ walk' = [level |-> walk.level - 1,
                     pml |-> IF entry # Absent THEN entry.physical ELSE new]
  /\ UNCHANGED <<inputs, calls, done, loaded>>

GetNextPmlAlways ==              \* mutant: the present bit is not looked at
  /\ walk.level > 1
  /\ LET index == Index(Page, walk.level)
         new == Len(tables) + 1
     IN  /\ tables' = Append(PutEntry(tables, walk.pml, index,
                               [physical |-> new, flags |-> {"present", "writable"}]), Empty)
         /\ walk' = [level |-> walk.level - 1, pml |-> new]
  /\ UNCHANGED <<inputs, calls, done, loaded>>

(* vmm_get_next_pml: follow a present entry, or allocate a table for it.   *)
GetNextPml ==
  /\ walk.level > 1
  /\ LET index == Index(Page, walk.level)
         entry == tables[walk.pml][index]
         new == Len(tables) + 1
     IN  IF entry # Absent
           THEN /\ walk' = [level |-> walk.level - 1, pml |-> entry.physical]
                /\ UNCHANGED tables
           ELSE /\ tables' = Append(PutEntry(tables, walk.pml, index,
                               [physical |-> new, flags |-> {"present", "writable"}]), Empty)
                /\ walk' = [level |-> walk.level - 1, pml |-> new]
  /\ UNCHANGED <<inputs, calls, done, loaded>>

(* pml1[pml1_index] = physical_address | flags *)
SetEntry ==
  /\ walk.level = 1
  /\ LET call == calls[done + 1]
     IN  tables' = PutEntry(tables, walk.pml, Index(Page, 1),
                            [physical |-> call.physical, flags |-> call.flags])
  /\ done' = done + 1
  /\ walk' = Idle
  /\ UNCHANGED <<inputs, calls, loaded>>

LoadKernelPagemap ==
  /\ walk = Idle /\ done = Len(calls) /\ ~ loaded
  /\ loaded' = TRUE
  /\ UNCHANGED <<inputs, calls, tables, done, walk>>

Next == CallMapPage \/ GetNextPml \/ SetEntry \/ LoadKernelPagemap

Spec == Init /\ [][Next]_vars /\ WF_vars(Next)

-----------------------------------------------------------------------------
(* What the processor makes of the tables. *)
Translate(page) ==
  LET pml[level \in 1 .. Levels] ==
        IF level = Levels THEN 1
        ELSE IF pml[level + 1] = 0 THEN 0
        ELSE LET entry == tables[pml[level + 1]][Index(page, level + 1)]
             IN  IF entry = Absent THEN 0 ELSE entry.physical
  IN  IF pml[1] = 0 THEN Absent ELSE tables[pml[1]][Index(page, 1)]

(* The level of every table, 0 for one that nothing points to. *)
LevelOf ==
  LET level[t \in 1 .. Len(tables)] ==
        IF t = 1 THEN Levels
        ELSE LET up == {u \in 1 .. t - 1 : level[u] > 1 /\ \E index \in 0 .. FANOUT - 1 :
                          tables[u][index] # Absent /\ tables[u][index].physical = t}
             IN  IF up = {} THEN 0 ELSE level[Max(up)] - 1
  IN  level

(* The entries that point to table t, as <<table, index>>. *)
Pointers(t) ==
  {e \in (1 .. Len(tables)) \X (0 .. FANOUT - 1) :
     /\ LevelOf[e[1]] > 1
     /\ tables[e[1]][e[2]] # Absent
     /\ tables[e[1]][e[2]].physical = t}

(* The tables form a tree: every table but the root is pointed to by one   *)
(* entry, of one table, so no write to it can change another part of the   *)
(* address space.                                                          *)
TablesFormATree == \A t \in 2 .. Len(tables) : Cardinality(Pointers(t)) = 1

(* Once loaded, code is not writable, nothing else is executable and       *)
(* constants are neither: no page of a section is also mapped as part of   *)
(* another, whatever their sizes.                                          *)
MappedAs(s, flags) ==
  \A p \in align_down(s.start) .. align_up(s.end) - 1 :
    Translate((KernelBase + p) % Space) = [physical |-> PhysicalBase + p, flags |-> flags]

SectionsProtected ==
  loaded => /\ MappedAs(text, {"present"})
            /\ MappedAs(rodata, {"present", "nx"})
            /\ MappedAs(data, {"present", "writable", "nx"})

(* Once loaded, all memory the bootloader has reported is mapped at        *)
(* hhdm_offset, except page 0 and the bitmap of the memory manager where   *)
(* it lies above 4 GiB: pmm_init has taken that out of the map.            *)
PagesOf(e) == align_down(e.base) .. align_up(e.base + e.length) - 1

MemoryMapped ==
  loaded =>
    \A e \in {memmap[k] : k \in 1 .. Len(memmap)} \cup {bitmap} : \A p \in PagesOf(e) \ {0} :
      (e = bitmap => p < Low) =>
        Translate((hhdm_offset + p) % Space) = [physical |-> p, flags |-> Memory]

(* vmm_map_page does to the address space what it is called for, and       *)
(* nothing to any other page: the walk implements AddressSpace.            *)
Abstract == INSTANCE AddressSpace WITH mapping <- [page \in 0 .. Space - 1 |-> Translate(page)]
ImplementsAddressSpace == Abstract!Spec
=============================================================================
