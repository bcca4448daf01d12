---------------------------- MODULE AddressSpace ----------------------------
(***************************************************************************)
(* What the page tables are for: a function from virtual pages to physical *)
(* pages and their flags, changed one page at a time by a given list of    *)
(* calls, the last call for a page being the one that counts.              *)
(***************************************************************************)
EXTENDS Naturals, Sequences

CONSTANT Absent     \* what an unmapped page is mapped to

VARIABLES
  calls,            \* the pages to be mapped: [page, physical, flags]
  done,             \* how many of them have been
  mapping           \* virtual page -> [physical, flags] or Absent

vars == <<calls, done, mapping>>

Init ==
  /\ done = 0
  /\ \A page \in DOMAIN mapping : mapping[page] = Absent

Map ==
  /\ done < Len(calls)
  /\ LET call == calls[done + 1]
     IN  mapping' = [mapping EXCEPT ![call.page] =
                       [physical |-> call.physical, flags |-> call.flags]]
  /\ done' = done + 1
  /\ UNCHANGED calls

Spec == Init /\ [][Map]_vars /\ WF_vars(Map)
=============================================================================
