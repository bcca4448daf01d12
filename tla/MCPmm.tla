------------------------------- MODULE MCPmm -------------------------------
(* Small machines for the memory manager.  With two bits to a byte and two *)
(* bytes to a page, a page of bitmap covers four pages of memory, so the   *)
(* maps below need bitmaps of one, two and three pages, and tops of 5 and  *)
(* 9 pages are the ones the size computation rounds away.                  *)
EXTENDS Pmm

(* Three adjacent entries of the given types, cut at a, b, c and d. *)
Layout(types, a, b, c, d) ==
  << [type |-> types[1], base |-> a, length |-> b - a],
     [type |-> types[2], base |-> b, length |-> c - b],
     [type |-> types[3], base |-> c, length |-> d - c] >>

TypeRows ==
  { <<"usable", "reclaimable", "usable">>, <<"usable", "other", "reclaimable">>,
    <<"reclaimable", "usable", "other">>,  <<"other", "usable", "usable">> }

Cuts(top) == {q \in (1 .. top) \X (1 .. top) \X (1 .. top) \X (1 .. top) :
                q[1] < q[2] /\ q[2] < q[3] /\ q[3] < q[4]}

MapsUpTo(top) ==
  {Layout(t, q[1], q[2], q[3], q[4]) : t \in TypeRows, q \in Cuts(top)}

(* Every layout of three entries below page 10, and one whose top is far  *)
(* above its first entry: its bitmap has three pages.                      *)
EveryMap ==
  MapsUpTo(10) \cup {Layout(<<"usable", "usable", "reclaimable">>, 1, 3, 10, 12)}

OneOrThree == {1, 3}
=============================================================================
