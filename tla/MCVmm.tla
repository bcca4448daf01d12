------------------------------- MODULE MCVmm -------------------------------
(* Memory below and above the limit of three pages, in two entries that    *)
(* begin and end within pages; sections of one to three half pages.        *)
EXTENDS Vmm

TwoEntries ==
  {<<[base |-> 2, length |-> low], [base |-> base, length |-> high]>> :
     low \in {2, 5}, base \in {7, 8}, high \in {2, 3, 4}}

SmallSizes == [text : {1, 3}, rodata : {1, 2}, data : {3}]
=============================================================================
