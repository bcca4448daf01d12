---------------------------- MODULE MCAcpiTables ----------------------------
(* Every root table of up to three tables with one ordinary MADT, and one  *)
(* ordinary root table with every MADT of up to five records, among them   *)
(* records without a length, of the two types that are kept and of the     *)
(* type that ACPI gives I/O APICs.                                         *)
EXTENDS AcpiTables

UpTo(S, n) == UNION {[1 .. k -> S] : k \in 0 .. n}

RecordTypes == {0, 1, 16}

Sized(type) == [type |-> type, empty |-> FALSE]

OneMadt == <<Sized(0), Sized(1), Sized(2), Sized(4), Sized(16)>>

OneRoot == <<[signature |-> "FACP", checksum_ok |-> TRUE], [signature |-> "APIC", checksum_ok |-> TRUE],
             [signature |-> "HPET", checksum_ok |-> TRUE]>>

RootsAndMadts ==
  {[root |-> r, records |-> OneMadt] : r \in UpTo(Table, 3)} \cup
  {[root |-> OneRoot, records |-> m] :
     m \in UpTo([type : RecordTypes, empty : BOOLEAN] \ {[type |-> 16, empty |-> TRUE]}, 5)}
=============================================================================
