-------------------------- MODULE AcpiTables_proofs --------------------------
(***************************************************************************)
(* Proofs about the reading of the firmware's tables, for every content of *)
(* the tables and every size of the arrays.                                *)
(***************************************************************************)
EXTENDS AcpiTables, FiniteSetTheorems, TLAPS

(* While a search is on, no table before its position has the signature.   *)
Searching ==
  wanted # "none" => /\ stage \in {"madt_init", "hpet_init"}
                 /\ i \in 1 .. Len(Root) + 1
                 /\ \A j \in 1 .. i - 1 : Root[j].signature # wanted

(* The root table is the proper one from acpi_init on.                     *)
RootChosen ==
  /\ stage = "acpi_init" => wanted = "none" /\ header = NULL /\ i = 1
  /\ stage # "acpi_init" => Root = ProperRoot

IInv == TypeOK /\ Searching /\ RootChosen /\ HeaderVerified

(* The types of the variables, one by one.                                 *)
LEMMA Types ==
  ASSUME IInv
  PROVE  /\ revision \in Nat /\ xsdt \in Seq(Table) /\ rsdt \in Seq(Table) /\ records \in Seq(Record)
         /\ wanted \in {"none", "APIC", "HPET"}
         /\ i \in 1 .. (IF stage = "records" THEN Len(records) ELSE Len(Root) + Len(records)) + 1
         /\ header \in Table \cup {NULL}
         /\ lapic_records \in Seq(DOMAIN records) /\ Len(lapic_records) <= SMP_MAX_CORES + 1
         /\ ioapic_records \in Seq(DOMAIN records) /\ Len(ioapic_records) <= IOAPIC_MAX_RECORDS + 1
         /\ stage \in {"acpi_init", "madt_init", "records", "hpet_init", "done", "panic", "overrun"}
  BY Zenon DEF IInv, TypeOK

(* The table that acpi_find_sdt reads is a sequence of tables.             *)
LEMMA RootType ==
  ASSUME IInv
  PROVE  /\ Root \in Seq(Table) /\ Len(Root) \in Nat /\ Len(records) \in Nat
         /\ DOMAIN records = 1 .. Len(records)
         /\ \A k \in 1 .. Len(Root) : Root[k] \in Table
         /\ SMP_MAX_CORES \in Nat /\ IOAPIC_MAX_RECORDS \in Nat
<1>1. Root \in Seq(Table) /\ records \in Seq(Record)
  BY Types, Zenon DEF Root
<1> QED
  BY <1>1, AcpiAssumption

(* A step leaves the firmware alone; what is left to show of the types.    *)
LEMMA TypesLeft ==
  ASSUME IInv, UNCHANGED firmware,
         xsdt_available' \in BOOLEAN,
         wanted' \in {"none", "APIC", "HPET"},
         i' \in 1 .. (IF stage' = "records" THEN Len(records) ELSE Len(Root') + Len(records)) + 1,
         header' \in Table \cup {NULL},
         lapic_records' \in Seq(DOMAIN records), Len(lapic_records') <= SMP_MAX_CORES + 1,
         ioapic_records' \in Seq(DOMAIN records), Len(ioapic_records') <= IOAPIC_MAX_RECORDS + 1,
         stage' \in {"acpi_init", "madt_init", "records", "hpet_init", "done", "panic", "overrun"}
  PROVE  TypeOK'
<1>1. revision' = revision /\ xsdt_address' = xsdt_address /\ xsdt' = xsdt /\ rsdt' = rsdt
      /\ records' = records
  BY DEF firmware
<1>2. revision' \in Nat /\ xsdt' \in Seq(Table) /\ rsdt' \in Seq(Table) /\ records' \in Seq(Record)
  BY <1>1, Types
<1>3. xsdt_address' \in BOOLEAN
  BY <1>1, Zenon DEF IInv, TypeOK
<1> QED
  BY <1>1, <1>2, <1>3, Zenon DEF TypeOK

(* What the boot loader hands over satisfies the invariant.                *)
LEMMA InitIInv == Init => IInv
<1> SUFFICES ASSUME Init PROVE IInv
  OBVIOUS
<1>1. xsdt \in Seq(Table) /\ rsdt \in Seq(Table) /\ records \in Seq(Record)
  <2>1. PICK f \in Firmwares : /\ \/ xsdt = f.root
                                \/ xsdt = <<>>
                             /\ \/ rsdt = f.root
                                \/ rsdt = <<>>
                             /\ records = f.records
    BY SMTT(30) DEF Init
  <2>2. f.root \in Seq(Table) /\ f.records \in Seq(Record) /\ <<>> \in Seq(Table)
    BY AcpiAssumption
  <2>3. xsdt \in Seq(Table)
    <3>1. CASE xsdt = f.root
      BY <2>2, <3>1
    <3>2. CASE xsdt = <<>>
      BY <2>2, <3>2
    <3> QED
      BY <2>1, <3>1, <3>2
  <2>4. rsdt \in Seq(Table)
    <3>1. CASE rsdt = f.root
      BY <2>2, <3>1
    <3>2. CASE rsdt = <<>>
      BY <2>2, <3>2
    <3> QED
      BY <2>1, <3>1, <3>2
  <2> QED
    BY <2>1, <2>2, <2>3, <2>4, Zenon
<1>2. xsdt_available \in BOOLEAN /\ xsdt_address \in BOOLEAN
  BY Zenon DEF Init
<1>3. Len(Root) \in Nat /\ Len(records) \in Nat
  BY <1>1 DEF Root
<1>4. /\ lapic_records \in Seq(DOMAIN records) /\ Len(lapic_records) = 0
      /\ ioapic_records \in Seq(DOMAIN records) /\ Len(ioapic_records) = 0
      /\ SMP_MAX_CORES \in Nat /\ IOAPIC_MAX_RECORDS \in Nat
  <2>1. lapic_records = <<>> /\ ioapic_records = <<>>
    BY Zenon DEF Init
  <2> QED
    BY <2>1, AcpiAssumption
<1>5. wanted = "none" /\ i = 1 /\ header = NULL /\ stage = "acpi_init" /\ revision \in {0, 2}
  BY Zenon DEF Init
<1>6. i \in 1 .. Len(Root) + Len(records) + 1 /\ revision \in Nat
  BY <1>3, <1>5
<1>7. TypeOK
  <2>1. Len(lapic_records) <= SMP_MAX_CORES + 1 /\ Len(ioapic_records) <= IOAPIC_MAX_RECORDS + 1
    BY <1>4
  <2>2. i \in 1 .. (IF stage = "records" THEN Len(records) ELSE Len(Root) + Len(records)) + 1
    BY <1>5, <1>6
  <2> QED
    BY <1>1, <1>2, <1>4, <1>5, <1>6, <2>1, <2>2, Zenon DEF TypeOK
<1> QED
  BY <1>5, <1>7 DEF IInv, Searching, RootChosen, HeaderVerified

(* The steps of acpi_init and acpi_find_sdt.                               *)
LEMMA SearchIInv ==
  ASSUME IInv, AcpiInit \/ NoMatch \/ Match \/ NotFound
  PROVE  IInv'
<1>1. UNCHANGED <<firmware, parsed>>
  BY DEF AcpiInit, NoMatch, Match, NotFound
<1>2. ProperRoot' = ProperRoot
  BY <1>1 DEF ProperRoot, firmware
<1>3. /\ lapic_records' \in Seq(DOMAIN records) /\ Len(lapic_records') <= SMP_MAX_CORES + 1
      /\ ioapic_records' \in Seq(DOMAIN records) /\ Len(ioapic_records') <= IOAPIC_MAX_RECORDS + 1
  BY <1>1, Types DEF parsed
<1>4. CASE AcpiInit
  <2>1. stage' = "madt_init" /\ wanted' = "APIC" /\ i' = 1 /\ header' = NULL
    BY <1>4 DEF AcpiInit, Find, IInv, RootChosen
  <2>2. Root' = ProperRoot
    <3>1. xsdt' = xsdt /\ rsdt' = rsdt
      BY <1>1 DEF firmware
    <3>2. xsdt_available' <=> revision > 1 /\ xsdt_address
      BY <1>4, Zenon DEF AcpiInit
    <3> QED
      BY <3>1, <3>2, Zenon DEF Root, ProperRoot
  <2>3. Len(Root') \in Nat
    <3>1. ProperRoot \in Seq(Table)
      BY Types, Zenon DEF ProperRoot
    <3> QED
      BY <2>2, <3>1
  <2>4. xsdt_available' \in BOOLEAN
    BY <1>4, Zenon DEF AcpiInit
  <2>5. TypeOK'
    <3>1. i' \in 1 .. (IF stage' = "records" THEN Len(records) ELSE Len(Root') + Len(records)) + 1
      BY <2>1, <2>3, RootType
    <3> QED
      BY <1>1, <1>3, <2>1, <2>4, <3>1, TypesLeft
  <2> QED
    BY <1>2, <2>1, <2>2, <2>3, <2>5 DEF IInv, Searching, RootChosen, HeaderVerified
<1>5. ASSUME wanted # "none", UNCHANGED <<xsdt_available, stage>>
      PROVE  /\ Root' = Root /\ Root = ProperRoot /\ stage \in {"madt_init", "hpet_init"}
             /\ i \in 1 .. Len(Root) + 1 /\ \A j \in 1 .. i - 1 : Root[j].signature # wanted
             /\ xsdt_available' \in BOOLEAN /\ Len(Root) \in Nat /\ Len(records) \in Nat
  <2>1. xsdt_available' \in BOOLEAN
    BY <1>5, Zenon DEF IInv, TypeOK
  <2> QED
    BY <1>1, <1>5, <2>1, RootType DEF IInv, Searching, RootChosen, Root, firmware
<1>6. CASE NoMatch
  <2>1. wanted # "none" /\ i <= Len(Root) /\ Root[i].signature # wanted /\ i' = i + 1
        /\ UNCHANGED <<xsdt_available, stage, wanted, header>>
    BY <1>6 DEF NoMatch, found
  <2>2. TypeOK'
    <3>1. i' \in 1 .. (IF stage' = "records" THEN Len(records) ELSE Len(Root') + Len(records)) + 1
      BY <1>5, <2>1
    <3> QED
      BY <1>1, <1>3, <1>5, <2>1, <3>1, Types, TypesLeft
  <2>3. Searching'
    <3>1. \A j \in 1 .. i' - 1 : Root'[j].signature # wanted'
      <4>1. \A j \in 1 .. i' - 1 : j \in 1 .. i - 1 \/ j = i
        BY <1>5, <2>1
      <4> QED
        BY <1>5, <2>1, <4>1
    <3> QED
      BY <1>5, <2>1, <3>1 DEF Searching
  <2>4. HeaderVerified' /\ RootChosen'
    BY <1>2, <1>5, <2>1 DEF IInv, RootChosen, HeaderVerified, First
  <2> QED
    BY <2>2, <2>3, <2>4 DEF IInv
<1>7. CASE Match
  <2>1. wanted # "none" /\ i <= Len(Root) /\ Root[i].signature = wanted /\ Root[i].checksum_ok
        /\ header' = Root[i] /\ wanted' = "none" /\ UNCHANGED <<xsdt_available, stage, i>>
    BY <1>7 DEF Match, Return
  <2>2. i \in 1 .. Len(Root) /\ Root[i] \in Table
    BY <1>5, <2>1, RootType
  <2>3. TypeOK'
    <3>1. i' \in 1 .. (IF stage' = "records" THEN Len(records) ELSE Len(Root') + Len(records)) + 1
      BY <1>5, <2>1
    <3> QED
      BY <1>1, <1>3, <1>5, <2>1, <2>2, <3>1, TypesLeft
  <2>4. First(header'.signature, i)
    BY <1>5, <2>1, <2>2 DEF First
  <2>5. HeaderVerified'
    BY <1>2, <1>5, <2>1, <2>2, <2>4 DEF HeaderVerified, First
  <2> QED
    BY <1>2, <1>5, <2>1, <2>3, <2>5 DEF IInv, Searching, RootChosen
<1>8. CASE NotFound
  <2>1. wanted # "none" /\ header' = NULL /\ wanted' = "none" /\ UNCHANGED <<xsdt_available, stage, i>>
    BY <1>8 DEF NotFound, Return
  <2>2. TypeOK'
    <3>1. i' \in 1 .. (IF stage' = "records" THEN Len(records) ELSE Len(Root') + Len(records)) + 1
      BY <1>5, <2>1
    <3> QED
      BY <1>1, <1>3, <1>5, <2>1, <3>1, TypesLeft
  <2> QED
    BY <1>2, <1>5, <2>1, <2>2 DEF IInv, Searching, RootChosen, HeaderVerified
<1> QED
  BY <1>4, <1>6, <1>7, <1>8

(* What the steps of madt_init and hpet_init leave alone.                  *)
LEMMA HeaderKept ==
  ASSUME IInv, stage # "acpi_init", stage' # "acpi_init", UNCHANGED <<firmware, xsdt_available, header>>
  PROVE  /\ HeaderVerified' /\ RootChosen' /\ Root' = Root
         /\ xsdt_available' \in BOOLEAN /\ header' \in Table \cup {NULL}
<1>1. Root' = Root /\ ProperRoot' = ProperRoot
  BY DEF Root, ProperRoot, firmware
<1>2. xsdt_available' \in BOOLEAN
  BY Zenon DEF IInv, TypeOK
<1> QED
  BY <1>1, <1>2, Types DEF IInv, HeaderVerified, First, RootChosen

(* A sequence with one more element is one longer.                         *)
LEMMA AppendTo ==
  ASSUME NEW S, NEW s \in Seq(S), NEW e \in S, NEW max \in Nat, Len(s) <= max
  PROVE  Append(s, e) \in Seq(S) /\ Len(Append(s, e)) <= max + 1
  OBVIOUS

(* The loop over the records keeps the bounds of the arrays.               *)
LEMMA RecordsIInv ==
  ASSUME IInv, LapicRecord \/ IoapicRecord \/ OtherRecord
  PROVE  IInv'
<1>1. UNCHANGED <<firmware, xsdt_available, wanted, header>> /\ stage = "records" /\ i <= Len(records)
  BY DEF LapicRecord, IoapicRecord, OtherRecord, AtRecord, found
<1>2. i \in DOMAIN records /\ wanted = "none"
  BY <1>1, Types, RootType DEF IInv, Searching
<1>3. stage' \in {"records", "panic", "overrun"} /\ i' \in {i, i + 1}
  BY <1>1 DEF LapicRecord, IoapicRecord, OtherRecord, AddRecord, Advance
<1>4. /\ lapic_records \in Seq(DOMAIN records) /\ Len(lapic_records) <= SMP_MAX_CORES + 1
      /\ ioapic_records \in Seq(DOMAIN records) /\ Len(ioapic_records) <= IOAPIC_MAX_RECORDS + 1
      /\ SMP_MAX_CORES \in Nat /\ IOAPIC_MAX_RECORDS \in Nat
  BY Types, RootType
<1>5. /\ lapic_records' \in Seq(DOMAIN records) /\ Len(lapic_records') <= SMP_MAX_CORES + 1
      /\ ioapic_records' \in Seq(DOMAIN records) /\ Len(ioapic_records') <= IOAPIC_MAX_RECORDS + 1
  <2>1. CASE LapicRecord
    <3>1. CASE Len(lapic_records) > SMP_MAX_CORES
      BY <1>4, <2>1, <3>1 DEF LapicRecord, AddRecord, parsed
    <3>2. CASE Len(lapic_records) <= SMP_MAX_CORES
      <4>1. lapic_records' = Append(lapic_records, i) /\ ioapic_records' = ioapic_records
        BY <1>4, <2>1, <3>2 DEF LapicRecord, AddRecord
      <4>2. Append(lapic_records, i) \in Seq(DOMAIN records)
            /\ Len(Append(lapic_records, i)) <= SMP_MAX_CORES + 1
        BY <1>2, <1>4, <3>2, AppendTo
      <4> QED
        BY <1>4, <4>1, <4>2, Zenon
    <3> QED
      BY <1>4, <3>1, <3>2
  <2>2. CASE IoapicRecord
    <3>1. CASE Len(ioapic_records) > IOAPIC_MAX_RECORDS
      BY <1>4, <2>2, <3>1 DEF IoapicRecord, AddRecord, parsed
    <3>2. CASE Len(ioapic_records) <= IOAPIC_MAX_RECORDS
      <4>1. ioapic_records' = Append(ioapic_records, i) /\ lapic_records' = lapic_records
        BY <1>4, <2>2, <3>2 DEF IoapicRecord, AddRecord
      <4>2. Append(ioapic_records, i) \in Seq(DOMAIN records)
            /\ Len(Append(ioapic_records, i)) <= IOAPIC_MAX_RECORDS + 1
        BY <1>2, <1>4, <3>2, AppendTo
      <4> QED
        BY <1>4, <4>1, <4>2, Zenon
    <3> QED
      BY <1>4, <3>1, <3>2
  <2>3. CASE OtherRecord
    BY <1>4, <2>3 DEF OtherRecord, parsed
  <2> QED
    BY <2>1, <2>2, <2>3
<1>6. HeaderVerified' /\ RootChosen' /\ Root' = Root /\ xsdt_available' \in BOOLEAN
      /\ header' \in Table \cup {NULL}
  BY <1>1, <1>3, HeaderKept
<1>7. i' \in 1 .. (IF stage' = "records" THEN Len(records) ELSE Len(Root') + Len(records)) + 1
  BY <1>1, <1>2, <1>3, <1>6, RootType
<1>8. TypeOK'
  BY <1>1, <1>2, <1>3, <1>5, <1>6, <1>7, TypesLeft
<1> QED
  BY <1>1, <1>2, <1>6, <1>8 DEF IInv, Searching

(* The steps between them.                                                 *)
LEMMA StageIInv ==
  ASSUME IInv, NoTable \/ MadtInit \/ MadtInitReturns \/ HpetInit
  PROVE  IInv'
<1>1. /\ UNCHANGED <<firmware, parsed, header, xsdt_available>>
      /\ stage \in {"madt_init", "records", "hpet_init"}
      /\ \/ i' = 1 /\ wanted = "none" /\ wanted' = "none" /\ stage' = "records"
         \/ i' = 1 /\ wanted' = "HPET" /\ stage' = "hpet_init"
         \/ i' = i /\ stage # "records" /\ wanted = "none" /\ wanted' = "none" /\ stage' \in {"panic", "done"}
  BY DEF NoTable, MadtInit, MadtInitReturns, HpetInit, Returned, found, Find
<1>2. HeaderVerified' /\ RootChosen' /\ Root' = Root /\ xsdt_available' \in BOOLEAN
      /\ header' \in Table \cup {NULL}
  BY <1>1, HeaderKept
<1>3. /\ lapic_records' \in Seq(DOMAIN records) /\ Len(lapic_records') <= SMP_MAX_CORES + 1
      /\ ioapic_records' \in Seq(DOMAIN records) /\ Len(ioapic_records') <= IOAPIC_MAX_RECORDS + 1
  BY <1>1, Types DEF parsed
<1>4. i \in 1 .. (IF stage = "records" THEN Len(records) ELSE Len(Root) + Len(records)) + 1
  BY Types
<1>5. i' \in 1 .. (IF stage' = "records" THEN Len(records) ELSE Len(Root') + Len(records)) + 1
  BY <1>1, <1>2, <1>4, RootType
<1>6. TypeOK'
  BY <1>1, <1>2, <1>3, <1>5, TypesLeft
<1> QED
  BY <1>1, <1>2, <1>6, RootType DEF IInv, Searching

(* Every step keeps the invariant.                                         *)
LEMMA NextIInv == IInv /\ [Next]_vars => IInv'
<1> SUFFICES ASSUME IInv, [Next]_vars PROVE IInv'
  OBVIOUS
<1>1. CASE UNCHANGED vars
  BY <1>1 DEF vars, firmware, found, parsed, IInv, TypeOK, Searching, RootChosen, Root, HeaderVerified,
              First, ProperRoot
<1> QED
  BY <1>1, SearchIInv, RecordsIInv, StageIInv DEF Next

(* Everything the reading of the tables rests on: a search has passed no   *)
(* table it looks for, in the root table that the revision calls for.      *)
THEOREM AcpiInvariant == Spec => []IInv
  BY InitIInv, NextIInv, PTL DEF Spec

(* The arrays are overrun by at most one element, whatever the firmware    *)
(* says.                                                                   *)
THEOREM AcpiTypeOK == Spec => []TypeOK
<1>1. IInv => TypeOK
  BY DEF IInv
<1> QED
  BY <1>1, AcpiInvariant, PTL

(* A table that acpi_find_sdt returns is the first of its signature in the *)
(* proper root table, and its checksum is right.                           *)
THEOREM AcpiHeaderVerified == Spec => []HeaderVerified
<1>1. IInv => HeaderVerified
  BY DEF IInv
<1> QED
  BY <1>1, AcpiInvariant, PTL

-----------------------------------------------------------------------------
(* The records that have been read.                                        *)
Before(type, k) == {j \in Positions(type) : j < k}

Recorded(s, type, k) == Lists(s, Before(type, k)) /\ Cardinality(Before(type, k)) = Len(s)

(* The record at i can be passed.                                          *)
Passable == ~ (i \in DOMAIN records /\ records[i].empty)

RecordsRead ==
  /\ stage \in {"acpi_init", "madt_init"} => lapic_records = <<>> /\ ioapic_records = <<>>
  /\ stage = "records" =>
       Len(lapic_records) <= SMP_MAX_CORES /\ Len(ioapic_records) <= IOAPIC_MAX_RECORDS
  /\ stage = "records" /\ Passable =>
       Recorded(lapic_records, MADT_TYPE_LAPIC, i) /\ Recorded(ioapic_records, MADT_TYPE_IOAPIC, i)
  /\ stage \in {"hpet_init", "done"} =>
       /\ Recorded(lapic_records, MADT_TYPE_LAPIC, Len(records) + 1)
       /\ Recorded(ioapic_records, MADT_TYPE_IOAPIC, Len(records) + 1)

(* A search that has come back empty had to.                               *)
SearchedInVain ==
  wanted = "none" /\ header = NULL =>
    /\ stage = "madt_init" => Lacking("APIC")
    /\ stage = "hpet_init" => Lacking("HPET")

RInv == IInv /\ RecordsRead /\ SearchedInVain /\ StopsOnlyForCause
        /\ (stage = "madt_init" /\ wanted # "none" => wanted = "APIC")
        /\ (stage = "hpet_init" /\ wanted # "none" => wanted = "HPET")

LEMMA PositionsFinite ==
  ASSUME records \in Seq(Record), NEW type, NEW k \in Nat
  PROVE  /\ IsFiniteSet(Positions(type)) /\ IsFiniteSet(Before(type, k))
         /\ Positions(type) \subseteq Nat
         /\ Before(type, Len(records) + 1) = Positions(type)
<1>1. Len(records) \in Nat /\ DOMAIN records = 1 .. Len(records)
  OBVIOUS
<1>2. IsFiniteSet(1 .. Len(records))
  BY <1>1, FS_Interval
<1>3. Positions(type) \subseteq 1 .. Len(records) /\ Before(type, k) \subseteq 1 .. Len(records)
  BY <1>1 DEF Positions, Before
<1>4. IsFiniteSet(Positions(type)) /\ IsFiniteSet(Before(type, k))
  BY <1>2, <1>3, FS_Subset
<1>5. Before(type, Len(records) + 1) = Positions(type)
  BY <1>1, <1>3 DEF Before
<1> QED
  BY <1>3, <1>4, <1>5

(* One more record: it is listed if its type is the list's.                *)
LEMMA RecordRead ==
  ASSUME records \in Seq(Record), NEW s \in Seq(DOMAIN records), NEW type,
         NEW k \in DOMAIN records, Recorded(s, type, k)
  PROVE  /\ records[k].type = type => Recorded(Append(s, k), type, k + 1)
         /\ records[k].type # type => Recorded(s, type, k + 1)
<1>1. k \in Nat /\ Len(s) \in Nat /\ DOMAIN s = 1 .. Len(s) /\ DOMAIN records \subseteq Nat
  OBVIOUS
<1>2. ASSUME records[k].type # type PROVE Recorded(s, type, k + 1)
  <2>1. Before(type, k + 1) = Before(type, k)
    <3>1. \A j \in Positions(type) : j \in Nat /\ (j < k + 1 <=> j < k \/ j = k)
      BY <1>1 DEF Positions
    <3>2. k \notin Positions(type)
      BY <1>2 DEF Positions
    <3> QED
      BY <3>1, <3>2 DEF Before
  <2> QED
    BY <2>1 DEF Recorded
<1>3. ASSUME records[k].type = type PROVE Recorded(Append(s, k), type, k + 1)
  <2> DEFINE n == Append(s, k)
             B == Before(type, k)
  <2>1. Before(type, k + 1) = B \cup {k} /\ k \notin B
    <3>1. \A j \in Positions(type) : j \in Nat /\ (j < k + 1 <=> j < k \/ j = k)
      BY <1>1 DEF Positions
    <3>2. k \in Positions(type)
      BY <1>3 DEF Positions
    <3> QED
      BY <1>1, <3>1, <3>2 DEF Before
  <2>2. Cardinality(B \cup {k}) = Len(s) + 1
    <3>1. IsFiniteSet(B)
      BY <1>1, PositionsFinite
    <3> QED
      BY <2>1, <3>1, FS_AddElement DEF Recorded
  <2>3. /\ Len(n) = Len(s) + 1 /\ DOMAIN n = 1 .. Len(s) + 1
        /\ n[Len(s) + 1] = k /\ \A j \in 1 .. Len(s) : n[j] = s[j]
    BY <1>1
  <2>4. \A j \in 1 .. Len(s) : s[j] \in B /\ s[j] < k
    BY <1>1 DEF Recorded, Lists, Before
  <2> HIDE DEF n, B
  <2>5. {n[j] : j \in DOMAIN n} = B \cup {k}
    <3>1. B = {s[j] : j \in 1 .. Len(s)}
      BY <1>1 DEF Recorded, Lists, B
    <3>2. \A j \in 1 .. Len(s) + 1 : j \in 1 .. Len(s) \/ j = Len(s) + 1
      BY <1>1
    <3>3. \A j \in 1 .. Len(s) : j \in DOMAIN n
      BY <1>1, <2>3
    <3>4. Len(s) + 1 \in DOMAIN n
      BY <1>1, <2>3
    <3> QED
      BY <2>3, <3>1, <3>2, <3>3, <3>4
  <2>6. ASSUME NEW j \in DOMAIN n, NEW l \in DOMAIN n, j < l PROVE n[j] < n[l]
    <3>1. j \in 1 .. Len(s) /\ (l \in 1 .. Len(s) \/ l = Len(s) + 1)
      BY <1>1, <2>3, <2>6
    <3> QED
      BY <1>1, <2>3, <2>4, <2>6, <3>1 DEF Recorded, Lists
  <2> QED
    BY <2>1, <2>2, <2>3, <2>5, <2>6 DEF Recorded, Lists, n
<1> QED
  BY <1>2, <1>3

(* A full list and one more record of its type.                            *)
LEMMA TooMany ==
  ASSUME records \in Seq(Record), NEW s, NEW type, NEW k \in DOMAIN records, NEW max \in Nat,
         records[k].type = type, Recorded(s, type, k), Len(s) = max
  PROVE  Cardinality(Positions(type)) > max
<1>1. k \in Nat
  OBVIOUS
<1>2. k \notin Before(type, k) /\ Before(type, k) \cup {k} \subseteq Positions(type)
  BY <1>1 DEF Before, Positions
<1>3. IsFiniteSet(Before(type, k)) /\ IsFiniteSet(Positions(type))
  BY <1>1, PositionsFinite
<1>4. Cardinality(Before(type, k) \cup {k}) = max + 1
  BY <1>2, <1>3, FS_AddElement DEF Recorded
<1>5. /\ Cardinality(Before(type, k) \cup {k}) <= Cardinality(Positions(type))
      /\ Cardinality(Positions(type)) \in Nat
  BY <1>2, <1>3, FS_Subset, FS_CardinalityType
<1> QED
  BY <1>4, <1>5

(* What the properties say of the firmware stays true.                     *)
LEMMA FirmwareKept ==
  ASSUME UNCHANGED firmware
  PROVE  /\ records' = records
         /\ Positions(MADT_TYPE_LAPIC)' = Positions(MADT_TYPE_LAPIC) /\ Positions(MADT_TYPE_IOAPIC)' = Positions(MADT_TYPE_IOAPIC)
         /\ Lacking("APIC")' <=> Lacking("APIC")
         /\ Lacking("HPET")' <=> Lacking("HPET")
         /\ Recorded(lapic_records, MADT_TYPE_LAPIC, i)' <=> Recorded(lapic_records', MADT_TYPE_LAPIC, i')
         /\ Recorded(ioapic_records, MADT_TYPE_IOAPIC, i)' <=> Recorded(ioapic_records', MADT_TYPE_IOAPIC, i')
         /\ Recorded(lapic_records, MADT_TYPE_LAPIC, Len(records) + 1)'
              <=> Recorded(lapic_records', MADT_TYPE_LAPIC, Len(records) + 1)
         /\ Recorded(ioapic_records, MADT_TYPE_IOAPIC, Len(records) + 1)'
              <=> Recorded(ioapic_records', MADT_TYPE_IOAPIC, Len(records) + 1)
<1>1. records' = records
  BY DEF firmware
<1>2. Lacking("APIC")' <=> Lacking("APIC")
  BY DEF firmware, ProperRoot, Lacking, First
<1>3. Lacking("HPET")' <=> Lacking("HPET")
  BY DEF firmware, ProperRoot, Lacking, First
<1> QED
  BY <1>1, <1>2, <1>3 DEF Positions, Recorded, Lists, Before

(* No record has been read, and nothing has been given up.                 *)
LEMMA InitRInv == Init => RInv
<1> SUFFICES ASSUME Init PROVE RInv
  OBVIOUS
<1>1. IInv
  BY InitIInv
<1>2. stage = "acpi_init" /\ wanted = "none" /\ lapic_records = <<>> /\ ioapic_records = <<>>
  BY Zenon DEF Init
<1> QED
  BY <1>1, <1>2, Zenon DEF RInv, RecordsRead, SearchedInVain, StopsOnlyForCause

(* The search: an empty result means that the first table of the signature *)
(* is damaged, or that there is none.                                      *)
LEMMA NotFoundLacks ==
  ASSUME IInv, NotFound
  PROVE  Lacking(wanted)
<1>1. /\ wanted # "none" /\ stage # "acpi_init" /\ i \in 1 .. Len(Root) + 1
      /\ \A j \in 1 .. i - 1 : Root[j].signature # wanted
      /\ i <= Len(Root) => Root[i].signature = wanted /\ ~ Root[i].checksum_ok
  BY DEF NotFound, IInv, Searching
<1>2. Root = ProperRoot /\ Len(Root) \in Nat /\ DOMAIN Root = 1 .. Len(Root)
  BY <1>1, RootType DEF IInv, RootChosen
<1>3. ASSUME NEW k \in DOMAIN ProperRoot, First(wanted, k) PROVE ~ ProperRoot[k].checksum_ok
  <2>1. k \in 1 .. Len(Root) /\ Root[k].signature = wanted /\ \A j \in 1 .. k - 1 : Root[j].signature # wanted
    BY <1>2, <1>3 DEF First
  <2>2. ~ (k < i)
    <3>1. k < i => k \in 1 .. i - 1
      BY <1>1, <1>2, <2>1
    <3> QED
      BY <1>1, <2>1, <3>1
  <2>3. i <= Len(Root) /\ ~ (i < k)
    <3>1. i <= Len(Root)
      BY <1>1, <1>2, <2>1, <2>2
    <3>2. i < k => i \in 1 .. k - 1
      BY <1>1, <1>2, <2>1
    <3> QED
      BY <1>1, <2>1, <3>1, <3>2
  <2>4. k = i
    BY <1>1, <1>2, <2>1, <2>2, <2>3
  <2> QED
    BY <1>1, <1>2, <2>3, <2>4
<1> QED
  BY <1>3 DEF Lacking

LEMMA SearchRInv ==
  ASSUME RInv, AcpiInit \/ NoMatch \/ Match \/ NotFound
  PROVE  RInv'
<1>1. IInv /\ IInv'
  BY SearchIInv DEF RInv
<1>2. UNCHANGED <<firmware, parsed>> /\ stage' \in {"madt_init", "hpet_init"}
      /\ stage \in {"acpi_init", "madt_init", "hpet_init"}
      /\ (stage' = stage \/ (stage = "acpi_init" /\ stage' = "madt_init"))
  BY <1>1 DEF AcpiInit, NoMatch, Match, NotFound, IInv, Searching
<1>3. RecordsRead'
  <2>1. lapic_records' = lapic_records /\ ioapic_records' = ioapic_records
    BY <1>2 DEF parsed
  <2>2. stage' = "madt_init" => lapic_records' = <<>> /\ ioapic_records' = <<>>
    BY <1>2, <2>1 DEF RInv, RecordsRead
  <2>3. stage' = "hpet_init" => /\ Recorded(lapic_records, MADT_TYPE_LAPIC, Len(records) + 1)'
                              /\ Recorded(ioapic_records, MADT_TYPE_IOAPIC, Len(records) + 1)'
    BY <1>2, <2>1, FirmwareKept DEF RInv, RecordsRead
  <2> QED
    BY <1>2, <2>2, <2>3, Zenon DEF RecordsRead
<1>4. StopsOnlyForCause'
  BY <1>2 DEF StopsOnlyForCause
<1>5. /\ stage' = "madt_init" /\ wanted' # "none" => wanted' = "APIC"
      /\ stage' = "hpet_init" /\ wanted' # "none" => wanted' = "HPET"
  BY <1>2 DEF RInv, AcpiInit, NoMatch, Match, NotFound, Find, Return, found
<1>6. SearchedInVain'
  <2>1. CASE AcpiInit
    BY <2>1 DEF AcpiInit, Find, SearchedInVain
  <2>2. CASE NoMatch
    BY <2>2 DEF NoMatch, found, SearchedInVain
  <2>3. CASE Match
    <3>1. i \in 1 .. Len(Root)
      BY <1>1, <2>3, RootType DEF Match, IInv, Searching
    <3>2. header' \in Table
      BY <1>1, <2>3, <3>1, RootType DEF Match, Return
    <3> QED
      BY <3>2, AcpiAssumption DEF SearchedInVain
  <2>4. CASE NotFound
    <3>1. Lacking(wanted) /\ stage' = stage /\ wanted # "none"
      BY <1>1, <2>4, NotFoundLacks DEF NotFound
    <3> QED
      BY <1>2, <3>1, FirmwareKept DEF SearchedInVain, RInv
  <2> QED
    BY <2>1, <2>2, <2>3, <2>4
<1> QED
  BY <1>1, <1>3, <1>4, <1>5, <1>6 DEF RInv

(* The loop over the records.                                              *)
LEMMA RecordsRInv ==
  ASSUME RInv, LapicRecord \/ IoapicRecord \/ OtherRecord
  PROVE  RInv'
<1>1. IInv /\ IInv'
  BY RecordsIInv DEF RInv
<1>2. UNCHANGED <<firmware, wanted, header>> /\ stage = "records" /\ i <= Len(records)
  BY DEF LapicRecord, IoapicRecord, OtherRecord, AtRecord, found
<1>3. /\ records \in Seq(Record) /\ i \in DOMAIN records /\ i \in Nat
      /\ lapic_records \in Seq(DOMAIN records) /\ ioapic_records \in Seq(DOMAIN records)
      /\ SMP_MAX_CORES \in Nat /\ IOAPIC_MAX_RECORDS \in Nat
      /\ Len(lapic_records) \in Nat /\ Len(ioapic_records) \in Nat
  BY <1>1, <1>2, Types, RootType
<1>4. Len(lapic_records) <= SMP_MAX_CORES /\ Len(ioapic_records) <= IOAPIC_MAX_RECORDS
  BY <1>2 DEF RInv, RecordsRead
<1>5. stage' \in {"records", "overrun"} /\ i' = (IF records[i].empty THEN i ELSE i + 1)
      /\ (LapicRecord => /\ records[i].type = MADT_TYPE_LAPIC /\ lapic_records' = Append(lapic_records, i)
                         /\ ioapic_records' = ioapic_records
                         /\ (stage' = "overrun" <=> Len(lapic_records) = SMP_MAX_CORES))
      /\ (IoapicRecord => /\ records[i].type = MADT_TYPE_IOAPIC /\ ioapic_records' = Append(ioapic_records, i)
                          /\ lapic_records' = lapic_records
                          /\ (stage' = "overrun" <=> Len(ioapic_records) = IOAPIC_MAX_RECORDS))
      /\ (OtherRecord => /\ records[i].type \notin {MADT_TYPE_LAPIC, MADT_TYPE_IOAPIC} /\ stage' = "records"
                         /\ ioapic_records' = ioapic_records /\ lapic_records' = lapic_records)
  <2>1. CASE LapicRecord
    BY <1>2, <1>3, <1>4, <2>1 DEF LapicRecord, IoapicRecord, OtherRecord, AtRecord, AddRecord, Advance
  <2>2. CASE IoapicRecord
    BY <1>2, <1>3, <1>4, <2>2 DEF LapicRecord, IoapicRecord, OtherRecord, AtRecord, AddRecord, Advance
  <2>3. CASE OtherRecord
    BY <1>2, <2>3 DEF LapicRecord, IoapicRecord, OtherRecord, AtRecord, Advance, parsed
  <2> QED
    BY <2>1, <2>2, <2>3
<1>6. ASSUME stage' = "records"
      PROVE  Len(lapic_records') <= SMP_MAX_CORES /\ Len(ioapic_records') <= IOAPIC_MAX_RECORDS
  BY <1>3, <1>4, <1>5, <1>6
<1>7. SearchedInVain' /\ (stage' = "madt_init" => FALSE) /\ (stage' = "hpet_init" => FALSE)
  BY <1>5 DEF SearchedInVain
<1>8. CASE records[i].empty
  <2>1. ~ Passable'
    BY <1>2, <1>3, <1>5, <1>8 DEF Passable, firmware
  <2>2. RecordsRead'
    BY <1>2, <1>5, <1>6, <2>1, Zenon DEF RecordsRead, firmware
  <2>3. StopsOnlyForCause'
    <3>1. \E k \in DOMAIN records' : records'[k].empty
      BY <1>2, <1>3, <1>8 DEF firmware
    <3> QED
      BY <3>1, Zenon DEF StopsOnlyForCause
  <2> QED
    BY <1>1, <1>7, <2>2, <2>3, Zenon DEF RInv
<1>9. CASE ~ records[i].empty
  <2>1. Recorded(lapic_records, MADT_TYPE_LAPIC, i) /\ Recorded(ioapic_records, MADT_TYPE_IOAPIC, i)
    BY <1>2, <1>9 DEF RInv, RecordsRead, Passable
  <2>2. Recorded(lapic_records', MADT_TYPE_LAPIC, i + 1) /\ Recorded(ioapic_records', MADT_TYPE_IOAPIC, i + 1)
    <3>1. CASE LapicRecord
      <4>1. records[i].type = MADT_TYPE_LAPIC /\ records[i].type # MADT_TYPE_IOAPIC
        BY <1>5, <3>1 DEF MADT_TYPE_LAPIC, MADT_TYPE_IOAPIC
      <4> QED
        BY <1>3, <1>5, <2>1, <3>1, <4>1, RecordRead
    <3>2. CASE IoapicRecord
      <4>1. records[i].type = MADT_TYPE_IOAPIC /\ records[i].type # MADT_TYPE_LAPIC
        BY <1>5, <3>2 DEF MADT_TYPE_LAPIC, MADT_TYPE_IOAPIC
      <4> QED
        BY <1>3, <1>5, <2>1, <3>2, <4>1, RecordRead
    <3>3. CASE OtherRecord
      <4>1. records[i].type # MADT_TYPE_IOAPIC /\ records[i].type # MADT_TYPE_LAPIC
        BY <1>5, <3>3
      <4> QED
        BY <1>3, <1>5, <2>1, <3>3, <4>1, RecordRead
    <3> QED
      BY <3>1, <3>2, <3>3
  <2>3. RecordsRead'
    <3>1. Recorded(lapic_records, MADT_TYPE_LAPIC, i)' /\ Recorded(ioapic_records, MADT_TYPE_IOAPIC, i)'
      BY <1>2, <1>5, <1>9, <2>2, FirmwareKept
    <3> QED
      BY <1>2, <1>5, <1>6, <3>1, Zenon DEF RecordsRead
  <2>4. StopsOnlyForCause'
    <3>1. CASE stage' = "records"
      BY <3>1 DEF StopsOnlyForCause
    <3>2. CASE stage' = "overrun"
      <4>1. CASE LapicRecord
        <5>1. Cardinality(Positions(MADT_TYPE_LAPIC)) > SMP_MAX_CORES
          BY <1>3, <1>5, <2>1, <3>2, <4>1, TooMany
        <5> QED
          BY <1>2, <5>1, FirmwareKept DEF StopsOnlyForCause
      <4>2. CASE IoapicRecord
        <5>1. Cardinality(Positions(MADT_TYPE_IOAPIC)) > IOAPIC_MAX_RECORDS
          BY <1>3, <1>5, <2>1, <3>2, <4>2, TooMany
        <5> QED
          BY <1>2, <5>1, FirmwareKept DEF StopsOnlyForCause
      <4>3. ~ OtherRecord
        BY <1>5, <3>2
      <4> QED
        BY <4>1, <4>2, <4>3
    <3> QED
      BY <1>5, <3>1, <3>2
  <2> QED
    BY <1>1, <1>7, <2>3, <2>4, Zenon DEF RInv
<1> QED
  BY <1>8, <1>9

(* The steps between them: madt_init begins with empty arrays, ends when   *)
(* the last record has been passed, and a table that is missing was        *)
(* searched for in vain.                                                   *)
LEMMA StageRInv ==
  ASSUME RInv, NoTable \/ MadtInit \/ MadtInitReturns \/ HpetInit
  PROVE  RInv'
<1>1. IInv /\ IInv'
  BY StageIInv DEF RInv
<1>2. UNCHANGED <<firmware, parsed, header>>
  BY DEF NoTable, MadtInit, MadtInitReturns, HpetInit, found
<1>3. records \in Seq(Record) /\ Len(records) \in Nat /\ DOMAIN records = 1 .. Len(records)
      /\ lapic_records' = lapic_records /\ ioapic_records' = ioapic_records /\ records' = records
      /\ SMP_MAX_CORES \in Nat /\ IOAPIC_MAX_RECORDS \in Nat
  BY <1>1, <1>2, Types, RootType DEF parsed, firmware
<1>4. CASE NoTable
  <2>1. stage' = "panic" /\ header = NULL /\ wanted = "none" /\ stage \in {"madt_init", "hpet_init"}
    BY <1>4 DEF NoTable, Returned
  <2>2. Lacking("APIC") \/ Lacking("HPET")
    BY <2>1 DEF RInv, SearchedInVain
  <2>3. StopsOnlyForCause'
    BY <1>2, <2>2, FirmwareKept DEF StopsOnlyForCause
  <2>4. RecordsRead' /\ SearchedInVain'
    BY <2>1, Zenon DEF RecordsRead, SearchedInVain
  <2> QED
    BY <1>1, <2>1, <2>3, <2>4, Zenon DEF RInv
<1>5. CASE MadtInit
  <2>1. stage = "madt_init" /\ stage' = "records" /\ i' = 1
    BY <1>5 DEF MadtInit, Returned
  <2>2. lapic_records = <<>> /\ ioapic_records = <<>>
    BY <2>1 DEF RInv, RecordsRead
  <2>3. ASSUME NEW type PROVE Recorded(<<>>, type, 1)
    <3>1. Before(type, 1) = {}
      BY <1>3 DEF Before, Positions
    <3> QED
      BY <3>1, FS_EmptySet DEF Recorded, Lists
  <2>4. Recorded(lapic_records, MADT_TYPE_LAPIC, i)' /\ Recorded(ioapic_records, MADT_TYPE_IOAPIC, i)'
    BY <1>2, <1>3, <2>1, <2>2, <2>3, FirmwareKept
  <2>5. Len(lapic_records') <= SMP_MAX_CORES /\ Len(ioapic_records') <= IOAPIC_MAX_RECORDS
    BY <1>3, <2>2
  <2>6. RecordsRead' /\ SearchedInVain' /\ StopsOnlyForCause'
    BY <2>1, <2>4, <2>5, Zenon DEF RecordsRead, SearchedInVain, StopsOnlyForCause
  <2> QED
    BY <1>1, <2>1, <2>6, Zenon DEF RInv
<1>6. CASE MadtInitReturns
  <2>1. stage = "records" /\ i > Len(records) /\ stage' = "hpet_init" /\ wanted' = "HPET"
    BY <1>6 DEF MadtInitReturns, Find
  <2>2. i = Len(records) + 1 /\ Passable
    <3>1. i \in 1 .. Len(records) + 1
      BY <1>1, <2>1, Types
    <3> QED
      BY <1>3, <2>1, <3>1 DEF Passable
  <2>3. Recorded(lapic_records, MADT_TYPE_LAPIC, Len(records) + 1)
        /\ Recorded(ioapic_records, MADT_TYPE_IOAPIC, Len(records) + 1)
    BY <2>1, <2>2 DEF RInv, RecordsRead
  <2>4. Recorded(lapic_records, MADT_TYPE_LAPIC, Len(records) + 1)'
        /\ Recorded(ioapic_records, MADT_TYPE_IOAPIC, Len(records) + 1)'
    BY <1>2, <1>3, <2>3, FirmwareKept
  <2>5. RecordsRead' /\ SearchedInVain' /\ StopsOnlyForCause'
    BY <2>1, <2>4, Zenon DEF RecordsRead, SearchedInVain, StopsOnlyForCause
  <2> QED
    BY <1>1, <2>1, <2>5, Zenon DEF RInv
<1>7. CASE HpetInit
  <2>1. stage = "hpet_init" /\ stage' = "done"
    BY <1>7 DEF HpetInit, Returned
  <2>2. Recorded(lapic_records, MADT_TYPE_LAPIC, Len(records) + 1)'
        /\ Recorded(ioapic_records, MADT_TYPE_IOAPIC, Len(records) + 1)'
    BY <1>2, <1>3, <2>1, FirmwareKept DEF RInv, RecordsRead
  <2>3. RecordsRead' /\ SearchedInVain' /\ StopsOnlyForCause'
    BY <2>1, <2>2, Zenon DEF RecordsRead, SearchedInVain, StopsOnlyForCause
  <2> QED
    BY <1>1, <2>1, <2>3, Zenon DEF RInv
<1> QED
  BY <1>4, <1>5, <1>6, <1>7

LEMMA StutterRInv ==
  ASSUME RInv, UNCHANGED vars
  PROVE  RInv'
<1>1. UNCHANGED <<firmware, lapic_records, ioapic_records, i, stage, wanted, header>> /\ IInv'
  BY NextIInv DEF vars, parsed, found, RInv
<1>2. RecordsRead'
  BY <1>1, FirmwareKept DEF RInv, RecordsRead, Passable, firmware
<1>3. SearchedInVain' /\ StopsOnlyForCause'
  BY <1>1, FirmwareKept DEF RInv, SearchedInVain, StopsOnlyForCause
<1> QED
  BY <1>1, <1>2, <1>3 DEF RInv

LEMMA NextRInv == RInv /\ [Next]_vars => RInv'
  BY SearchRInv, RecordsRInv, StageRInv, StutterRInv DEF Next

(* The lists hold exactly the records passed so far, and whoever has given *)
(* up had a reason.                                                        *)
THEOREM AcpiRecordsInvariant == Spec => []RInv
  BY InitRInv, NextRInv, PTL DEF Spec

(* madt_init returns with every record of type 0 in lapic_records and      *)
(* every record of type 16 in ioapic_records, and with no other, once      *)
(* each and in order, for every table and every size of the arrays.        *)
THEOREM AcpiRecordsByTypeNumber == Spec => []RecordsByTypeNumber
<1>1. RInv => RecordsByTypeNumber
  <2> SUFFICES ASSUME RInv, stage \in {"hpet_init", "done"}
               PROVE  /\ Lists(lapic_records, Positions(MADT_TYPE_LAPIC))
                      /\ Lists(ioapic_records, Positions(MADT_TYPE_IOAPIC))
    BY DEF RecordsByTypeNumber
  <2>1. records \in Seq(Record) /\ Len(records) + 1 \in Nat
    BY Types, RootType DEF RInv
  <2>2. Before(MADT_TYPE_LAPIC, Len(records) + 1) = Positions(MADT_TYPE_LAPIC)
        /\ Before(MADT_TYPE_IOAPIC, Len(records) + 1) = Positions(MADT_TYPE_IOAPIC)
    BY <2>1, PositionsFinite
  <2> QED
    BY <2>2 DEF RInv, RecordsRead, Recorded
<1> QED
  BY <1>1, AcpiRecordsInvariant, PTL

(* The kernel gives up, or writes behind an array, only with a reason.     *)
THEOREM AcpiStopsOnlyForCause == Spec => []StopsOnlyForCause
<1>1. RInv => StopsOnlyForCause
  BY DEF RInv
<1> QED
  BY <1>1, AcpiRecordsInvariant, PTL
=============================================================================
