----------------------------- MODULE AcpiTables -----------------------------
(***************************************************************************)
(* What the kernel takes from the firmware's tables: acpi_init and         *)
(* acpi_find_sdt of acpi.c, madt_init of madt.c and the lookup of          *)
(* hpet_init, in the order in which kmain calls them.                      *)
(*                                                                         *)
(* A table is known by its signature, by whether its checksum is right     *)
(* and, for the MADT, by its records; a record by the number in its type   *)
(* field and by whether its length field is zero.  Lengths tile the table  *)
(* otherwise, so the loop's byte offset is the number of records passed.   *)
(***************************************************************************)
EXTENDS Naturals, Sequences, FiniteSets

CONSTANTS
  SMP_MAX_CORES, IOAPIC_MAX_RECORDS,
  Firmwares,        \* what firmwares may hold: [root: the tables an XSDT or RSDT
                    \* lists, records: what follows the header of the MADT]
  NULL

Signatures == {"APIC", "HPET", "FACP"}
Table == [signature : Signatures, checksum_ok : BOOLEAN]
Record == [type : 0 .. 255, empty : BOOLEAN]

(* The types madt_init keeps, by the numbers madt.c gives them.  What a    *)
(* firmware means by a number is the ACPI specification's affair, and the  *)
(* number of its I/O APIC records is 1: nothing here says that a record of *)
(* type MADT_TYPE_IOAPIC describes an I/O APIC.                            *)
MADT_TYPE_LAPIC == 0
MADT_TYPE_IOAPIC == 16

ASSUME AcpiAssumption ==
  /\ SMP_MAX_CORES \in Nat \ {0} /\ IOAPIC_MAX_RECORDS \in Nat \ {0}
  /\ \A f \in Firmwares : f.root \in Seq(Table) /\ f.records \in Seq(Record)
  /\ NULL \notin Table

VARIABLES
  revision, xsdt_address,       \* of the RSDP: the revision, and whether the address is not zero
  xsdt, rsdt,                   \* what the two root tables list
  records,                      \* what follows the header of the MADT
  xsdt_available,
  wanted,                       \* the signature acpi_find_sdt looks for, or "none"
  i,                            \* the loop variable of acpi_find_sdt and of madt_init
  header,                       \* what acpi_find_sdt has returned
  lapic_records, ioapic_records,    \* the first lapic_counter and ioapic_counter elements
  stage,
  warned                        \* history: the signatures a warning has been printed for

firmware == <<revision, xsdt_address, xsdt, rsdt, records>>
found == <<xsdt_available, wanted, header, warned>>
parsed == <<lapic_records, ioapic_records>>
vars == <<firmware, found, parsed, i, stage>>

Init ==
  /\ revision \in {0, 2}
  /\ xsdt_address \in BOOLEAN
  /\ \E f \in Firmwares :
       /\ \/ xsdt = f.root /\ rsdt = <<>>
          \/ xsdt = <<>> /\ rsdt = f.root
       /\ records = f.records
  /\ xsdt_available = FALSE
  /\ wanted = "none"
  /\ i = 1
  /\ header = NULL
  /\ lapic_records = <<>>
  /\ ioapic_records = <<>>
  /\ stage = "acpi_init"
  /\ warned = {}

-----------------------------------------------------------------------------
(* acpi_find_sdt *)

Root == IF xsdt_available THEN xsdt ELSE rsdt

Find(signature) == wanted' = signature /\ i' = 1

(* acpi_init, and the call madt_init starts with. *)
AcpiInit ==
  /\ stage = "acpi_init"
  /\ xsdt_available' = (revision > 1 /\ xsdt_address)
  /\ stage' = "madt_init"
  /\ Find("APIC")
  /\ UNCHANGED <<firmware, parsed, header, warned>>

Return(table) == header' = table /\ wanted' = "none"

NoMatchAgain ==                  \* mutant: the loop does not advance
  /\ wanted # "none" /\ i <= Len(Root) /\ Root[i].signature # wanted
  /\ UNCHANGED vars

NoMatch ==
  /\ wanted # "none" /\ i <= Len(Root) /\ Root[i].signature # wanted
  /\ i' = i + 1
  /\ UNCHANGED <<firmware, found, parsed, stage>>

MatchAnyChecksum ==              \* mutant: acpi_do_checksum is not asked
  /\ wanted # "none" /\ i <= Len(Root) /\ Root[i].signature = wanted
  /\ Return(Root[i])
  /\ UNCHANGED <<firmware, parsed, xsdt_available, warned, i, stage>>

Match ==
  /\ wanted # "none" /\ i <= Len(Root) /\ Root[i].signature = wanted /\ Root[i].checksum_ok
  /\ Return(Root[i])
  /\ UNCHANGED <<firmware, parsed, xsdt_available, warned, i, stage>>

(* The first table with the signature decides, and a wrong checksum ends   *)
(* the search like an empty list.                                          *)
NotFound ==
  /\ wanted # "none"
  /\ i <= Len(Root) => Root[i].signature = wanted /\ ~ Root[i].checksum_ok
  /\ Return(NULL)
  /\ warned' = warned \cup {wanted}
  /\ UNCHANGED <<firmware, parsed, xsdt_available, i, stage>>

-----------------------------------------------------------------------------
(* madt_init and hpet_init *)

Returned(s) == wanted = "none" /\ stage = s

NoTable ==
  /\ Returned("madt_init") \/ Returned("hpet_init")
  /\ header = NULL
  /\ stage' = "panic"
  /\ UNCHANGED <<firmware, found, parsed, i>>

MadtInit ==
  /\ Returned("madt_init") /\ header # NULL
  /\ stage' = "records"
  /\ i' = 1
  /\ UNCHANGED <<firmware, found, parsed>>

AdvanceTwice == i' = IF records[i].empty THEN i ELSE i + 2      \* mutant: a record is skipped

Advance == i' = IF records[i].empty THEN i ELSE i + 1

AtRecord(types) == stage = "records" /\ i <= Len(records) /\ records[i].type \in types

AddRecordTooSoon(old, max, new) ==      \* mutant: one element is never used
  IF Len(old) >= max - 1
    THEN stage' = "panic" /\ UNCHANGED <<i, parsed>>
    ELSE new /\ Advance /\ stage' = IF Len(old) = max THEN "overrun" ELSE stage

(* lapic_records[lapic_counter++]: the element after the last one is       *)
(* somebody else's memory, and nothing more is said of the program.        *)
AddRecord(old, max, new) ==
  IF Len(old) > max
    THEN stage' = "panic" /\ UNCHANGED <<i, parsed>>
    ELSE new /\ Advance /\ stage' = IF Len(old) = max THEN "overrun" ELSE stage

LapicRecordFallsThrough ==       \* mutant: the case has no break
  /\ AtRecord({MADT_TYPE_LAPIC})
  /\ AddRecord(lapic_records, SMP_MAX_CORES,
               /\ lapic_records' = Append(lapic_records, i)
               /\ ioapic_records' = Append(ioapic_records, i))
  /\ UNCHANGED <<firmware, found>>

LapicRecord ==
  /\ AtRecord({MADT_TYPE_LAPIC})
  /\ AddRecord(lapic_records, SMP_MAX_CORES,
               lapic_records' = Append(lapic_records, i) /\ UNCHANGED ioapic_records)
  /\ UNCHANGED <<firmware, found>>

IoapicRecord ==
  /\ AtRecord({MADT_TYPE_IOAPIC})
  /\ AddRecord(ioapic_records, IOAPIC_MAX_RECORDS,
               ioapic_records' = Append(ioapic_records, i) /\ UNCHANGED lapic_records)
  /\ UNCHANGED <<firmware, found>>

(* The switch has no other case, and no default.                           *)
OtherRecord ==
  /\ AtRecord((0 .. 255) \ {MADT_TYPE_LAPIC, MADT_TYPE_IOAPIC})
  /\ Advance
  /\ UNCHANGED <<firmware, found, parsed, stage>>

(* The end of madt_init, and the call hpet_init starts with. *)
MadtInitReturns ==
  /\ stage = "records" /\ i > Len(records)
  /\ stage' = "hpet_init"
  /\ Find("HPET")
  /\ UNCHANGED <<firmware, parsed, xsdt_available, header, warned>>

HpetInit ==
  /\ Returned("hpet_init") /\ header # NULL
  /\ stage' = "done"
  /\ UNCHANGED <<firmware, found, parsed, i>>

Next ==
  \/ AcpiInit \/ NoMatch \/ Match \/ NotFound
  \/ NoTable \/ MadtInit \/ LapicRecord \/ IoapicRecord \/ OtherRecord
  \/ MadtInitReturns \/ HpetInit

Spec == Init /\ [][Next]_vars /\ WF_vars(Next)

-----------------------------------------------------------------------------
TypeOK ==
  /\ revision \in Nat /\ xsdt_address \in BOOLEAN /\ xsdt_available \in BOOLEAN
  /\ xsdt \in Seq(Table) /\ rsdt \in Seq(Table) /\ records \in Seq(Record)
  /\ wanted \in {"none", "APIC", "HPET"}
  /\ i \in 1 .. (IF stage = "records" THEN Len(records) ELSE Len(Root) + Len(records)) + 1
  /\ header \in Table \cup {NULL}
  /\ lapic_records \in Seq(DOMAIN records) /\ Len(lapic_records) <= SMP_MAX_CORES + 1
  /\ ioapic_records \in Seq(DOMAIN records) /\ Len(ioapic_records) <= IOAPIC_MAX_RECORDS + 1
  /\ stage \in {"acpi_init", "madt_init", "records", "hpet_init", "done", "panic", "overrun"}

(* What acpi_find_sdt returns is the first table of its signature in the   *)
(* root table the firmware's revision calls for, and has a right checksum. *)
ProperRoot == IF revision > 1 /\ xsdt_address THEN xsdt ELSE rsdt
First(signature, k) ==
  /\ k \in DOMAIN ProperRoot /\ ProperRoot[k].signature = signature
  /\ \A j \in 1 .. k - 1 : ProperRoot[j].signature # signature

HeaderVerified ==
  header # NULL => /\ header.checksum_ok
                   /\ \E k \in DOMAIN ProperRoot :
                        First(header.signature, k) /\ ProperRoot[k] = header

(* When madt_init returns, lapic_records lists the records of type 0 and   *)
(* ioapic_records those of type 16: each of them once, in the order of the *)
(* table, and no record of another type.  Type 16 is the code's number for *)
(* an IOAPIC; the records by which ACPI describes I/O APICs have type 1    *)
(* and are in neither list.                                                *)
Positions(type) == {k \in DOMAIN records : records[k].type = type}

Lists(s, positions) ==
  /\ {s[j] : j \in DOMAIN s} = positions
  /\ \A j, k \in DOMAIN s : j < k => s[j] < s[k]

RecordsByTypeNumber ==
  stage \in {"hpet_init", "done"} =>
    /\ Lists(lapic_records, Positions(MADT_TYPE_LAPIC))
    /\ Lists(ioapic_records, Positions(MADT_TYPE_IOAPIC))

(* The kernel gives up, or writes behind an array, only with a reason: too *)
(* many records of type 0 or of type 16, a record without length, or a     *)
(* table that is not there or whose first occurrence is damaged.           *)
Lacking(signature) ==
  \A k \in DOMAIN ProperRoot : First(signature, k) => ~ ProperRoot[k].checksum_ok

StopsOnlyForCause ==
  stage \in {"panic", "overrun"} =>
    \/ Cardinality(Positions(MADT_TYPE_LAPIC)) > SMP_MAX_CORES
    \/ Cardinality(Positions(MADT_TYPE_IOAPIC)) > IOAPIC_MAX_RECORDS
    \/ \E k \in DOMAIN records : records[k].empty
    \/ Lacking("APIC") \/ Lacking("HPET")

(* The search and the loop over the records come to an end, except at a    *)
(* record that says it has no length.                                      *)
TablesAreRead ==
  <>(stage \in {"done", "panic", "overrun"} \/ \E k \in DOMAIN records : records[k].empty)

(* "System has more LAPICs than the maximum": with more records of a type  *)
(* than its array has elements madt_init panics and adds none of the       *)
(* excess.                                                                 *)
NeverMoreThanTheMaximum ==
  Len(lapic_records) <= SMP_MAX_CORES /\ Len(ioapic_records) <= IOAPIC_MAX_RECORDS
=============================================================================
