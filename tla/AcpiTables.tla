----------------------------- MODULE AcpiTables -----------------------------
(***************************************************************************)
(* The walk through the firmware's ACPI tables at boot                     *)
(* (kernel/src/platform/x86_64/acpi.c): RSDP, RSDT, MADT and FADT, and the *)
(* arrays parse_madt keeps for the rest of the kernel.                     *)
(*                                                                         *)
(* A table is its signature, the sum of its bytes and the fields the code  *)
(* reads.  A record of the MADT has a type, the length byte it claims and  *)
(* the fields of its type.  Arrays come from kmalloc uncleared: an index   *)
(* outside an array's domain holds what was there before.                  *)
(***************************************************************************)
EXTENDS Integers, Sequences, FiniteSets, SequencesExt, Functions

CONSTANT
  Machines   \* what the firmware offers: see MachineType

\* Bytes of struct madt_type_<t>, for the types parse_madt stores.
SizeOf == [t \in {0, 1, 2, 3, 4, 5, 9} |->
             CASE t = 0 -> 6 [] t \in {1, 5} -> 10 [] t \in {2, 3} -> 8 [] t = 4 -> 4 [] t = 9 -> 14]
Stored == DOMAIN SizeOf

\* Records the kernel reads further have more fields: see IoApic.
RecordType == [type : 0 .. 255, length : 0 .. 255, id : Nat, address : Nat, gsi : Nat, flags : Nat]
TableType == [signature : STRING, sum : Nat]
MachineType ==
  [rsdp_present : BOOLEAN, rsdp : TableType, rsdt : TableType,
   tables : Seq(TableType),               \* outgoing_pointers
   unmappable : SUBSET STRING,            \* pages that map_page has no table for
   memory : BOOLEAN,                      \* kmalloc finds memory
   madt_flags : Nat, records : Seq(RecordType),
   firmware_ctrl : Nat, x_firmware_control : Nat,
   controllers : Seq([id : 0 .. 15, max : 0 .. 255])]   \* IO APICs, by address

ASSUME MachinesAssumption == \A m \in Machines :
  /\ {m.rsdp, m.rsdt} \cup Range(m.tables) \subseteq TableType
  /\ m.records \in Seq(RecordType)
  /\ \A r \in Range(m.records) : r.type = 1 => r.address \in DOMAIN m.controllers
  /\ \A c \in Range(m.controllers) : c.id \in 0 .. 15 /\ c.max \in 0 .. 255

VARIABLES
  machine,
  pc,         \* "rsdp", "rsdt", "madt", "records", "fadt", "io_apic", "overrides", "done";
              \* "panic"; "fault": the page fault handler's hcf;
              \* "garbage": going on with what an array held before
  at,         \* the record at offset
  i, last_type,
  arrays,     \* local_apics, io_apics, ... by type
  num,        \* local_apic_num, io_apic_num, ... by type
  facs_ptr

acpi == <<machine, pc, at, i, last_type, arrays, num, facs_ptr>>
madt == <<at, i, last_type, arrays, num>>

\* last_type is a local variable without an initial value.
InitAcpi ==
  /\ machine \in Machines
  /\ pc = "rsdp" /\ at = 1 /\ i = 0
  /\ last_type \in {0, machine.records[1].type}
  /\ arrays = [t \in Stored |-> <<>>] /\ num = [t \in Stored |-> 0]
  /\ facs_ptr = 0

map_page(page) == page \notin machine.unmappable

\* memcmp over the first 7 of the 8 bytes: what follows "RSD PTR" is not compared.
memcmp_rsdp(s) == s \in {"RSD PTR ", "RSD PTR?"}

\* A sum of bytes, in a uint8_t or of which the low byte is tested.
checksum_header(table) == table.sum % 256 = 0

\* The text of the panic is built in memory from kmalloc; panic reads through NULL.
Mismatch == IF machine.memory THEN "panic" ELSE "fault"

\* get_rsdp's NULL is dereferenced; an RSDP that cannot be mapped ends ACPI quietly.
bootstrap_rsdp ==
  /\ pc = "rsdp"
  /\ pc' = CASE ~machine.rsdp_present -> "fault"
             [] machine.rsdp_present /\ ~map_page("RSDP") -> "io_apic"
             [] OTHER -> IF ~memcmp_rsdp(machine.rsdp.signature) THEN Mismatch
                         ELSE IF checksum_header(machine.rsdp) THEN "rsdt" ELSE "panic"
  /\ UNCHANGED <<machine, madt, facs_ptr>>

check_header_signature(table, expected) == table.signature = expected

\* Slip: the RSDT's bytes are not summed.
bootstrap_rsdt_unsummed ==
  /\ pc = "rsdt"
  /\ pc' = IF ~map_page("RSDT") THEN "panic"
           ELSE IF ~check_header_signature(machine.rsdt, "RSDT") THEN Mismatch ELSE "madt"
  /\ UNCHANGED <<machine, madt, facs_ptr>>

bootstrap_rsdt ==
  /\ pc = "rsdt"
  /\ pc' = IF ~map_page("RSDT") THEN "panic"
           ELSE IF ~check_header_signature(machine.rsdt, "RSDT") THEN Mismatch
           ELSE IF checksum_header(machine.rsdt) THEN "madt" ELSE "panic"
  /\ UNCHANGED <<machine, madt, facs_ptr>>

\* find_table looks at the tables until one has the signature; a mapping that fails
\* is not noticed, and the signature is read all the same.  Its callers panic when
\* there is none, or when its bytes do not sum to 0.
TableAt(signature) == SelectInSeq(machine.tables, LAMBDA t : t.signature = signature)
FaultsOnTheWay(signature) ==
  \E k \in DOMAIN machine.tables :
    /\ ~map_page(machine.tables[k].signature)
    /\ TableAt(signature) = 0 \/ k <= TableAt(signature)
find_table(signature) ==
  IF FaultsOnTheWay(signature) THEN "fault"
  ELSE IF TableAt(signature) = 0 THEN "panic"
  ELSE IF ~checksum_header(machine.tables[TableAt(signature)]) THEN "panic"
  ELSE "found"

\* kmalloc seven times; its result is not looked at until the first store.
bootstrap_madt ==
  /\ pc = "madt"
  /\ pc' = IF find_table("APIC") # "found" THEN find_table("APIC")
           ELSE IF machine.madt_flags = 0 THEN "panic" ELSE "records"
  /\ UNCHANGED <<machine, madt, facs_ptr>>

\* Slip: the index goes on through the records of other types.
IndexFor_shared(type) == i

\* One index for all types, restarted where the type changes.
IndexFor(type) == IF last_type # type THEN 0 ELSE i

\* madt_sdt_header->length: the header, and the lengths the records claim.
MadtLength == 44 + FoldSeq(LAMBDA r, sum : r.length + sum, 0, machine.records)

Put(f, k, v) == [j \in DOMAIN f \cup {k} |-> IF j = k THEN v ELSE f[j]]

\* A store into the array of a type, at k; memory ends at the array kmalloc gave, or
\* there is none.
StoreFits(type, k) == machine.memory /\ (k + 1) * SizeOf[type] <= MadtLength

\* offset += header.length: a length of 0 stays at the record.
offset(record) == at' = IF record.length = 0 THEN at ELSE at + 1

ParseRecord ==
  /\ pc = "records" /\ at <= Len(machine.records)
  /\ LET record == machine.records[at]
         type == record.type
         k == IndexFor(type)
     IN \/ /\ type \in Stored /\ StoreFits(type, k)
           /\ arrays' = [arrays EXCEPT ![type] = Put(@, k, record)]
           /\ num' = [num EXCEPT ![type] = @ + 1]
           /\ i' = k + 1 /\ last_type' = type /\ offset(record)
           /\ UNCHANGED pc
        \/ \* A store past the array goes on to the end of the mapped heap.
           /\ type \in Stored /\ ~StoreFits(type, k)
           /\ pc' = "fault"
           /\ UNCHANGED madt
        \/ \* Other types are warned of, by a name that is there for types up to 9.
           /\ type \notin Stored
           /\ pc' \in IF type <= 9 THEN {pc} ELSE {pc, "fault"}
           /\ i' = IF k < MadtLength THEN k + 1 ELSE k
           /\ last_type' = type /\ offset(record)
           /\ UNCHANGED <<arrays, num>>
  /\ UNCHANGED <<machine, facs_ptr>>

ParseEnds ==
  /\ pc = "records" /\ at > Len(machine.records)
  /\ pc' = IF num[5] > 0 THEN "panic" ELSE "fadt"
  /\ UNCHANGED <<machine, madt, facs_ptr>>

\* Slip: the 64-bit pointer of newer tables is not looked at.
FacsPtr_short == machine.firmware_ctrl

FacsPtr == IF machine.firmware_ctrl # 0 THEN machine.firmware_ctrl ELSE machine.x_firmware_control

bootstrap_fadt ==
  /\ pc = "fadt"
  /\ pc' = IF find_table("FACP") # "found" THEN find_table("FACP")
           ELSE IF FacsPtr = 0 THEN "panic" ELSE "io_apic"
  /\ facs_ptr' = IF pc' = "io_apic" THEN FacsPtr ELSE facs_ptr
  /\ UNCHANGED <<machine, madt>>

bootstrap_acpi ==
  \/ bootstrap_rsdp \/ bootstrap_rsdt \/ bootstrap_madt \/ ParseRecord \/ ParseEnds
  \/ bootstrap_fadt

-----------------------------------------------------------------------------
(* Properties.                                                             *)

\* Nothing is read out of a table before the chain that leads to it was checked:
\* a record stored or a pointer kept comes from tables with the right signature
\* and sum, the root ones included.
TablesTrusted ==
  /\ (\E t \in Stored : num[t] > 0) =>
       /\ checksum_header(machine.rsdp) /\ checksum_header(machine.rsdt)
       /\ checksum_header(machine.tables[TableAt("APIC")])
  /\ facs_ptr # 0 =>
       /\ checksum_header(machine.rsdt) /\ machine.rsdt.signature = "RSDT"
       /\ checksum_header(machine.tables[TableAt("FACP")])
       /\ at > Len(machine.records)

\* The places in the table of the records of type t among the first n.
Places(t, n) == {k \in 1 .. n : machine.records[k].type = t}

\* All records of one type follow one another.
Grouped == \A a, b, c \in DOMAIN machine.records :
  (a < b /\ b < c /\ machine.records[a].type = machine.records[c].type)
    => machine.records[a].type = machine.records[b].type

\* When the records of a type follow one another (the order the comment at the
\* index relies on), whatever last_type held at first, every record is found in its
\* array in the table's order, and the counts are those of the table.
RecordsKept ==
  (pc \in {"fadt", "io_apic", "overrides", "done"} /\ at > 1 /\ Grouped) =>
    \A t \in Stored :
      /\ num[t] = Cardinality(Places(t, Len(machine.records)))
      /\ \A k \in Places(t, Len(machine.records)) :
           LET before == Cardinality(Places(t, k - 1))
           IN before \in DOMAIN arrays[t] /\ arrays[t][before] = machine.records[k]
=============================================================================
