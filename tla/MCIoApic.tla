------------------------------ MODULE MCIoApic ------------------------------
EXTENDS IoApic

CONSTANTS MaxRecords   \* length of the MADTs that are enumerated
CONSTANTS Ids          \* IDs of the IO APICs

RecordOf(type, length, id, address, gsi) ==
  [type |-> type, length |-> length, id |-> id, address |-> address, gsi |-> gsi, flags |-> 0]

\* A processor, two IO APICs with three lines each, one with lines from 256 on,
\* overrides on the middle lines, a record of a type without an array, and records
\* of length 0.
LocalApic == RecordOf(0, 8, 0, 0, 0)
IoApics == {RecordOf(1, 12, id, 1, 0) : id \in Ids}
             \cup {RecordOf(1, 12, 0, 2, 3), RecordOf(1, 12, 0, 2, 256)}
Overrides == {RecordOf(2, 10, 0, 0, gsi) : gsi \in {0, 1, 4}}
Others == {RecordOf(4, 6, 0, 0, 0), RecordOf(8, 8, 0, 0, 0), RecordOf(0, 0, 1, 0, 0)}
Rare == {RecordOf(3, 10, 0, 0, 1), RecordOf(5, 12, 0, 0, 0), RecordOf(9, 16, 0, 0, 0),
         RecordOf(10, 12, 0, 0, 0), RecordOf(8, 0, 0, 0, 0)}

Common == {LocalApic} \cup IoApics \cup Overrides \cup Others
Override1 == RecordOf(2, 10, 0, 0, 1)
Madts ==
  UNION {[1 .. n -> Common] : n \in 1 .. MaxRecords}
    \cup {<<LocalApic, r, a, Override1>> : r \in Rare, a \in IoApics}
    \cup {<<a, Override1, Override1, Override1, Override1>> : a \in IoApics}

Table(signature, sum) == [signature |-> signature, sum |-> sum]
Machine(records, id) ==
  [rsdp_present |-> TRUE, rsdp |-> Table("RSD PTR ", 1792), rsdt |-> Table("RSDT", 512),
   tables |-> <<Table("HPET", 256), Table("FACP", 768), Table("APIC", 256)>>,
   unmappable |-> {}, memory |-> TRUE, madt_flags |-> 1, records |-> records,
   firmware_ctrl |-> 1, x_firmware_control |-> 0,
   controllers |-> <<[id |-> id, max |-> 2], [id |-> 0, max |-> 2]>>]

\* Firmware with one defect.
Defective(m) ==
  {[m EXCEPT !.rsdp_present = FALSE], [m EXCEPT !.memory = FALSE], [m EXCEPT !.madt_flags = 0],
   [m EXCEPT !.firmware_ctrl = 0], [m EXCEPT !.firmware_ctrl = 0, !.x_firmware_control = 2],
   [m EXCEPT !.tables = <<Table("FACP", 256)>>], [m EXCEPT !.tables = <<Table("APIC", 256)>>],
   [m EXCEPT !.tables = <<Table("APIC", 257), Table("APIC", 256), Table("FACP", 256)>>],
   [m EXCEPT !.tables = <<Table("APIC", 256), Table("FACP", 257)>>]}
  \cup {[m EXCEPT !.unmappable = {page}] : page \in {"RSDP", "RSDT", "HPET", "FACP", "IO APIC"}}
  \cup {[m EXCEPT !.rsdp = t] : t \in {Table("RSD PTR?", 256), Table("RSDPTR", 256),
                                       Table("RSD PTR ", 257)}}
  \cup {[m EXCEPT !.rsdt = t] : t \in {Table("XSDT", 256), Table("RSDT", 257)}}

MCMachines ==
  {Machine(records, id) : records \in Madts, id \in Ids}
    \cup UNION {Defective(Machine(<<LocalApic, a, Override1>>, 0)) : a \in IoApics}
    \cup {[Machine(<<a>>, 0) EXCEPT !.memory = FALSE, !.rsdt = Table("XSDT", 256)] : a \in IoApics}
=============================================================================
