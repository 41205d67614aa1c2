----------------------------- MODULE IoApicProofs -----------------------------
(***************************************************************************)
(* Proofs about AcpiTables and IoApic, for every machine that              *)
(* MachinesAssumption allows: any number of tables, records, controllers   *)
(* and overrides, whatever their contents.                                 *)
(*                                                                         *)
(* The argument for the tables: how far the walk came says which tables    *)
(* were checked (ChainChecked), and nothing is kept before (KeptLate).     *)
(* For the redirection registers: the next entry is never past the written *)
(* ones unless all are written (EntryNext), also when its byte wraps or    *)
(* two records name the same controller.  For the overrides: the arrays do *)
(* not change once one is taken, so that the range it was found in is the  *)
(* range of its controller for good (TakenOnLines).  For the arrays of     *)
(* parse_madt: while the records of a type follow one another, the index   *)
(* shared by all types is the number of records of the type stored so far, *)
(* so a store is never on top of another (KeptUpto).                       *)
(***************************************************************************)
EXTENDS IoApic, FiniteSetTheorems, TLAPS

Trusted(table) == checksum_header(table)

\* What was checked by the step the walk has reached.
ChainChecked ==
  /\ pc \in {"rsdt", "madt", "records", "fadt"} => Trusted(machine.rsdp)
  /\ pc \in {"madt", "records", "fadt"} => Trusted(machine.rsdt) /\ machine.rsdt.signature = "RSDT"
  /\ pc \in {"records", "fadt"} => Trusted(machine.tables[TableAt("APIC")])
  /\ pc = "fadt" => at > Len(machine.records)

\* Nothing is kept before the step that reads it.
KeptLate ==
  /\ pc \in {"rsdp", "rsdt", "madt"} => \A t \in Stored : num[t] = 0
  /\ pc \in {"rsdp", "rsdt", "madt", "records", "fadt"} => facs_ptr = 0

\* The inductive invariant of the walk.
WalkInv == ChainChecked /\ KeptLate /\ TablesTrusted

-----------------------------------------------------------------------------
(* The walk through the tables.                                            *)

\* Boot begins with nothing kept.
LEMMA InitWalk == Init => WalkInv
BY DEF Init, InitAcpi, WalkInv, ChainChecked, KeptLate, TablesTrusted

\* The machine does not change, and neither does what is found in it.
LEMMA SameMachine ==
  ASSUME machine' = machine
  PROVE  /\ TableAt("APIC")' = TableAt("APIC")
         /\ TableAt("FACP")' = TableAt("FACP")
BY DEF TableAt, SelectInSeq

\* find_table returns a table only when its bytes sum to 0.
LEMMA FoundIsTrusted ==
  ASSUME NEW s, find_table(s) = "found"
  PROVE  Trusted(machine.tables[TableAt(s)])
BY DEF find_table, Trusted

\* find_table has three outcomes.
LEMMA FindOutcome ==
  ASSUME NEW s
  PROVE  find_table(s) \in {"fault", "panic", "found"}
BY DEF find_table

\* The steps of the walk keep its invariant.
LEMMA AcpiWalk ==
  ASSUME WalkInv, Acpi
  PROVE  WalkInv'
<1> USE DEF WalkInv, ChainChecked, KeptLate, TablesTrusted, Trusted, madt
<1>1. CASE bootstrap_rsdp
  BY <1>1, SameMachine DEF bootstrap_rsdp, Mismatch, checksum_header
<1>2. CASE bootstrap_rsdt
  BY <1>2, SameMachine DEF bootstrap_rsdt, Mismatch, check_header_signature, checksum_header
<1>3. CASE bootstrap_madt
  BY <1>3, SameMachine, FoundIsTrusted, FindOutcome DEF bootstrap_madt, checksum_header
<1>4. CASE ParseRecord
  BY <1>4, SameMachine DEF ParseRecord, checksum_header
<1>5. CASE ParseEnds
  BY <1>5, SameMachine DEF ParseEnds, checksum_header
<1>6. CASE bootstrap_fadt
  BY <1>6, SameMachine, FoundIsTrusted, FindOutcome DEF bootstrap_fadt, checksum_header
<1> QED BY <1>1, <1>2, <1>3, <1>4, <1>5, <1>6 DEF Acpi, bootstrap_acpi

\* setup_io_apic does not touch what the walk left.
LEMMA IoApicWalk ==
  ASSUME WalkInv, setup_io_apic
  PROVE  WalkInv'
<1>1. /\ UNCHANGED <<machine, madt, facs_ptr>>
      /\ pc \in {"io_apic", "overrides"} /\ pc' \in {"io_apic", "overrides", "done", "panic", "garbage"}
  BY DEF setup_io_apic, NextController, NextOverride, OverridesEnd, IoApicsEnd
<1> QED
  BY <1>1, SameMachine
     DEF WalkInv, ChainChecked, KeptLate, TablesTrusted, Trusted, madt, checksum_header

\* Every step keeps the invariant of the walk.
LEMMA NextWalk == WalkInv /\ [Next]_vars => WalkInv'
<1> SUFFICES ASSUME WalkInv, [Next]_vars PROVE WalkInv'
  OBVIOUS
<1>1. CASE Rest \/ UNCHANGED vars
  BY <1>1, SameMachine
     DEF Rest, vars, acpi, WalkInv, ChainChecked, KeptLate, TablesTrusted, Trusted, checksum_header
<1> QED BY <1>1, AcpiWalk, IoApicWalk DEF Next

\* Whatever the firmware offers, no record is stored and no FACS kept unless every
\* table on the way was checked.
THEOREM AcpiTablesTrusted == Spec => []TablesTrusted
<1>1. WalkInv => TablesTrusted
  BY DEF WalkInv
<1> QED BY <1>1, InitWalk, NextWalk, PTL DEF Spec

-----------------------------------------------------------------------------
(* The redirection registers.                                              *)

last(a) == machine.controllers[a].max

\* The first n entries of a controller are written, and the next one to be written
\* to the controller under way is among them or follows them.
Written(a, n) ==
  /\ DOMAIN registers[a] = 16 .. 15 + 2 * n
  /\ pc = "overrides" /\ a = controller.address => nmi_index <= n \/ n = last(a) + 1
EntryNext == \A a \in DOMAIN registers : \E n \in 0 .. last(a) + 1 : Written(a, n)

\* The inductive invariant of the registers.
EntryInv ==
  /\ machine \in Machines /\ nmi_index \in 0 .. 255
  /\ DOMAIN registers = DOMAIN machine.controllers
  /\ EntryNext

\* A controller has between 1 and 256 entries.
LEMMA LastEntry ==
  ASSUME machine \in Machines, NEW a \in DOMAIN machine.controllers
  PROVE  last(a) \in 0 .. 255
BY MachinesAssumption DEF last, Range

\* The version register gives the number of the last entry.
LEMMA MaxEntries ==
  ASSUME NEW a, last(a) \in 0 .. 255
  PROVE  io_apic_max_entries(a) = last(a)
<1>1. 2^16 = 65536 /\ 2^(23 - 16 + 1) = 256
  OBVIOUS
<1>2. \A m \in 0 .. 255 : ((m * 65536 + 17) \div 65536) % 256 = m
  OBVIOUS
<1>3. io_apic_max_entries(a) = ((last(a) * 65536 + 17) \div 65536) % 256
  BY <1>1 DEF io_apic_max_entries, extract_bit_range, read_io_apic_reg, last
<1> QED BY <1>2, <1>3

\* No register is written at first.
LEMMA InitEntry == Init => EntryInv
<1> SUFFICES ASSUME Init PROVE EntryInv
  OBVIOUS
<1>1. /\ machine \in Machines /\ nmi_index = 0 /\ pc = "rsdp"
      /\ DOMAIN registers = DOMAIN machine.controllers
      /\ \A a \in DOMAIN registers : registers[a] = <<>>
  BY DEF Init, InitAcpi
<1>2. ASSUME NEW a \in DOMAIN registers
      PROVE  0 \in 0 .. last(a) + 1 /\ Written(a, 0)
  <2>1. last(a) \in 0 .. 255
    BY <1>1, LastEntry
  <2>2. DOMAIN <<>> = 16 .. 15 + 2 * 0
    OBVIOUS
  <2>3. registers[a] = <<>> /\ pc # "overrides"
    BY <1>1
  <2>4. 0 \in 0 .. last(a) + 1
    BY <2>1
  <2>5. DOMAIN registers[a] = 16 .. 15 + 2 * 0
    BY <2>2, <2>3
  <2> QED BY <2>3, <2>4, <2>5 DEF Written
<1> QED BY <1>1, <1>2 DEF EntryInv, EntryNext

\* Steps that do not write and do not go on with a list of overrides.
LEMMA OtherEntry ==
  ASSUME EntryInv, machine' = machine, registers' = registers, nmi_index' \in 0 .. 255,
         pc' = "overrides" => nmi_index' = 0
  PROVE  EntryInv'
<1>1. ASSUME NEW a \in DOMAIN registers
      PROVE  \E n \in 0 .. last(a) + 1 : Written(a, n)'
  <2>1. last(a) \in 0 .. 255
    BY LastEntry DEF EntryInv
  <2>2. PICK n \in 0 .. last(a) + 1 : Written(a, n)
    BY DEF EntryInv, EntryNext
  <2> QED BY <2>1, <2>2 DEF Written, last
<1> QED BY <1>1 DEF EntryInv, EntryNext, last

\* An override: the entry after the written ones, one of them, or none.
LEMMA OverrideEntry ==
  ASSUME EntryInv, NextOverride
  PROVE  EntryInv'
<1>0. nmi_index \in 0 .. 255
  BY DEF EntryInv
<1>1. /\ UNCHANGED <<machine, arrays>>
      /\ pc = "overrides"
  BY DEF NextOverride, madt
<1>2. CASE q \notin DOMAIN arrays[2]
  BY <1>1, <1>2, OtherEntry DEF NextOverride, ioapic, EntryInv
<1>3. CASE q \in DOMAIN arrays[2] /\ ~OnLines(controller, arrays[2][q].gsi)
  <2>1. UNCHANGED <<machine, arrays, pc, c, nmi_index, registers>>
    BY <1>1, <1>3 DEF NextOverride
  <2> QED BY <2>1 DEF EntryInv, EntryNext, Written, last, controller
<1>4. CASE q \in DOMAIN arrays[2] /\ OnLines(controller, arrays[2][q].gsi)
  <2>1. /\ UNCHANGED <<machine, arrays, pc, c>> /\ nmi_index' = (nmi_index + 1) % 256
        /\ write_io_apic_redirection_entry(controller.address, nmi_index)
    BY <1>1, <1>4 DEF NextOverride, uint8
  <2>2. nmi_index' \in 0 .. 255 /\ nmi_index' <= nmi_index + 1
    BY <1>0, <2>1
  <2>3. DOMAIN registers' = DOMAIN registers
    BY <2>1 DEF write_io_apic_redirection_entry
  <2>4. ASSUME NEW a \in DOMAIN registers
        PROVE  \E n \in 0 .. last(a) + 1 : Written(a, n)'
    <3>1. last(a) \in 0 .. 255
      BY LastEntry DEF EntryInv
    <3>2. PICK n \in 0 .. last(a) + 1 : Written(a, n)
      BY DEF EntryInv, EntryNext
    <3>3. CASE a # controller.address
      <4>1. registers'[a] = registers[a]
        BY <2>1, <3>3 DEF write_io_apic_redirection_entry
      <4> QED BY <2>1, <3>1, <3>2, <3>3, <4>1 DEF Written, last, controller
    <3>4. CASE a = controller.address /\ nmi_index > last(a)
      <4>1. registers'[a] = registers[a]
        BY <2>1, <3>1, <3>4, MaxEntries DEF write_io_apic_redirection_entry
      <4>2. n = last(a) + 1
        <5>1. nmi_index <= n \/ n = last(a) + 1
          BY <1>1, <3>2, <3>4 DEF Written
        <5> QED BY <1>0, <3>1, <3>4, <5>1
      <4> QED BY <2>1, <3>1, <3>2, <4>1, <4>2 DEF Written, last, controller
    <3>5. CASE a = controller.address /\ nmi_index <= last(a)
      <4>1. nmi_index <= n
        <5>1. nmi_index <= n \/ n = last(a) + 1
          BY <1>1, <3>2, <3>5 DEF Written
        <5> QED BY <1>0, <3>1, <3>5, <5>1
      <4>2. DOMAIN registers'[a] = DOMAIN registers[a] \cup {16 + 2 * nmi_index, 17 + 2 * nmi_index}
        <5>1. PICK bit \in BitOfAddress :
                registers' = [registers EXCEPT ![a] =
                  Put(Put(@, LO_REDIRECTION_FOR_N(nmi_index), bit), HI_REDIRECTION_FOR_N(nmi_index), bit)]
          <6>1. ~(nmi_index > io_apic_max_entries(controller.address))
            BY <1>0, <3>1, <3>5, MaxEntries
          <6> QED BY <2>1, <3>5, <6>1 DEF write_io_apic_redirection_entry
        <5> QED BY <5>1 DEF Put, LO_REDIRECTION_FOR_N, HI_REDIRECTION_FOR_N, EntryInv
      <4>3. PICK m \in 0 .. last(a) + 1 : m = (IF nmi_index = n THEN n + 1 ELSE n) /\ nmi_index + 1 <= m
        BY <1>0, <3>1, <3>5, <4>1
      <4>4. DOMAIN registers'[a] = 16 .. 15 + 2 * m
        <5>1. n \in Nat /\ nmi_index \in Nat
          BY <1>0, <3>1
        <5>2. DOMAIN registers'[a] = (16 .. 15 + 2 * n) \cup {16 + 2 * nmi_index, 17 + 2 * nmi_index}
          BY <3>2, <4>2 DEF Written
        <5>3. CASE nmi_index = n
          BY <4>3, <5>1, <5>2, <5>3
        <5>4. CASE nmi_index < n
          BY <4>3, <5>1, <5>2, <5>4
        <5> QED BY <4>1, <5>1, <5>3, <5>4
      <4>5. nmi_index' <= m
        BY <1>0, <2>2, <3>1, <4>3
      <4>6. Written(a, m)'
        BY <4>4, <4>5 DEF Written
      <4> QED BY <2>1, <4>3, <4>6 DEF last
    <3> QED BY <3>1, <3>3, <3>4, <3>5 DEF EntryInv
  <2> QED BY <2>1, <2>2, <2>3, <2>4 DEF EntryInv, EntryNext, last
<1> QED BY <1>2, <1>3, <1>4

\* Every step keeps the invariant of the registers.
LEMMA NextEntry == EntryInv /\ [Next]_vars => EntryInv'
<1> SUFFICES ASSUME EntryInv, [Next]_vars PROVE EntryInv'
  OBVIOUS
<1>0. nmi_index \in 0 .. 255
  BY DEF EntryInv
<1>1. CASE Acpi
  <2>1. machine' = machine /\ UNCHANGED ioapic /\ pc' # "overrides"
    BY <1>1, FindOutcome
       DEF Acpi, bootstrap_acpi, bootstrap_rsdp, bootstrap_rsdt, bootstrap_madt, ParseRecord, ParseEnds,
           bootstrap_fadt, Mismatch
  <2> QED BY <1>0, <2>1, OtherEntry DEF ioapic
<1>2. CASE NextController
  <2>1. UNCHANGED <<machine, registers>>
    BY <1>2 DEF NextController
  <2>2. nmi_index' = 0 \/ (nmi_index' = nmi_index /\ pc' # "overrides")
    <3>1. CASE c \notin DOMAIN arrays[1] \/ ~map_page("IO APIC")
      BY <1>2, <3>1 DEF NextController
    <3>2. CASE c \in DOMAIN arrays[1] /\ map_page("IO APIC")
      <4>1. nmi_index' = 0
        BY <1>2, <3>2, Zenon DEF NextController
      <4> QED BY <4>1
    <3> QED BY <3>1, <3>2
  <2> QED BY <1>0, <2>1, <2>2, OtherEntry
<1>3. CASE NextOverride
  BY <1>3, OverrideEntry
<1>4. CASE OverridesEnd \/ IoApicsEnd
  <2>1. UNCHANGED <<machine, registers, nmi_index>> /\ pc' # "overrides"
    BY <1>4 DEF OverridesEnd, IoApicsEnd, ioapic
  <2> QED BY <1>0, <2>1, OtherEntry
<1>5. CASE Rest \/ UNCHANGED vars
  <2>1. UNCHANGED <<machine, registers, nmi_index, pc, arrays, c>>
    BY <1>5 DEF Rest, vars, acpi, ioapic
  <2> QED BY <2>1 DEF EntryInv, EntryNext, Written, last, controller
<1> QED BY <1>1, <1>2, <1>3, <1>4, <1>5 DEF Next, setup_io_apic

\* However many controllers and overrides the tables list, writes of
\* setup_io_apic stay in the entries the controller has, in pairs, from the first on.
THEOREM IoApicEntries == Spec => []EntriesInController
<1>1. EntryInv => EntriesInController
  BY DEF EntryInv, EntryNext, Written, EntriesInController, last
<1> QED BY <1>1, InitEntry, NextEntry, PTL DEF Spec

-----------------------------------------------------------------------------
(* The overrides.                                                          *)

\* What the arrays of IO APICs and overrides hold comes from the table.
ArraysFromTable ==
  /\ DOMAIN arrays = Stored /\ at \in Nat \ {0}
  /\ \A t \in Stored : \A k \in DOMAIN arrays[t] :
       arrays[t][k] \in RecordType /\ arrays[t][k].type = t
         /\ (t = 1 => arrays[t][k].address \in DOMAIN machine.controllers)

\* An override was taken on a line between the ends of the controller's range.
TakenOnLines ==
  /\ pc \in {"rsdp", "rsdt", "madt", "records", "fadt"} => taken = {}
  /\ pc = "overrides" => c \in DOMAIN arrays[1]
  /\ \A x \in taken : /\ x[1] \in DOMAIN arrays[1] /\ x[2] \in DOMAIN arrays[2]
                      /\ OnLines(arrays[1][x[1]], arrays[2][x[2]].gsi)

\* The inductive invariant of the overrides.
TakenInv == machine \in Machines /\ ArraysFromTable /\ TakenOnLines

\* The types of the IO APICs and of the overrides are stored.
LEMMA StoredTypes == 1 \in Stored /\ 2 \in Stored
BY DEF Stored, SizeOf

\* Nothing is stored and nothing taken at first.
LEMMA InitTaken == Init => TakenInv
BY DEF Init, InitAcpi, TakenInv, ArraysFromTable, TakenOnLines

\* Records are added to the arrays before any override is taken.
LEMMA AcpiTaken ==
  ASSUME TakenInv, Acpi
  PROVE  TakenInv'
<1>1. CASE ParseRecord
  <2> DEFINE record == machine.records[at]
  <2>1. /\ machine' = machine /\ taken' = taken /\ pc = "records" /\ pc' \in {"records", "fault"}
        /\ at \in 1 .. Len(machine.records) /\ at' \in {at, at + 1}
    BY <1>1 DEF ParseRecord, Acpi, ioapic, offset, madt, TakenInv, ArraysFromTable
  <2>2. /\ record \in RecordType
        /\ record.type = 1 => record.address \in DOMAIN machine.controllers
    BY <2>1, MachinesAssumption DEF TakenInv, Range
  <2>3. CASE arrays' = arrays
    BY <2>1, <2>3 DEF TakenInv, ArraysFromTable, TakenOnLines
  <2>4. CASE /\ record.type \in Stored
             /\ arrays' = [arrays EXCEPT ![record.type] = Put(@, IndexFor(record.type), record)]
    <3>1. DOMAIN arrays' = Stored
      BY <2>4 DEF TakenInv, ArraysFromTable
    <3>2. ASSUME NEW t \in Stored, NEW k \in DOMAIN arrays'[t]
          PROVE  \/ arrays'[t][k] = record /\ t = record.type
                 \/ k \in DOMAIN arrays[t] /\ arrays'[t][k] = arrays[t][k]
      <4>1. CASE t # record.type
        <5>1. arrays'[t] = arrays[t]
          BY <2>4, <4>1 DEF TakenInv, ArraysFromTable
        <5> QED BY <3>2, <5>1
      <4>2. CASE t = record.type
        <5>1. arrays'[t] = Put(arrays[t], IndexFor(t), record)
          BY <2>4, <4>2 DEF TakenInv, ArraysFromTable
        <5>2. PICK p : p = IndexFor(t)
          OBVIOUS
        <5>3. arrays'[t] = [j \in DOMAIN arrays[t] \cup {p} |-> IF j = p THEN record ELSE arrays[t][j]]
          BY <5>1, <5>2 DEF Put
        <5> QED BY <3>2, <4>2, <5>3
      <4> QED BY <4>1, <4>2
    <3> QED BY <2>1, <2>2, <3>1, <3>2 DEF TakenInv, ArraysFromTable, TakenOnLines
  <2> QED BY <1>1, <2>3, <2>4 DEF ParseRecord, madt
<1>2. CASE bootstrap_rsdp \/ bootstrap_rsdt \/ bootstrap_madt \/ ParseEnds \/ bootstrap_fadt
  <2>1. /\ UNCHANGED <<machine, at, arrays, taken>> /\ pc' # "overrides"
        /\ pc \in {"rsdp", "rsdt", "madt", "records", "fadt"}
    BY <1>2, FindOutcome
       DEF Acpi, bootstrap_rsdp, bootstrap_rsdt, bootstrap_madt, ParseEnds, bootstrap_fadt, Mismatch,
           madt, ioapic
  <2> QED BY <2>1 DEF TakenInv, ArraysFromTable, TakenOnLines
<1> QED BY <1>1, <1>2 DEF Acpi, bootstrap_acpi

\* What the arrays hold does not change any more once the walk is over.
LEMMA IoApicTaken ==
  ASSUME TakenInv, setup_io_apic
  PROVE  TakenInv'
<1>1. /\ UNCHANGED <<machine, at, arrays>>
      /\ pc \in {"io_apic", "overrides"} /\ pc' \in {"io_apic", "overrides", "done", "panic", "garbage"}
  BY DEF setup_io_apic, NextController, NextOverride, OverridesEnd, IoApicsEnd, madt
<1>2. ArraysFromTable' /\ machine' \in Machines
  BY <1>1 DEF TakenInv, ArraysFromTable
<1>3. pc' = "overrides" => c' \in DOMAIN arrays[1]
  BY <1>1 DEF setup_io_apic, NextController, NextOverride, OverridesEnd, IoApicsEnd, ioapic,
          TakenInv, TakenOnLines
<1>4. \/ taken' = taken
      \/ /\ pc = "overrides" /\ q \in DOMAIN arrays[2] /\ OnLines(controller, arrays[2][q].gsi)
         /\ taken' = taken \cup {<<c, q>>}
  BY DEF setup_io_apic, NextController, NextOverride, OverridesEnd, IoApicsEnd, ioapic
<1>5. OnLines(controller, arrays[2][q].gsi) => OnLines(arrays[1][c], arrays[2][q].gsi)
  BY DEF controller
<1>6. \A r, g : OnLines(r, g)' = OnLines(r, g)
  BY <1>1 DEF OnLines, highest_irq, lowest_irq, io_apic_max_entries, read_io_apic_reg, uint8,
              extract_bit_range
<1>7. \A x \in taken' : /\ x[1] \in DOMAIN arrays[1] /\ x[2] \in DOMAIN arrays[2]
                       /\ OnLines(arrays[1][x[1]], arrays[2][x[2]].gsi)
  BY <1>4, <1>5 DEF TakenInv, TakenOnLines
<1> QED BY <1>1, <1>2, <1>3, <1>6, <1>7 DEF TakenInv, TakenOnLines

\* Every step keeps the invariant of the overrides.
LEMMA NextTaken == TakenInv /\ [Next]_vars => TakenInv'
<1> SUFFICES ASSUME TakenInv, [Next]_vars PROVE TakenInv'
  OBVIOUS
<1>1. CASE Rest \/ UNCHANGED vars
  <2>1. UNCHANGED <<machine, at, arrays, pc, c, taken>>
    BY <1>1 DEF Rest, vars, acpi, ioapic
  <2>2. \A r, g : OnLines(r, g)' = OnLines(r, g)
    BY <2>1 DEF OnLines, highest_irq, lowest_irq, io_apic_max_entries, read_io_apic_reg, uint8,
              extract_bit_range
  <2> QED BY <2>1, <2>2 DEF TakenInv, ArraysFromTable, TakenOnLines
<1> QED BY <1>1, AcpiTaken, IoApicTaken DEF Next

\* Bounds that fit a byte are the bounds of the controller's lines.
LEMMA BoundsExact ==
  ASSUME machine \in Machines, NEW r \in RecordType, r.address \in DOMAIN machine.controllers,
         Lines(r) \subseteq 0 .. 255, NEW g \in Nat, OnLines(r, g)
  PROVE  g \in Lines(r)
<1>1. last(r.address) \in 0 .. 255
  BY LastEntry
<1>2. io_apic_max_entries(r.address) = last(r.address)
  BY <1>1, MaxEntries
<1>3. r.gsi \in Nat
  BY DEF RecordType
<1> DEFINE low == r.gsi  high == r.gsi + last(r.address)
<1>4. Lines(r) = low .. high
  BY DEF Lines, last
<1>5. high \in 0 .. 255 /\ low \in 0 .. 255
  <2>1. high \in low .. high
    BY <1>1, <1>3
  <2>2. high \in 0 .. 255
    BY <1>4, <2>1
  <2>3. low <= high
    BY <1>1, <1>3
  <2> HIDE DEF high
  <2> QED BY <1>3, <2>2, <2>3
<1>6. \A n \in 0 .. 255 : n % 256 = n
  OBVIOUS
<1>7. lowest_irq(r) = low /\ highest_irq(r) = high
  <2>1. uint8(r.gsi) = r.gsi
    BY <1>5, <1>6 DEF uint8
  <2>2. last(r.address) + r.gsi = high
    BY <1>1, <1>3
  <2>3. uint8(high) = high
    BY <1>5, <1>6 DEF uint8
  <2> QED BY <1>2, <2>1, <2>2, <2>3 DEF lowest_irq, highest_irq
<1>8. g < high /\ g > low
  BY <1>7 DEF OnLines
<1>9. g \in low .. high
  BY <1>5, <1>8
<1> QED BY <1>4, <1>9

\* An override that two controllers take is on a line of both, or the controllers'
\* lines are numbered past what the code's bytes hold.
THEOREM IoApicTakenOnce == Spec => []OverridesTakenOnce
<1>1. TakenInv => OverridesTakenOnce
  <2> SUFFICES ASSUME TakenInv,
                      NEW x \in taken, NEW y \in taken, x[2] = y[2],
                      Lines(arrays[1][x[1]]) \cup Lines(arrays[1][y[1]]) \subseteq 0 .. 255
               PROVE  Lines(arrays[1][x[1]]) \cap Lines(arrays[1][y[1]]) # {}
    BY DEF OverridesTakenOnce
  <2> DEFINE g == arrays[2][x[2]].gsi
  <2>1. g \in Nat
    BY StoredTypes DEF TakenInv, ArraysFromTable, TakenOnLines, RecordType
  <2>2. \A z \in {x, y} : /\ arrays[1][z[1]] \in RecordType
                          /\ arrays[1][z[1]].address \in DOMAIN machine.controllers
                          /\ OnLines(arrays[1][z[1]], g)
    BY StoredTypes DEF TakenInv, ArraysFromTable, TakenOnLines
  <2>3. \A z \in {x, y} : g \in Lines(arrays[1][z[1]])
    BY <2>1, <2>2, BoundsExact DEF TakenInv
  <2> QED BY <2>3
<1> QED BY <1>1, InitTaken, NextTaken, PTL DEF Spec

-----------------------------------------------------------------------------
(* The arrays of parse_madt.                                               *)

records == machine.records

\* The walk over the records is at one of length 0, and stays there.
Stuck == at <= Len(records) /\ records[at].length = 0

\* The first n records are in their arrays, and the shared index is where the next
\* record of the last type belongs.
KeptUpto(n) ==
  /\ \A t \in Stored : num[t] = Cardinality(Places(t, n))
  /\ \A t \in Stored : \A k \in Places(t, n) :
       /\ Cardinality(Places(t, k - 1)) \in DOMAIN arrays[t]
       /\ arrays[t][Cardinality(Places(t, k - 1))] = records[k]
  /\ n = 0 => i = 0
  /\ n > 0 => last_type = records[n].type
  /\ n > 0 /\ last_type \in Stored => i = num[last_type]

\* The inductive invariant of the arrays.
KeptInv ==
  /\ machine \in Machines /\ at \in Nat \ {0} /\ at <= Len(records) + 1 /\ i \in Nat
  /\ DOMAIN num = Stored /\ DOMAIN arrays = Stored
  /\ pc \in {"rsdp", "rsdt", "madt"} => at = 1
  /\ pc \in {"fadt", "io_apic", "overrides", "done"} /\ at > 1 => at > Len(records)
  /\ Grouped => Stuck \/ KeptUpto(at - 1)

\* The MADT is a sequence of records.
LEMMA RecordsFacts ==
  ASSUME machine \in Machines
  PROVE  /\ Len(records) \in Nat /\ DOMAIN records = 1 .. Len(records)
         /\ \A k \in 1 .. Len(records) : records[k] \in RecordType
<1>1. records \in Seq(RecordType)
  BY MachinesAssumption DEF records
<1> HIDE DEF RecordType
<1> QED BY <1>1

\* Records of a type can be counted.
LEMMA PlacesFinite ==
  ASSUME NEW t, NEW n \in Nat
  PROVE  IsFiniteSet(Places(t, n)) /\ Cardinality(Places(t, n)) \in Nat
<1>1. IsFiniteSet(1 .. n) /\ Places(t, n) \in SUBSET (1 .. n)
  BY FS_Interval DEF Places
<1> QED BY <1>1, FS_Subset, FS_CardinalityType

\* Before the first record there is none of any type.
LEMMA NoPlaces ==
  ASSUME NEW t
  PROVE  Places(t, 0) = {} /\ Cardinality(Places(t, 0)) = 0
<1>1. Places(t, 0) = {}
  BY DEF Places
<1> QED BY <1>1, FS_EmptySet

\* One record further.
LEMMA PlacesNext ==
  ASSUME NEW t, NEW n \in Nat \ {0}
  PROVE  /\ records[n].type = t =>
              /\ Places(t, n) = Places(t, n - 1) \cup {n}
              /\ Cardinality(Places(t, n)) = Cardinality(Places(t, n - 1)) + 1
         /\ records[n].type # t => Places(t, n) = Places(t, n - 1)
<1>1. records[n].type = t => Places(t, n) = Places(t, n - 1) \cup {n}
  BY DEF Places, records
<1>2. records[n].type # t => Places(t, n) = Places(t, n - 1)
  BY DEF Places, records
<1>3. n \notin Places(t, n - 1) /\ n - 1 \in Nat
  BY DEF Places
<1>4. Cardinality(Places(t, n - 1) \cup {n}) = Cardinality(Places(t, n - 1)) + 1
  BY <1>3, PlacesFinite, FS_AddElement
<1> QED BY <1>1, <1>2, <1>4

\* A record stored before has an index below the next one.
LEMMA PlacesBefore ==
  ASSUME NEW t, NEW n \in Nat, NEW k \in Places(t, n)
  PROVE  Cardinality(Places(t, k - 1)) # Cardinality(Places(t, n))
<1>1. Places(t, k - 1) \in SUBSET Places(t, n) /\ k \notin Places(t, k - 1)
  BY DEF Places
<1> QED BY <1>1, PlacesFinite, FS_Subset

\* Where records of a type follow one another, the shared index is the number of
\* records of the type that were stored.
LEMMA IndexIsCount ==
  ASSUME KeptInv, Grouped, KeptUpto(at - 1), at <= Len(records),
         NEW t \in Stored, records[at].type = t
  PROVE  IndexFor(t) = Cardinality(Places(t, at - 1)) /\ num[t] = Cardinality(Places(t, at - 1))
<1> DEFINE n == at - 1
<1>1. n \in Nat /\ n < at /\ at = n + 1 /\ at \in 1 .. Len(records)
  BY DEF KeptInv
<1>2. num[t] = Cardinality(Places(t, n))
  BY DEF KeptUpto
<1>3. CASE n = 0
  <2>1. i = 0
    BY <1>3 DEF KeptUpto
  <2> QED BY <1>2, <1>3, <2>1, NoPlaces DEF IndexFor
<1>4. CASE n > 0 /\ last_type = t
  BY <1>2, <1>4 DEF IndexFor, KeptUpto
<1>5. CASE n > 0 /\ last_type # t
  <2>1. records[n].type # t /\ n \in 1 .. Len(records)
    BY <1>1, <1>5 DEF KeptUpto
  <2>2. ASSUME NEW k \in Places(t, n) PROVE FALSE
    <3>1. k \in 1 .. n /\ records[k].type = t
      BY DEF Places, records
    <3>2. k # n
      BY <2>1, <3>1
    <3>3. k < n /\ k \in 1 .. Len(records)
      BY <1>1, <2>1, <3>1, <3>2
    <3>4. DOMAIN records = 1 .. Len(records)
      BY RecordsFacts DEF KeptInv
    <3> QED BY <1>1, <2>1, <3>1, <3>3, <3>4 DEF Grouped, records
  <2>3. Places(t, n) = {}
    BY <2>2
  <2>4. Cardinality(Places(t, n)) = 0
    BY <2>3, FS_EmptySet
  <2> QED BY <1>2, <1>5, <2>4 DEF IndexFor
<1> QED BY <1>1, <1>3, <1>4, <1>5

\* Nothing is stored at first.
LEMMA InitKept == Init => KeptInv
<1> SUFFICES ASSUME Init PROVE KeptInv
  OBVIOUS
<1>1. /\ machine \in Machines /\ pc = "rsdp" /\ at = 1 /\ i = 0
      /\ arrays = [t \in Stored |-> <<>>] /\ num = [t \in Stored |-> 0]
  BY DEF Init, InitAcpi
<1>2. Len(records) \in Nat
  BY <1>1, RecordsFacts
<1>3. \A t \in Stored : Places(t, 0) = {} /\ num[t] = Cardinality(Places(t, 0))
  BY <1>1, NoPlaces
<1>4. KeptUpto(0)
  BY <1>1, <1>3 DEF KeptUpto
<1>5. KeptUpto(at - 1)
  BY <1>1, <1>4
<1> QED BY <1>1, <1>2, <1>5 DEF KeptInv

\* Steps that leave the arrays and the place in the table alone.
LEMMA OtherKept ==
  ASSUME KeptInv, UNCHANGED <<machine, at, i, last_type, arrays, num>>,
         pc' \in {"rsdp", "rsdt", "madt"} => at = 1,
         pc' \in {"fadt", "io_apic", "overrides", "done"} /\ at > 1 => at > Len(records)
  PROVE  KeptInv'
<1>1. Stuck' = Stuck /\ Grouped' = Grouped /\ records' = records
  BY DEF Stuck, Grouped, records
<1>2. KeptUpto(at - 1)' = KeptUpto(at - 1)
  BY DEF KeptUpto, Places, records
<1> QED BY <1>1, <1>2 DEF KeptInv

\* A record goes behind the ones of its type, and none of those is overwritten.
LEMMA ParseKept ==
  ASSUME KeptInv, ParseRecord
  PROVE  KeptInv'
<1> DEFINE record == records[at]
           type == record.type
           p == IndexFor(type)
           n == at - 1
<1>1. /\ machine' = machine /\ records' = records /\ pc = "records" /\ pc' \in {"records", "fault"}
      /\ machine \in Machines /\ at \in 1 .. Len(records) /\ Len(records) \in Nat
  BY RecordsFacts DEF ParseRecord, KeptInv, records
<1>2. Grouped' = Grouped
  BY <1>1 DEF Grouped
<1>3. CASE UNCHANGED madt
  BY <1>1, <1>3, OtherKept DEF madt
<1>4. CASE /\ at' = (IF record.length = 0 THEN at ELSE at + 1) /\ last_type' = type
           /\ \/ /\ type \in Stored
                 /\ arrays' = [arrays EXCEPT ![type] = Put(@, p, record)]
                 /\ num' = [num EXCEPT ![type] = @ + 1]
                 /\ i' = p + 1
              \/ /\ type \notin Stored /\ i' \in {p, p + 1}
                 /\ UNCHANGED <<arrays, num>>
  <2>1. p \in Nat /\ i' \in Nat /\ at' \in Nat \ {0} /\ at' <= Len(records) + 1
    BY <1>1, <1>4 DEF IndexFor, KeptInv
  <2>2. DOMAIN num' = Stored /\ DOMAIN arrays' = Stored
    BY <1>4 DEF KeptInv
  <2>3. CASE record.length = 0
    <3>1. Stuck'
      BY <1>1, <1>4, <2>3 DEF Stuck
    <3> QED BY <1>1, <2>1, <2>2, <3>1 DEF KeptInv
  <2>4. CASE record.length # 0
    <3>1. at' = at + 1 /\ n \in Nat /\ n + 1 = at /\ at' - 1 = at
      BY <1>1, <1>4, <2>4
    <3>2. \A t, m : Places(t, m)' = Places(t, m)
      BY <1>1 DEF Places
    <3>3. ASSUME Grouped
          PROVE  KeptUpto(at - 1)'
      <4>1. KeptUpto(n)
        BY <3>3, <2>4 DEF KeptInv, Stuck
      <4>2. at # 0 /\ at > 0
        BY <1>1
      <4>3. \A t \in Stored : /\ num'[t] = Cardinality(Places(t, at))
                             /\ \A k \in Places(t, at) :
                                  /\ Cardinality(Places(t, k - 1)) \in DOMAIN arrays'[t]
                                  /\ arrays'[t][Cardinality(Places(t, k - 1))] = records[k]
        <5> SUFFICES ASSUME NEW t \in Stored
                     PROVE  /\ num'[t] = Cardinality(Places(t, at))
                            /\ \A k \in Places(t, at) :
                                 /\ Cardinality(Places(t, k - 1)) \in DOMAIN arrays'[t]
                                 /\ arrays'[t][Cardinality(Places(t, k - 1))] = records[k]
          OBVIOUS
        <5>1. CASE t # type
          <6>1. Places(t, at) = Places(t, n)
            BY <1>1, <5>1, PlacesNext
          <6>2. num'[t] = num[t] /\ arrays'[t] = arrays[t]
            BY <1>4, <5>1 DEF KeptInv
          <6> QED BY <4>1, <6>1, <6>2 DEF KeptUpto
        <5>2. CASE t = type
          <6>1. /\ Places(t, at) = Places(t, n) \cup {at}
                /\ Cardinality(Places(t, at)) = Cardinality(Places(t, n)) + 1
            BY <1>1, <5>2, PlacesNext
          <6>2. p = Cardinality(Places(t, n)) /\ num[t] = Cardinality(Places(t, n))
            BY <1>1, <3>3, <4>1, <5>2, IndexIsCount
          <6>3. num'[t] = num[t] + 1 /\ arrays'[t] = Put(arrays[t], p, record)
            BY <1>4, <5>2 DEF KeptInv
          <6>4. /\ DOMAIN arrays'[t] = DOMAIN arrays[t] \cup {p}
                /\ arrays'[t][p] = record
                /\ \A j \in DOMAIN arrays[t] : j # p => arrays'[t][j] = arrays[t][j]
            <7> HIDE DEF p, record
            <7> QED BY <6>3 DEF Put
          <6>5. ASSUME NEW k \in Places(t, n)
                PROVE  /\ Cardinality(Places(t, k - 1)) \in DOMAIN arrays'[t]
                       /\ arrays'[t][Cardinality(Places(t, k - 1))] = records[k]
            <7>1. Cardinality(Places(t, k - 1)) # p
              BY <3>1, <6>2, PlacesBefore
            <7>2. /\ Cardinality(Places(t, k - 1)) \in DOMAIN arrays[t]
                  /\ arrays[t][Cardinality(Places(t, k - 1))] = records[k]
              BY <4>1 DEF KeptUpto
            <7> HIDE DEF p, record
            <7> QED BY <6>4, <7>1, <7>2
          <6>6. /\ Cardinality(Places(t, at - 1)) \in DOMAIN arrays'[t]
                /\ arrays'[t][Cardinality(Places(t, at - 1))] = records[at]
            BY <6>2, <6>4
          <6>7. num'[t] = Cardinality(Places(t, at))
            BY <6>1, <6>2, <6>3
          <6> HIDE DEF p, record, n, type
          <6> QED BY <6>1, <6>5, <6>6, <6>7
        <5> QED BY <5>1, <5>2
      <4>4. last_type' = records[at].type
        BY <1>4
      <4>5. last_type' \in Stored => i' = num'[last_type']
        <5>1. SUFFICES ASSUME type \in Stored PROVE i' = num'[type]
          BY <1>4
        <5>2. p = num[type]
          BY <1>1, <3>3, <4>1, <5>1, IndexIsCount
        <5>3. i' = p + 1 /\ num'[type] = num[type] + 1
          BY <1>4, <5>1 DEF KeptInv
        <5> QED BY <5>2, <5>3
      <4> HIDE DEF p, record, n, type
      <4> QED BY <1>1, <3>1, <3>2, <4>2, <4>3, <4>4, <4>5 DEF KeptUpto
    <3>4. Grouped' => KeptUpto(at - 1)'
      BY <1>2, <3>3
    <3> QED BY <1>1, <2>1, <2>2, <3>4 DEF KeptInv
  <2> QED BY <2>3, <2>4
<1> QED BY <1>3, <1>4 DEF ParseRecord, offset, records

\* Every step keeps the invariant of the arrays.
LEMMA NextKept == KeptInv /\ [Next]_vars => KeptInv'
<1> SUFFICES ASSUME KeptInv, [Next]_vars PROVE KeptInv'
  OBVIOUS
<1>1. CASE ParseRecord
  BY <1>1, ParseKept
<1>2. CASE bootstrap_rsdp \/ bootstrap_rsdt \/ bootstrap_madt \/ ParseEnds \/ bootstrap_fadt
  <2>1. /\ UNCHANGED <<machine, at, i, last_type, arrays, num>>
        /\ pc' \in {"rsdp", "rsdt", "madt"} => at = 1
        /\ pc' \in {"fadt", "io_apic", "overrides", "done"} /\ at > 1 => at > Len(records)
    BY <1>2, FindOutcome
       DEF bootstrap_rsdp, bootstrap_rsdt, bootstrap_madt, ParseEnds, bootstrap_fadt, Mismatch, madt,
           KeptInv, records
  <2> QED BY <2>1, OtherKept
<1>3. CASE setup_io_apic
  <2>1. /\ UNCHANGED <<machine, at, i, last_type, arrays, num>>
        /\ pc \in {"io_apic", "overrides"} /\ pc' \in {"io_apic", "overrides", "done", "panic", "garbage"}
    BY <1>3 DEF setup_io_apic, NextController, NextOverride, OverridesEnd, IoApicsEnd, madt
  <2> QED BY <2>1, OtherKept DEF KeptInv
<1>4. CASE Rest \/ UNCHANGED vars
  <2>1. UNCHANGED <<machine, at, i, last_type, arrays, num, pc>>
    BY <1>4 DEF Rest, vars, acpi
  <2> QED BY <2>1, OtherKept DEF KeptInv
<1> QED BY <1>1, <1>2, <1>3, <1>4 DEF Next, Acpi, bootstrap_acpi

\* Whatever the MADT lists, as long as the records of a type follow one another: when
\* the walk is over every record is in its array, at its place among its type.
THEOREM AcpiRecordsKept == Spec => []RecordsKept
<1>1. KeptInv => RecordsKept
  <2> SUFFICES ASSUME KeptInv, pc \in {"fadt", "io_apic", "overrides", "done"}, at > 1, Grouped
               PROVE  KeptUpto(Len(records))
    BY DEF RecordsKept, KeptUpto, records
  <2>1. Len(records) \in Nat
    BY RecordsFacts DEF KeptInv
  <2>2. at > Len(records) /\ at - 1 = Len(records)
    BY <2>1 DEF KeptInv
  <2>3. ~Stuck
    BY <2>1, <2>2 DEF Stuck, KeptInv
  <2> QED BY <2>2, <2>3 DEF KeptInv
<1> QED BY <1>1, InitKept, NextKept, PTL DEF Spec
=============================================================================
