------------------------------- MODULE IoApic -------------------------------
(***************************************************************************)
(* setup_io_apic (kernel/src/platform/x86_64/ioapic.c, util/bits.c) on the *)
(* arrays that bootstrap_acpi left: every IO APIC is mapped, its ID is     *)
(* compared, and the interrupt source overrides on its lines are written   *)
(* to its redirection registers.                                           *)
(*                                                                         *)
(* The controllers are external: 32-bit registers behind an index.  An     *)
(* io_apic record's address is the controller's position in the machine.   *)
(***************************************************************************)
EXTENDS AcpiTables, FiniteSetsExt

VARIABLES
  c,           \* the IO APIC looked at: i in the code
  q,           \* the override looked at
  nmi_index,   \* the next redirection entry
  registers,   \* by controller: redirection registers that were written
  taken        \* history: <<controller, override>> written

ioapic == <<c, q, nmi_index, registers, taken>>
vars == <<acpi, ioapic>>

Init ==
  /\ InitAcpi
  /\ c = 0 /\ q = 0 /\ nmi_index = 0
  /\ registers = [a \in DOMAIN machine.controllers |-> <<>>]
  /\ taken = {}

Acpi == bootstrap_acpi /\ UNCHANGED ioapic

-----------------------------------------------------------------------------
(* Bits and registers.                                                     *)

extract_bit_range(value, high, low) == (value \div 2^low) % 2^(high - low + 1)
test_bit_range(value, high, low, expected) == extract_bit_range(value, high, low) = expected

\* IO_APIC_ID and IO_APIC_VER: the ID in bits 27..24, the last entry in 23..16.
read_io_apic_reg(a) ==
  [id |-> machine.controllers[a].id * 2^24, ver |-> machine.controllers[a].max * 2^16 + 17]

LO_REDIRECTION_FOR_N(n) == 16 + 2 * n
HI_REDIRECTION_FOR_N(n) == 16 + 2 * n + 1

\* What is written is the address of the entry, through masks that are 33 bits wide:
\* the shifts by 33 and by 32 are undefined, and leave bit 0 of the address on x86.
BitOfAddress == {0, 1}

-----------------------------------------------------------------------------
(* setup_io_apic.                                                          *)

controller == arrays[1][c]
uint8(n) == n % 256
io_apic_max_entries(a) == extract_bit_range(read_io_apic_reg(a).ver, 23, 16)
lowest_irq(r) == uint8(r.gsi)
highest_irq(r) == uint8(io_apic_max_entries(r.address) + uint8(r.gsi))

\* Slip: controllers of the same lines each take an override.
OnLines_any(r, gsi) == gsi < highest_irq(r)

\* Both ends of the range are left out.
OnLines(r, gsi) == gsi < highest_irq(r) /\ gsi > lowest_irq(r)

\* An entry of the array that parse_madt did not write is whatever was there.
NextController ==
  /\ pc = "io_apic" /\ c < num[1]
  /\ IF c \notin DOMAIN arrays[1] THEN pc' = "garbage" /\ UNCHANGED <<q, nmi_index>>
     ELSE IF ~map_page("IO APIC") THEN pc' = "panic" /\ UNCHANGED <<q, nmi_index>>
     ELSE /\ pc' = IF test_bit_range(read_io_apic_reg(controller.address).id, 27, 23, controller.id)
                   THEN "overrides" ELSE "panic"
          /\ q' = 0 /\ nmi_index' = 0
  /\ UNCHANGED <<machine, madt, facs_ptr, c, registers, taken>>

\* Slip: entries past the last one are written.
write_io_apic_redirection_entry_unchecked(a, index) ==
  \E bit \in BitOfAddress :
    registers' = [registers EXCEPT ![a] =
      Put(Put(@, LO_REDIRECTION_FOR_N(index), bit), HI_REDIRECTION_FOR_N(index), bit)]

write_io_apic_redirection_entry(a, index) ==
  IF index > io_apic_max_entries(a) THEN UNCHANGED registers
  ELSE \E bit \in BitOfAddress :
         registers' = [registers EXCEPT ![a] =
           Put(Put(@, LO_REDIRECTION_FOR_N(index), bit), HI_REDIRECTION_FOR_N(index), bit)]

\* Overrides are written to the entries from 0 up, in their order in the table, and
\* what polarity and trigger mode were found for them stays on the stack.
NextOverride ==
  /\ pc = "overrides" /\ q < num[2]
  /\ IF q \notin DOMAIN arrays[2] THEN pc' = "garbage" /\ UNCHANGED ioapic
     ELSE /\ q' = q + 1
          /\ \/ /\ OnLines(controller, arrays[2][q].gsi)
                /\ write_io_apic_redirection_entry(controller.address, nmi_index)
                /\ nmi_index' = uint8(nmi_index + 1)
                /\ taken' = taken \cup {<<c, q>>}
             \/ /\ ~OnLines(controller, arrays[2][q].gsi)
                /\ UNCHANGED <<nmi_index, registers, taken>>
          /\ UNCHANGED <<pc, c>>
  /\ UNCHANGED <<machine, madt, facs_ptr>>

OverridesEnd ==
  /\ pc = "overrides" /\ q >= num[2]
  /\ pc' = "io_apic" /\ c' = c + 1
  /\ UNCHANGED <<machine, madt, facs_ptr, q, nmi_index, registers, taken>>

IoApicsEnd ==
  /\ pc = "io_apic" /\ c >= num[1]
  /\ pc' = "done"
  /\ UNCHANGED <<machine, madt, facs_ptr, ioapic>>

setup_io_apic == NextController \/ NextOverride \/ OverridesEnd \/ IoApicsEnd

\* The rest of boot, or a processor that halted.
Rest == pc \in {"done", "panic", "fault", "garbage"} /\ UNCHANGED vars

Next == Acpi \/ setup_io_apic \/ Rest
Spec == Init /\ [][Next]_vars
FairSpec == Spec /\ WF_vars(Acpi \/ setup_io_apic)

-----------------------------------------------------------------------------
(* Properties.                                                             *)

\* Only entries the controller has are written, both halves of each, and from the
\* first one on, however many overrides the table has.
EntriesInController ==
  \A a \in DOMAIN registers :
    \E n \in 0 .. machine.controllers[a].max + 1 : DOMAIN registers[a] = 16 .. 15 + 2 * n

Lines(r) == r.gsi .. r.gsi + machine.controllers[r.address].max

\* IO APICs that serve different lines never both take an override, as long as the
\* lines are numbered below 256 (the code keeps their bounds in bytes).
OverridesTakenOnce ==
  \A x, y \in taken :
    (x[2] = y[2] /\ x[1] # y[1]) =>
      LET r == arrays[1][x[1]]
          s == arrays[1][y[1]]
      IN Lines(r) \cap Lines(s) # {} \/ ~(Lines(r) \cup Lines(s) \subseteq 0 .. 255)

\* Firmware without a defect, as far as this code looks: IO APICs must have ID 0.
Sound ==
  /\ machine.rsdp_present /\ machine.memory /\ machine.unmappable = {}
  /\ machine.rsdp.signature = "RSD PTR " /\ machine.rsdt.signature = "RSDT"
  /\ \A t \in {machine.rsdp, machine.rsdt} \cup Range(machine.tables) : t.sum % 256 = 0
  /\ {"APIC", "FACP"} \subseteq {t.signature : t \in Range(machine.tables)}
  /\ machine.madt_flags # 0
  /\ machine.firmware_ctrl + machine.x_firmware_control # 0
  /\ Grouped
  /\ \A r \in Range(machine.records) :
       /\ r.type \in 0 .. 9 \ {5}
       /\ r.length >= 2 + (IF r.type \in Stored THEN SizeOf[r.type] ELSE 0)
       /\ r.type = 1 => r.id = 0 /\ machine.controllers[r.address].id = 0

\* On such firmware the walk ends, with the FACS found and every IO APIC set up: it
\* neither loops on a record, nor stores past an array, nor reads an entry that was
\* never stored.
SoundEnds == Sound => <>(pc = "done" /\ facs_ptr # 0 /\ c = Cardinality(Places(1, Len(machine.records))))

\* "APIC ID did not match expected value!": the panic at the comparison means that
\* the controller's ID is not the one the MADT gives.
PanicsOnMismatch ==
  [][(NextController /\ pc' = "panic" /\ map_page("IO APIC"))
       => controller.id # machine.controllers[controller.address].id]_vars
=============================================================================
