-------------------------- MODULE MCVirtualMemory --------------------------
(***************************************************************************)
(* VirtualMemory with a few frames: PML4 indices 1 and 2 are the upper     *)
(* half; index 1 has the direct map and the kernel image, index 2 pages of *)
(* the callers.                                                            *)
(***************************************************************************)
EXTENDS VirtualMemory, FiniteSetsExt, SequencesExt

CONSTANT NumFrames

MCFrames == 1 .. NumFrames
MCPick(frames) == Min(frames)
MCUpperHalf == {1, 2}
MCKernelPages ==
  <<[virt |-> <<1, 1, 0, 0>>, phys |-> 101, section |-> "text"],
    [virt |-> <<1, 1, 0, 1>>, phys |-> 102, section |-> "rodata"],
    [virt |-> <<1, 1, 0, 2>>, phys |-> 103, section |-> "data"]>>

\* Devices have a page table of their own.
MCHhdm(f) == <<1, 0, IF f < 200 THEN 0 ELSE 1, f>>

\* Frame 4 lies behind a chunk's end, and setup_vmm may take it for a table.  The loader
\* reports frame 0 as free: otherwise a pp_alloc that finds no frame faults.
MCHhdmFrames == <<0>> \o SelectSeq([i \in 1 .. NumFrames |-> i], LAMBDA f : f # 4)
MCFramebufferFrames == <<200>>

\* An ACPI table in memory pp_alloc manages, and the registers of an APIC.
MCAcpiFrames == {NumFrames - 1}
MCApicFrames == {201}

\* Two pages of one page table, one of another below the same page directory,
\* and one in the upper half, where nothing else is mapped.
MCCallerVirt == {<<0, 0, 0, 0>>, <<0, 0, 0, 1>>, <<0, 0, 1, 0>>, <<2, 0, 0, 0>>}
MCCallerPhys == {50}
MCCallerFlags == {{"W", "NX"}}
=============================================================================
