---------------------------- MODULE VirtualMemory ----------------------------
(***************************************************************************)
(* The four-level page tables of kernel/src/memory/virtual/vmm.c:          *)
(* map_page, unmap_page, setup_vmm and the switch to the new tables.       *)
(*                                                                         *)
(* A virtual page is the sequence of its four table indices.  The present  *)
(* entries of all tables are one function: entries[<<table, index>>].  The *)
(* page allocator is seen through pp_alloc and pp_free: it hands out a     *)
(* free frame, answers NULL (a page number without a frame) or panics when *)
(* memory is exhausted.  The TLB holds translations the processor used and *)
(* nobody invalidated; the paging-structure caches are left out.           *)
(*                                                                         *)
(* The kernel reaches a table through the direct map at HIGHER_HALF: on    *)
(* the loader's tables always, on its own ones only where these translate  *)
(* it. A table they do not translate, or that is to be written and is      *)
(* read-only (the loader sets CR0.WP), page-faults, and the handler halts. *)
(***************************************************************************)
EXTENDS Integers, Sequences, FiniteSets, Functions

CONSTANTS
  Frames,          \* frames pp_alloc hands out, those behind a chunk's end too
  Pick(_),         \* the free frame pp_alloc takes
  UpperHalf,       \* PML4 indices from 256 up
  KernelPages,     \* sequence of [virt, phys, section], the kernel image
  Hhdm(_),         \* virtual page of a frame in the higher-half direct map
  HhdmFrames,      \* sequence of the frames of the free chunks
  FramebufferFrames, \* sequence of the frames of the framebuffer
  AcpiFrames,      \* frames the ACPI tables are in, free memory or not
  ApicFrames,      \* frames of the APICs' registers
  CallerVirt,      \* other pages the callers of map_page and unmap_page use
  CallerPhys,      \* and the frames or devices they map there
  CallerFlags      \* and the flags they pass

NULL == 0
NoTranslation == [addr |-> NULL, flags |-> {}]

KernelVirt == {KernelPages[i].virt : i \in 1 .. Len(KernelPages)}

\* The frames something maps at HIGHER_HALF, each at its own address.
DirectFrames ==
  {HhdmFrames[i] : i \in 1 .. Len(HhdmFrames)}
    \cup {FramebufferFrames[i] : i \in 1 .. Len(FramebufferFrames)}
    \cup AcpiFrames \cup ApicFrames
DirectVirt == {Hhdm(f) : f \in DirectFrames}
AllVirt == KernelVirt \cup DirectVirt \cup CallerVirt

ASSUME VmmAssumption ==
  /\ NULL \notin Frames
  /\ Len(KernelPages) \in Nat /\ Len(HhdmFrames) \in Nat /\ Len(FramebufferFrames) \in Nat
  /\ \A S \in SUBSET Frames : S # {} => Pick(S) \in S
  /\ \A v \in AllVirt : v = <<v[1], v[2], v[3], v[4]>>

\* The pages of the kernel image, the direct map and the pages of other callers are
\* apart, and HIGHER_HALF takes no two frames to one page.
ASSUME PagesAssumption ==
  /\ \A i, j \in 1 .. Len(KernelPages) : KernelPages[i].virt = KernelPages[j].virt => i = j
  /\ \A f, g \in DirectFrames : Hhdm(f) = Hhdm(g) => f = g
  /\ KernelVirt \cap DirectVirt = {}
  /\ CallerVirt \cap (DirectVirt \cup KernelVirt) = {}

\* No caller passes PTE_USER.
ASSUME NoUserPages == \A f \in CallerFlags : "U" \notin f

VARIABLES
  pc,          \* where setup_vmm is, or that the kernel runs or stopped
  n,           \* pages the current loop of setup_vmm has mapped
  free,        \* frames pp_alloc may hand out
  top_level,   \* frame of the kernel's PML4, NULL before it is allocated
  entries,     \* the present entries of all tables
  tlb          \* translations the processor holds: virtual page -> translation

vars == <<pc, n, free, top_level, entries, tlb>>

-----------------------------------------------------------------------------
(* Tables.                                                                 *)

is_table_empty(e, table) == \A k \in DOMAIN e : k[1] # table

\* get_next_level: the table an entry points to.
get_next_level(e, table, index) ==
  IF <<table, index>> \in DOMAIN e THEN e[<<table, index>>].addr ELSE NULL

\* The tables on the path to a page, from the PML4 (1) to the page table (4).
Path(e, v) ==
  LET pdpt == get_next_level(e, top_level, v[1])
      pd == get_next_level(e, pdpt, v[2])
  IN  <<top_level, pdpt, pd, get_next_level(e, pd, v[3])>>

\* What the processor finds: WRITABLE and USER hold when every level grants them.
Walk(e, v) ==
  LET path == Path(e, v)
  IN  IF <<path[4], v[4]>> \notin DOMAIN e THEN NoTranslation
      ELSE LET leaf == e[<<path[4], v[4]>>]
           IN  [addr |-> leaf.addr,
                flags |-> {f \in leaf.flags :
                             f \in {"W", "U"} =>
                               \A l \in 1 .. 3 : f \in e[<<path[l], v[l]>>].flags}]

SetEntry(e, table, index, entry) ==
  [k \in DOMAIN e \cup {<<table, index>>} |->
     IF k = <<table, index>> THEN entry ELSE e[k]]

Without(e, keys) == Restrict(e, DOMAIN e \ keys)

\* A frame taken for a table, zeroed.
Zeroed(e, frame) == Restrict(e, {k \in DOMAIN e : k[1] # frame})

-----------------------------------------------------------------------------
(* Tables through the direct map.                                          *)

\* By the translations before a call: linking empty tables on the way changes none.
Readable(table) == pc = "run" => Walk(entries, Hhdm(table)) # NoTranslation

Writable(table) == pc = "run" => "W" \in Walk(entries, Hhdm(table)).flags

-----------------------------------------------------------------------------
(* map_page.                                                               *)

\* A walk under way: the tables, the free frames, the table reached (NULL once
\* the walk failed), how many more times pp_alloc answers with a frame, and pc
\* unless the kernel stopped on the way.
Start(budget) ==
  [e |-> entries, free |-> free, table |-> top_level, budget |-> budget, pc |-> pc]

\* The kernel stops in the middle; what pp_alloc marked before no longer counts.
Stops(w, how) == [w EXCEPT !.table = NULL, !.pc = how]

\* pp_alloc zeroes what it returns, even NULL; the frame is linked, and zeroed again.
Linking(w, index, frame, entry, left) ==
  IF w.budget = 0
  THEN IF Writable(NULL) THEN [w EXCEPT !.table = NULL] ELSE Stops(w, "fault")
  ELSE IF w.free = {} THEN Stops(w, "panic")
  ELSE IF ~Writable(frame) \/ ~Writable(w.table) THEN Stops(w, "fault")
  ELSE [e |-> SetEntry(Zeroed(w.e, frame), w.table, index, entry),
        free |-> left, table |-> frame, budget |-> w.budget - 1, pc |-> w.pc]

\* Slip: the new frame is not taken off the free ones.
allocate_next_level_shared(w, index, pte_flags) ==
  LET frame == Pick(w.free)
  IN  Linking(w, index, frame, [addr |-> frame, flags |-> pte_flags], w.free)

allocate_next_level(w, index, pte_flags) ==
  LET frame == Pick(w.free)
  IN  Linking(w, index, frame,
              [addr |-> frame, flags |-> IF pte_flags = {} THEN {"W"} ELSE pte_flags],
              w.free \ {frame})

get_or_allocate_next_level(w, index, flags) ==
  IF w.table = NULL THEN w
  ELSE IF ~Readable(w.table) THEN Stops(w, "fault")
  ELSE IF <<w.table, index>> \in DOMAIN w.e
  THEN [w EXCEPT !.table = w.e[<<w.table, index>>].addr]
  ELSE allocate_next_level(w, index, flags)

\* The tables from the PML4 down to the page table of v, as far as memory goes and
\* the direct map reaches.
Descend(v, flags, budget) ==
  LET alloc_flags == {"W"} \cup (flags \cap {"U"})
      pdpt == get_or_allocate_next_level(Start(budget), v[1], alloc_flags)
      pd == get_or_allocate_next_level(pdpt, v[2], alloc_flags)
      pt == get_or_allocate_next_level(pd, v[3], alloc_flags)
  IN  IF pt.table # NULL /\ ~Writable(pt.table) THEN Stops(pt, "fault") ELSE pt

\* invlpg: the processor forgets a page.
Flushed(v) == Restrict(tlb, DOMAIN tlb \ {v})

\* Slip: the changes are not flushed.
Mapped_unflushed(w, v, p, flags) ==
  /\ entries' = SetEntry(w.e, w.table, v[4], [addr |-> p, flags |-> flags])
  /\ tlb' = tlb

\* Slip: only the low bits of the flags are written, and NX is lost.
Mapped_executable(w, v, p, flags) ==
  /\ entries' = SetEntry(w.e, w.table, v[4], [addr |-> p, flags |-> flags \ {"NX"}])
  /\ tlb' = Flushed(v)

\* The entry of the page is written, and its translation flushed.
Mapped(w, v, p, flags) ==
  /\ entries' = SetEntry(w.e, w.table, v[4], [addr |-> p, flags |-> flags])
  /\ tlb' = Flushed(v)

\* The tables allocated before a failure stay linked.
MapFails(w) == entries' = w.e /\ tlb' = tlb

-----------------------------------------------------------------------------
(* setup_vmm.                                                              *)

Init ==
  /\ pc = "pml4"
  /\ n = 0
  /\ free = Frames
  /\ top_level = NULL
  /\ entries = << >>
  /\ tlb = << >>

AllocatePml4 ==
  /\ pc = "pml4"
  /\ \/ /\ free # {}
        /\ pc' = "upper"
        /\ top_level' = Pick(free)
        /\ free' = free \ {Pick(free)}
     \/ pc' = "panic" /\ UNCHANGED <<top_level, free>>
  /\ UNCHANGED <<n, entries, tlb>>

\* One upper-half PML4 entry, in order; a NULL answer is not looked at.
AllocateUpper ==
  /\ pc = "upper"
  /\ \E i \in UpperHalf, budget \in {0, 1} :
       /\ Cardinality({j \in UpperHalf : j < i}) = n
       /\ LET w == get_or_allocate_next_level(Start(budget), i, {})
          IN  /\ entries' = w.e
              /\ free' = w.free
              /\ pc' = w.pc
  /\ n' = n + 1
  /\ UNCHANGED <<top_level, tlb>>

\* A kernel or HHDM page that cannot be mapped stops the kernel; a framebuffer page
\* is skipped, but an allocation may panic by itself.
OnMapFailure(w, required) == IF required /\ w.pc = pc THEN "panic" ELSE w.pc

\* One page of a loop of setup_vmm.
BootMap(v, p, flags, required) ==
  \E budget \in 0 .. 3 :
    LET w == Descend(v, flags, budget)
    IN  /\ free' = w.free
        /\ n' = n + 1
        /\ \/ w.table # NULL /\ Mapped(w, v, p, flags) /\ UNCHANGED pc
           \/ w.table = NULL /\ MapFails(w) /\ pc' = OnMapFailure(w, required)
        /\ UNCHANGED top_level

\* The rights of a section of the kernel image.
SectionFlags(section) ==
  CASE section = "text" -> {}
    [] section = "rodata" -> {"NX"}
    [] OTHER -> {"W", "NX"}

MapKernelPage ==
  /\ pc = "kernel"
  /\ n < Len(KernelPages)
  /\ LET page == KernelPages[n + 1]
     IN  BootMap(page.virt, page.phys, SectionFlags(page.section), TRUE)

MapHhdmPage ==
  /\ pc = "hhdm"
  /\ n < Len(HhdmFrames)
  /\ LET frame == HhdmFrames[n + 1] IN BootMap(Hhdm(frame), frame, {"W"}, TRUE)

MapFramebufferPage ==
  /\ pc = "framebuffer"
  /\ n < Len(FramebufferFrames)
  /\ LET frame == FramebufferFrames[n + 1]
     IN  BootMap(Hhdm(frame), frame, {"W", "PCD", "PAT"}, FALSE)

\* Slip: the end of the kernel image is rounded down.
LoopLength_short ==
  CASE pc = "upper" -> Cardinality(UpperHalf)
    [] pc = "kernel" -> Len(KernelPages) - 1
    [] pc = "hhdm" -> Len(HhdmFrames)
    [] pc = "framebuffer" -> Len(FramebufferFrames)

LoopLength ==
  CASE pc = "upper" -> Cardinality(UpperHalf)
    [] pc = "kernel" -> Len(KernelPages)
    [] pc = "hhdm" -> Len(HhdmFrames)
    [] pc = "framebuffer" -> Len(FramebufferFrames)

\* The end of a loop; after the last one switch_to_pagemap loads CR3.
NextLoop ==
  /\ pc \in {"upper", "kernel", "hhdm", "framebuffer"}
  /\ n = LoopLength
  /\ pc' = CASE pc = "upper" -> "kernel"
             [] pc = "kernel" -> "hhdm"
             [] pc = "hhdm" -> "framebuffer"
             [] pc = "framebuffer" -> "run"
  /\ n' = 0
  /\ UNCHANGED <<free, top_level, entries, tlb>>

-----------------------------------------------------------------------------
(* The kernel running on its own tables.                                   *)

map_page(v, p, flags) ==
  \E budget \in 0 .. 3 :
    LET w == Descend(v, flags, budget)
    IN  /\ pc = "run"
        /\ free' = w.free
        /\ pc' = w.pc
        /\ \/ w.table # NULL /\ Mapped(w, v, p, flags)
           \/ w.table = NULL /\ MapFails(w)
        /\ UNCHANGED <<n, top_level>>

\* The pages of the ACPI tables are mapped where the direct map may have them, to read.
AcpiFlags == {"NX", "PCD"}
MapAcpiTable == \E f \in AcpiFrames : map_page(Hhdm(f), f, AcpiFlags)

ApicFlags == {"W", "NX", "PCD"}
MapApic == \E f \in ApicFrames : map_page(Hhdm(f), f, ApicFlags)

\* Slip: the upper half is not spared.
DropsPdpt_always(e, v) == is_table_empty(e, Path(entries, v)[2])

\* The PDPTs of the upper half stay, even when empty.
DropsPdpt(e, v) == is_table_empty(e, Path(entries, v)[2]) /\ v[1] \notin UpperHalf

\* What unmap_page leaves: the entries, the tables it freed, and whether it went on to
\* an entry of table and faulted there.
Left(e, freed, on, table) ==
  [e |-> e, freed |-> freed, faulted |-> on /\ ~Writable(table)]

\* Slip: the page table goes with its first page.
Reclaim_hasty(v) ==
  LET path == Path(entries, v)
  IN  Left(Without(entries, {<<path[4], v[4]>>, <<path[3], v[3]>>}), {path[4]}, FALSE, path[3])

\* Slip: the emptied page directory is unlinked but not freed.
Reclaim_leaky(v) ==
  LET path == Path(entries, v)
      noPage == Without(entries, {<<path[4], v[4]>>})
      noPt == Without(noPage, {<<path[3], v[3]>>})
      noPd == Without(noPt, {<<path[2], v[2]>>})
  IN  IF ~is_table_empty(noPage, path[4]) THEN Left(noPage, {}, FALSE, path[3])
      ELSE IF ~is_table_empty(noPt, path[3]) THEN Left(noPt, {path[4]}, FALSE, path[2])
      ELSE Left(noPd, {path[4]}, FALSE, path[1])

\* The page's entry goes, then every table on its path that this leaves empty, as long
\* as the entry that links it can be written.
Reclaim(v) ==
  LET path == Path(entries, v)
      noPage == Without(entries, {<<path[4], v[4]>>})
      noPt == Without(noPage, {<<path[3], v[3]>>})
      noPd == Without(noPt, {<<path[2], v[2]>>})
      noPdpt == Without(noPd, {<<path[1], v[1]>>})
      dropsPt == is_table_empty(noPage, path[4])
      dropsPd == is_table_empty(noPt, path[3])
      dropsPdpt == DropsPdpt(noPd, v)
  IN  IF ~dropsPt \/ ~Writable(path[3]) THEN Left(noPage, {}, dropsPt, path[3])
      ELSE IF ~dropsPd \/ ~Writable(path[2]) THEN Left(noPt, {path[4]}, dropsPd, path[2])
      ELSE IF ~dropsPdpt \/ ~Writable(path[1])
      THEN Left(noPd, {path[4], path[3]}, dropsPdpt, path[1])
      ELSE Left(noPdpt, {path[4], path[3], path[2]}, FALSE, path[1])

\* unmap_page looks at every table on the path, and takes the page away if it is
\* mapped; nothing happens to any other page.
UnmapFaults(v) ==
  LET path == Path(entries, v)
  IN  \/ \E l \in 1 .. 4 : path[l] # NULL /\ ~Readable(path[l])
      \/ Walk(entries, v) # NoTranslation /\ ~Writable(path[4])

unmap_page(v) ==
  /\ pc = "run"
  /\ \/ /\ UnmapFaults(v)
        /\ pc' = "fault"
        /\ UNCHANGED <<entries, free, tlb>>
     \/ /\ ~UnmapFaults(v)
        /\ Walk(entries, v) # NoTranslation
        /\ entries' = Reclaim(v).e
        /\ free' = free \cup Reclaim(v).freed
        /\ tlb' = Flushed(v)
        /\ pc' = IF Reclaim(v).faulted THEN "fault" ELSE pc
  /\ UNCHANGED <<n, top_level>>

\* The processor translates a page and keeps the translation.
Access(v) ==
  /\ pc = "run"
  /\ Walk(entries, v) # NoTranslation
  /\ v \notin DOMAIN tlb
  /\ tlb' = [u \in DOMAIN tlb \cup {v} |-> IF u = v THEN Walk(entries, v) ELSE tlb[u]]
  /\ UNCHANGED <<pc, n, free, top_level, entries>>

hcf == pc \in {"panic", "fault"} /\ UNCHANGED vars

Next ==
  \/ AllocatePml4 \/ AllocateUpper \/ NextLoop
  \/ MapKernelPage \/ MapHhdmPage \/ MapFramebufferPage
  \/ \E v \in CallerVirt :
       \/ \E p \in CallerPhys, f \in CallerFlags : map_page(v, p, f)
       \/ unmap_page(v)
  \/ MapAcpiTable \/ MapApic
  \/ \E v \in CallerVirt \cup {Hhdm(f) : f \in AcpiFrames} : Access(v)
  \/ hcf

Spec == Init /\ [][Next]_vars

-----------------------------------------------------------------------------
(* Properties.                                                             *)

\* The tables of each level, from the entries of the level above.
Children(tables) == {entries[k].addr : k \in {k \in DOMAIN entries : k[1] \in tables}}
Pml4s == {top_level} \ {NULL}
Pdpts == Children(Pml4s)
Pds == Children(Pdpts)
Pts == Children(Pds)
Tables == Pml4s \cup Pdpts \cup Pds \cup Pts

\* The tables form a tree: a table is linked from one entry only, at one level
\* only, so that clearing the entry that unmap_page frees it from leaves no way
\* to reach it.
TablesFormTree ==
  /\ \A k, l \in {k \in DOMAIN entries : k[1] \notin Pts} :
       entries[k].addr = entries[l].addr => k = l
  /\ Pml4s \cap Pdpts = {} /\ (Pml4s \cup Pdpts) \cap Pds = {}
  /\ (Pml4s \cup Pdpts \cup Pds) \cap Pts = {}

\* No table is lost and none is used after pp_free: the frames taken from the
\* allocator are exactly the tables still linked, half-finished map_page calls
\* included.
TablesAccounted == Frames \ free = Tables

\* After the switch the kernel finds itself: its whole image is mapped with the
\* rights of each section, and each of its tables that lies in the free chunks where
\* HIGHER_HALF puts it, to be written unless an ACPI table shares its page.
KernelReachable ==
  pc = "run" =>
    /\ \A i \in 1 .. Len(HhdmFrames) :
         HhdmFrames[i] \in Tables =>
           LET found == Walk(entries, Hhdm(HhdmFrames[i]))
           IN  found.addr = HhdmFrames[i] /\ (HhdmFrames[i] \notin AcpiFrames => "W" \in found.flags)
    /\ \A i \in 1 .. Len(KernelPages) :
         Walk(entries, KernelPages[i].virt)
           = [addr |-> KernelPages[i].phys,
              flags |-> IF KernelPages[i].section = "text" THEN {}
                        ELSE IF KernelPages[i].section = "rodata" THEN {"NX"} ELSE {"W", "NX"}]

\* A translation the processor holds is the one the tables give ("Flush the
\* changes."), whatever was mapped over or unmapped since.
TlbCoherent == \A v \in DOMAIN tlb : tlb[v] = Walk(entries, v)

\* An upper-half PML4 entry, once there, stays: the PDPTs of the kernel's half
\* are never replaced.
UpperHalfStable ==
  [][\A i \in UpperHalf :
       <<top_level, i>> \in DOMAIN entries =>
         /\ <<top_level, i>> \in DOMAIN entries'
         /\ entries'[<<top_level, i>>] = entries[<<top_level, i>>]]_vars

\* The frames and devices something is mapped to, and the rights it is mapped with.
AllPhys ==
  CallerPhys \cup DirectFrames \cup {KernelPages[i].phys : i \in 1 .. Len(KernelPages)}
AllFlags ==
  CallerFlags \cup {{}, {"W"}, {"NX"}, {"W", "NX"}, {"W", "PCD", "PAT"}, AcpiFlags, ApicFlags}

Abs == INSTANCE AddressSpace WITH
       Virt <- AllVirt, Phys <- AllPhys, Flags <- AllFlags,
       translation <- [v \in AllVirt |-> Walk(entries, v)]

\* The page tables implement an address space: every step sets or removes the
\* translation of one page at most; sharing, growing and freeing tables, and
\* calls of map_page that fail half-way, are invisible.
ImplementsAddressSpace == Abs!Spec

\* map_page gives the page exactly the frame and the rights asked for, through
\* tables that other calls with other flags allocated, or changes nothing for it.
MapPageHonoured ==
  [][\A v \in CallerVirt, p \in CallerPhys, f \in CallerFlags :
       map_page(v, p, f) =>
         Walk(entries', v) \in {[addr |-> p, flags |-> f], Walk(entries, v)}]_vars
=============================================================================
