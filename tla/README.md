# adaOS in TLA+

A model of the adaOS kernel: TLA+ modules translated from the C sources, TLC
configurations that check them on small instances, and TLAPS proofs about every
part that is modelled. `PROJECT.json` maps every definition to the source lines it
models and lists runs, mutants, findings, hazards and theorems.

## 1. Inventory

adaOS is a single-core x86-64 kernel. `kmain` sets everything up in one thread
and ends in `hcf` (a `hlt` loop); from then on only interrupt handlers run. There
are no locks. Concurrency is between `kmain` and the handlers (timer ticks, the
serial port, exceptions) and between software and devices (the TLB, the UART, the
clock).

| Part | State | Operations | Interacts with | Hard behaviour | What makes it correct |
|---|---|---|---|---|---|
| Physical memory (`pmm.c`, `memmap.c`) | bitmap, last page, mapping table and its cursor, counters | `setup_pmm`, `pp_alloc`, `pp_free` | everything that needs a frame | address and page number are converted through a cursor left by earlier calls; rounding; the end of the bitmap | a frame has one owner, is free memory, and `pp_free` finds the page `pp_alloc` marked |
| Virtual memory (`vmm.c`) | four levels of tables, CR3, the TLB | `setup_vmm`, `map_page`, `unmap_page`, `switch_to_pagemap` | takes tables from the page allocator; heap, APIC, ACPI map pages | allocation fails at any level; reclaiming tables; stale translations; tables outside the new direct map | the tables are a tree, none is lost or freed in use, and they act as an address space |
| Heap (`heap.c`) | free list, size, blocks in use | `setup_heap`, `kmalloc`, `kcalloc`, `krealloc`, `kfree` | grows with `pp_alloc` and `map_page` | split, coalesce, growth that fails half-way, wrapping sizes | no byte is lost or owned twice, and requests are honoured |
| Serial port and shell (`rs232.c`, `rs232_handler.c`) | line buffer, index, running flag | `setup_serial`, one interrupt per key, commands | interrupt controller, UART, timer, clock | bursts, edges, a command that sleeps in the handler, the buffer's end | the command that runs is the one typed; every key is read; the prompt returns |
| Boot, timers, panic (`core.c`, `pit.c`, `apic.c`, `panic.c`, `handler.c`) | ticks, flags, speaker, panic counter | `kmain`, sleeps, ticks, self tests, `panic`, exceptions | all set-up code | sleeping on a timer that does not run; panics in handlers and in panics | every sleep ends, flags are true, a panic is final, the speaker is off when the processor halts |
| Clock and dates (`rtc.c`) | the clock's registers | `get_unix_timestamp`, `ms_to_iso8601` | shell, banner | a carry between two reads; calendar arithmetic | the time is the clock's; conversions agree with the calendar |
| ACPI (`acpi.c`) | arrays of MADT records and their counts, FACS pointer | `bootstrap_acpi`, `parse_madt` | maps pages, allocates arrays, panics | one index for all record types; lengths, types and order from firmware; a mapping or an allocation that fails on the way | nothing is taken from a table that was not checked; every record is stored once |
| IO APIC (`ioapic.c`, `bits.c`) | redirection registers behind an index | `setup_io_apic` | reads the ACPI arrays | byte arithmetic on line numbers, more overrides than entries | writes stay in the controller, no override goes to two controllers |
| Console (`print_lowlevel.c`, `log.c`) | framebuffer, cursor, colours | `k_putc`, scrolling, `clear`, the log functions | everything prints, handlers too | a handler prints between reading and storing the cursor | the cursor stays on the screen; the screen shows the last lines printed |
| Formatting (`printf.c`) | the caller's buffer | `printf_`, `snprintf_` | console, shell, panic | flags that interact, widths and signs, a buffer that is too small | integers as C defines them, writes inside the buffer |
| Random numbers, descriptor tables, CPUID, MSRs, ports, strings, `limine.h`, fonts, logos, `ap.c`, scheduler | constant tables, single instructions, third-party code, empty files | | | | not modelled (section 6) |

## 2. Modules

| Module | Models | Abstracts |
|---|---|---|
| `Heap` | `heap.c` | addresses are bytes; the chain of `next` pointers is a sequence |
| `Allocator` | what callers rely on | abstract specification `Heap` implements |
| `HeapProofs` | | proofs about `Heap` |
| `PhysicalMemory` | `pmm.c`, `get_memory_descriptor` | addresses are frame numbers, the bitmap a set |
| `PhysicalMemoryProofs` | | proofs about `PhysicalMemory` |
| `VirtualMemory` | `vmm.c` | the entries of all tables are one function; `pp_alloc` gives a frame, NULL or a panic; a page fault of the kernel's own is where it stops |
| `AddressSpace` | what page tables are for | abstract specification `VirtualMemory` implements |
| `VirtualMemoryProofs` | | proofs about `VirtualMemory` |
| `SerialShell` | `rs232_handler.c`, `setup_serial`, the handler's entry and exit | keys are model values, commands a name and a number of ticks |
| `LineShell` | what the user of the shell sees | abstract specification `SerialShell` implements |
| `SerialShellProofs` | | proofs about `SerialShell` |
| `KernelBoot` | `kmain` with timers, self tests, `panic`, exceptions | a sleep is the ticks it still waits for; a self test passes or fails |
| `KernelBootProofs` | | proofs about `KernelBoot` |
| `RealTimeClock` | `rtc.c`, the date in the banner | a count of seconds is days and seconds of the day |
| `RealTimeClockProofs` | | proofs about `RealTimeClock` |
| `AcpiTables` | `acpi.c` | a table is its signature, the sum of its bytes and the fields the code reads |
| `IoApic` | `ioapic.c`, `bits.c`; composed with `AcpiTables`, whose arrays it reads | a controller is an ID, its last entry and the registers that were written |
| `IoApicProofs` | | proofs about `AcpiTables` and `IoApic` |
| `Printf` | `printf.c` as it is built, and the C standard's conversions as a reference | a format is a sequence of parsed directives |
| `Console` | `print_lowlevel.c`, `log.c`; composed with `Printf`, whose output it shows | a glyph is a square of pixels that all hold the character and its colour |
| `ConsoleProofs` | | proofs about `Console` and `Printf` |
| `MC…` | | instances: constants and memory maps, commands, start dates |

Every variable carries the name it has in the code where there is one; `pc`,
`mode`, `doing` and `stage` stand for the program counter. Variables marked
"history" are not in the code and do not influence it. Definitions whose comment
begins with "Slip" are the mutants: each is a plausible mistake in the definition
that follows it.

How state and actions correspond:

* **Heap.** A call of `kmalloc` is several steps: `SearchHits` or `SearchMisses`
  for the search, `GrowMany` for `heap_grow_pages(16)`, `GrowOne` for the
  fallback, then the search again. `GrowFails` lets `pp_alloc` fail after any
  number of pages, which stay mapped. `krealloc` either adjusts a block in place
  or enters the same search and ends with `FreeOld`. `size_t` arithmetic wraps
  (`Plus`).
* **PhysicalMemory.** `setup_pmm` and its own test allocation, then `pp_alloc`
  and `pp_free` by any caller of a page it owns. `SearchFrom` is the retry loop
  over the mapping table from the cursor both conversions share. Page
  `MAX_PAGES`, whose bit lies past the bitmap, reads as anything at first
  (`preset`). Mappings may overlap, so a number may have several frames and a
  frame several numbers; `Unambiguous` names the numbers of which neither is so,
  `Backed` those of pages that the chunk really has.
* **VirtualMemory.** The loops of `setup_vmm` map one page per step; `map_page`
  descends with a budget of successful allocations, so that it fails at every
  level; `unmap_page` frees the tables it leaves empty. `Access` is the processor
  caching a translation. Once CR3 is loaded every read or write of a table goes
  through the kernel's own direct map (`Readable`, `Writable`): a table that map
  does not translate, or only to read, ends in the page fault handler's halt
  (`pc = "fault"`), and so does the zeroing of NULL in `pp_alloc`. `MapAcpiTable`
  and `MapApic` are the callers that map into the direct map; the ACPI pages they
  map again, without `PTE_WRITABLE`, may be pages of managed memory. Until CR3 is
  loaded the loader's tables translate everything. What `pp_alloc` marked in a
  call that faulted is not counted: the kernel has stopped.
* **SerialShell.** `Receive` fills the FIFO, `Interrupt` takes the gate,
  `rs232_irq` is the handler up to the end of a key or the start of a command,
  `newline` the rest of it. `apic_timer_irq` counts only when interrupts are on.
  `Store` writes at the index unchecked: past the buffer it may set
  `terminal_running` or nothing the shell looks at. `full` and `longest` are
  history: whether this line filled the buffer, and the longest line typed.
* **KernelBoot.** `stage` walks `kmain`; a sleep sets `doing`, `timer` and
  `left`, ticks count `left` down, and the code after the sleep is the action
  that needs it to be zero. An exception clears `IF_flag` for good when its
  handler does not return. `cut` is history: an exception came while a tone of the
  code it interrupted was sounding.
* **RealTimeClock.** One step per register read, with `Tick` in between.
  Its only caller, the shell's `time` command, does not get past the first read
  (see `shell_time`); the module shows what `get_unix_timestamp` computes when it
  is called with interrupts on.
* **AcpiTables and IoApic.** `pc` names the table being read, or how the walk
  ended: a panic, the page fault handler's halt, or going on with what an array
  held before. `find_table` with a table that cannot be mapped, a missing RSDP
  and a `kmalloc` that returns NULL end in a fault, as in the code. `ParseRecord`
  is one turn of the loop: the shared index `i` restarts where the type changes,
  and `last_type` begins with either outcome of its comparison, since the code
  does not set it. `NextController` and `NextOverride` are one turn each of the
  two loops of `setup_io_apic`.
* **Console.** A message is a script of characters and colour changes, made by
  `_vsnprintf` and the function of `log.c` around it. `Fetch`, `Draw`, `Advance`,
  `StoreX`, `nl_cursor`, `StoreY` and `Scroll` are the reads and writes of one
  `k_putc`; between any two of them a handler may print a whole message
  (`Notice`) or clear the screen (`ClearCommand`). Drawing one glyph and one
  scroll are single steps.

## 3. Runs

All runs check for deadlock; states in which the kernel stops have a stuttering
`hcf` step.

| Run | Shows | Instance |
|---|---|---|
| `heap` | blocks disjoint, list coalesced, nothing lost, sizes honoured, calls return, implements `Allocator` | 4 frames of 32 bytes, sizes 1, 17, 40 and 255 with an 8-bit `size_t`: a split, a block taken whole, growth by one and by several steps, wrapping |
| `pmm` | the frame of an unambiguous number has one owner, that of a backed one is free memory, `pp_free` clears the right bit, counters exact | a PC-like map until memory is exhausted: free memory below 1 MB, a hole, merged entries, the kernel, a chunk that the rounding extends; numbers of all kinds (`MapsMixed`) |
| `pmm_alias` | finding | the same map |
| `vmm` | tables are a tree, accounted, the kernel and its tables found after the switch, coherent with the TLB, `map_page` honoured or failed without effect, implement `AddressSpace` | 10 frames: the boot mappings and three more tables, so that sharing, reclaiming and exhaustion happen; one frame behind a chunk's end, one with an ACPI table in managed memory, a framebuffer and an APIC; page 0 is free memory, so that `pp_alloc` returns from its failures |
| `shell` | the command that runs is the one typed, on every line that leaves a byte of the buffer (implements `LineShell`), only lines as long as the buffer are stored past it, every key is read | a 3-byte buffer, two letters, a command that sleeps and one that does not, up to 10 keys in bursts, lines longer than the buffer included |
| `shell_time` | finding | a command that sleeps |
| `boot` | flags true, sleeps can end, a panic is final through nested panics and exceptions, a halted processor is silent unless an exception cut off a tone; unless an exception's handler keeps the processor, boot ends | sleeps of 3 ticks, 2 beeps, exceptions of all kinds at every point |
| `boot_abort` | finding: `EveryPanicHalts`, the same promise for panics raised by exceptions | exceptions that panic |
| `rtc` | conversions agree with the calendar; a reading is exact without a tick, never behind with one | every day from 1970 to 2100, which holds the end of a 400-year era and a century without leap day; calls at month edges in leap and common years with up to 3 ticks |
| `acpi` | nothing taken from unchecked tables, grouped records all kept, redirection writes in the controller, no override taken by two controllers, sound firmware is read to its end | every MADT of up to 4 records over 9 kinds (two IO APICs, three overrides, a type without an array, length 0), 5 records for a full controller, rare types, and tables with one defect each |
| `acpi_id` | finding | an IO APIC whose ID is 1 |
| `console` | cursor and glyphs on the screen, the screen shows the last lines printed, integers as C defines them, every write inside the buffer | a 3 by 2 screen with a strip below it, two messages that wrap and scroll, two handlers between any steps; every combination of flags with widths, precisions and specifiers, on types of 3 to 7 bits |

The bounds are small because the code is uniform in them: a page is a number of
alignment units, a chunk a number of pages, a beep like the one before. Each
instance was chosen so that the interesting branch is taken, and every property
has a mutant that breaks it within the same bounds.

### Fairness

* `Heap`: a call in progress runs on. One thread, no preemption of one call by
  another.
* `SerialShell`: the processor runs, takes pending interrupts while they are
  enabled, and the timer ticks. Keys have no fairness. `KeysRead` excepts
  behaviours in which a byte came before the one before it was dealt with, or a
  command sleeps: there the code does lose the shell (section 4).
* `IoApic`: the walk and `setup_io_apic` run on; they are straight-line code of
  `kmain`. A record of length 0 keeps the walk busy for ever all the same.
* `Console`, `PhysicalMemory`, `VirtualMemory` and `RealTimeClock` state none:
  their properties are about safety.
* `KernelBoot`: `kmain` runs on and a timer that is started and unmasked keeps
  ticking. Ticks need interrupts to be on; nothing assumes that they are.

Exceptions and failures are never fair: they may happen and need not.

## 4. Findings

Violation runs; each quotes the line of the code that says otherwise in
`PROJECT.json`.

* `pmm_alias`: chunks are rounded up to a multiple of `PAGE_SIZE` *pages* and
  chunks below 1 MB are moved without being shortened, so a frame gets two
  numbers and two owners.
* `shell_time`: `time` sleeps inside the handler and never returns.
* `boot_abort`: a panic raised by an exception sleeps with interrupts off and
  never halts.
* `acpi_id`: the ID of an IO APIC is compared over bits 27 to 23 instead of 27 to
  24, so a controller that has the ID the MADT says panics unless the ID is 0.

The passing runs leave out, in their instances or in what their properties speak of,
cases in which the code does something else. Except where it says otherwise below,
the models behave as the code does in those cases too:

* `pmm`: on rounded-up and moved chunks frames have several numbers and reserved
  memory is handed out. The kernel's own too: the guard for it compares a page number
  with a byte address (`pmm.c:187`). The strict comparison (`pmm.c:165`) leaves the
  first number of every chunk in no mapping, so that its allocation yields NULL and
  the number is lost. Page `MAX_PAGES` is scanned though it has no bit (`pmm.c:86`);
  which variable the bit belongs to is not modelled. More chunks than `page_mappings`
  has entries are left out (`pmm.c:100`).
* `vmm`: where a table is out of the direct map or has become read-only
  (`acpi.c:102`), behaviours end in `pc = "fault"`; the properties say what is so
  until then and in the state the kernel stops in. The run has page 0 in the direct
  map. Without it, as on most PCs, a `pp_alloc` that finds no frame faults too,
  because it zeroes NULL at `HIGHER_HALF` (`pmm.c:208`) before returning it:
  `map_page`, and the heap's growth with it, then halts instead of failing. `invlpg`
  comes before the upper entries are cleared (`vmm.c:157`), which only a
  paging-structure cache could notice.
* `heap`: a size that wraps gets a block that is too short. `PayloadFits` is about
  the other sizes, and the writes of `kcalloc` and `krealloc` past such a block
  (`heap.c:218`, `heap.c:242`) are not modelled. A growth that gets no frame is
  taken to return NULL, which it does while page 0 is in the direct map.
* `shell`: nothing compares the index with the buffer's size: the key after the last
  byte of the buffer is stored behind it (`rs232_handler.c:78`), perhaps in
  `terminal_running`. When two bytes wait, the handler reads one, no new edge
  comes, and the shell is deaf (`rs232_handler.c:55`): `KeysRead` is about
  behaviours without such a burst.
* `rtc`: years whose last two digits are 10 or more; 2005 is read as the year
  205 (`rtc.c:140`). `NotBehind` bounds a mixed reading on one side only: a carry
  between two reads can make it up to a year too late (`rtc.c:21`).
* `acpi`: `RecordsKept` is about records grouped by type, the order the comment at
  `acpi.c:150` speaks of; of records in another order the later group overwrites
  the earlier one and `setup_io_apic` reads array entries nobody wrote
  (`pc = "garbage"`). A record of length 0 keeps the loop where it is
  (`acpi.c:245`), and a type of 10 or more reads past the table of names
  (`acpi.c:241`). Both ends of a controller's lines are left out, bounds are kept
  in bytes (`ioapic.c:78`), and what is written to a redirection register is a
  bit of the entry's address, never its contents (`ioapic.c:53`), so no property
  here says that an override takes effect.
* `console`: `ShowsText` is about behaviours in which no handler wrote inside a
  character or a coloured tag of `kmain`'s; otherwise one of the two overwrites
  the other or prints in its colour, while `CursorOnScreen` holds always.
  `scroll` takes lines to be `Width` pixels apart: with a larger pitch the right
  part of the screen is left behind; the run has `Pitch = Width`. `FormatsRight`
  leaves out two combinations in which `printf.c` differs from C (`#` with a
  value that fills its width, a precision together with `-`) and widths beyond the
  32-character buffer. Two more differences are kept out of its formats
  (`NumbersFit`): digits that do not fit into the buffer are dropped, as of a 64-bit
  `%b`, and a negative precision argument counts as 0 (`printf.c:694`) where C takes
  it as omitted. The kernel uses none of them. `k_puts` counts in a byte
  (`print_lowlevel.c:153`); all its callers pass short constants.
  For a line feed `k_putc` stores `cursor_x = 0` a second time after the serial
  write (`print_lowlevel.c:129`); the model's step ends at the first store, which
  is the same as long as a handler's message ends a line, as all of the code's do.

## 5. Proofs

`HeapProofs` proves about `Heap`, for all values of the constants that satisfy
`HeapAssumption` (alignment of the heap's start and of the page size, a `size_t`
larger than two alignment units, and no bound on frames, sizes or calls):
`TypeOK`, `FreeListCoalesced`, `BlocksDisjoint`, `NoLostMemory`,
`LiveBlocksFreeable`, `PayloadFits` and `HeapBacked` are invariants, and `Spec => ImplementsAllocator`.

The argument. None of the list properties is inductive alone: that blocks are
disjoint after `kfree` needs the list to be sorted, that it is sorted after a
merge needs blocks to be disjoint. The inductive invariant `Inv` therefore says
that every free block and every block in use is *sound* (aligned, at least
`MIN_ALLOC_SIZE`, inside the heap, apart from all blocks in use), that the free
list is sorted with gaps, that no byte is lost, and that the running call
remembers what its caller asked for. The lemmas describe each list operation by
what it does to soundness, gaps and the bytes covered: `MergeNextProperties`,
`LinkInProperties` (insert, then merge both ways) and `TakeFromProperties`
(unlink or split). `GrowInv`, `FreeInv`, `SearchHitsInv`, `ReallocInPlaceInv` and
`SetupInv` lift them to the actions, `NextInv` collects the actions. Refinement
uses `Inv` in one place: a hit of the search is a `Grant` because the block was
sound. Pages and frames have an invariant of their own, `PageInv`.

`KernelBootProofs` proves about `KernelBoot`, from `BootAssumption` (at least one
beep and one tick of sleep, any set of exceptions): `TypeOK`, `SleepCanEnd`,
`FlagsTruthful`, `HaltsSilent` and the action property `PanicIsFinal`.

The argument. A flag says nothing by itself of the timer it names, and a sleep
under way nothing of the point it began at. `Inv` ties both to the stage of
`kmain`: what is set up by which stage (`SetUpByStage`), which sleep happens at
which stage (`StageOfSleep`, `SleepsOnStarted`), that the tone sounds only in a
sleep that is followed by silence, or was cut off by an exception (`ToneHeld`), and
that a panic under way has beeps left (`BeepsLeft`). One lemma per action shows each
part kept. `HaltsSilent` has the exception because the code needs it: a handler that
halts or panics does not end the tone of what it interrupted.

`IoApicProofs` proves about `IoApic` on `AcpiTables`, from `MachinesAssumption`
(types of tables, records and controllers, and that an IO APIC record's address
is a controller's), for any number and order of tables, records, controllers
and overrides: `TablesTrusted`, `RecordsKept`, `EntriesInController` and
`OverridesTakenOnce`.

The argument is one invariant per property. `WalkInv`: the step the walk has
reached says which tables were checked, and nothing is kept before. `EntryInv`:
the next entry is among the written ones or follows them, unless all are written,
also when the index wraps at 256 or two records name the same controller.
`TakenInv`: arrays come from the table and do not change once an override is
taken, so the range it was found in is its controller's for good; `BoundsExact`
then shows that bounds in a byte are exact for lines below 256. `KeptInv`: while
the records of a type follow one another, the index shared by all types is the
number of records of the type stored so far, so a store never lands on another;
a walk that is stuck at a record of length 0 may overwrite, but never ends.

`PhysicalMemoryProofs` proves about `PhysicalMemory`, from `PmmAssumption` alone
(types of the constants) for any memory map, number of callers, chunks and pages:
`OneOwner`, `OnlyFreeFrames` and `BitmapExplained`. The map need not be sorted,
entries may overlap, and rounded or moved chunks may share frames. What the code
gets wrong on such maps (section 4) is in the properties, page by page, and not in
a hypothesis about the map: `OneOwner` and the bits of `BitmapExplained` are about
the numbers that are `Unambiguous`, `OnlyFreeFrames` about those that are `Backed`.
TLC evaluates which these are: `MapsMixed` in `MCPhysicalMemory` says that the map of
the run has numbers that are both, and numbers that are one and not the other.

The argument. By induction over the loader's map every frame of a chunk is free
memory, also where entries were merged. A search hits some mapping that holds what
it looks for, which one depends on the cursor; but a page that is unambiguous is in
one mapping, and no other mapping holds its frame, so from whatever page a free
begins, if it ends at the bit of an unambiguous page it began there (`SameFrame`).
Ambiguous pages may lose and regain their bits meanwhile. `Inv` says that every
owner has the frame of its page in some mapping (`Held`), that an unambiguous page
has one owner and was not marked before (`Single`), and that its bit is explained;
`Counted` follows the number of bits through all of this.

`VirtualMemoryProofs` proves about `VirtualMemory`, for any frames, pages and
callers that `VmmAssumption`, `PagesAssumption` (the kernel image, the direct map
and the other callers' pages are apart, and no two frames share an address in the
direct map) and `NoUserPages` allow: `TablesFormTree`, `TablesAccounted`,
`KernelReachable`, `TlbCoherent`, the action properties `UpperHalfStable` and
`MapPageHonoured`, and `Spec => ImplementsAddressSpace`. Tables may be in frames that
the direct map lacks, and ACPI and the APICs map into it.

The argument. `Inv` gives every frame taken from the allocator a level, so that
entries lead one level down, every table but the first is linked, and none twice
(`TreeOf`); and it says which pages `setup_vmm` mapped so far, and that each frame of
the direct map is `Found` at its address from then on. A translation depends
on four entries only. `map_page` may link empty tables before it fails and
`unmap_page` unlinks the empty ones: a path through an empty table ends nowhere, so
neither changes a translation. The last entry belongs to one page, because each
table is linked once, so writing or clearing it changes one translation, whose
cached copy is flushed. A later call either maps a page of its own or maps a page of
the direct map to the frame it had (`Harmless`), so that at most the right to write
is lost, and only of the pages with ACPI tables.

`SerialShellProofs` proves about `SerialShell`, from `ShellAssumption`, for lines of
any length: `InputInBuffer` (only a line of at least `BufferSize` keys is stored past
the buffer) and `Spec => ImplementsLineShell`, in which a line that filled the buffer
may have any reply and the lines after it are as any other.

The argument. The bound is one on keys pressed, while the handler stores them
later, perhaps after bursts, missed edges and commands. `Room` follows each line
through the FIFO: a letter that waits has its place in the buffer, counted from the
last return in front of it, or from the index if there is none; it holds as long as
no line was as long as the buffer (`Fitting`). `Typed` and
`Answered` say that what is in the buffer is the line the user sees, and that a
command's reply was given for it, on every line that is not `full`.

`ConsoleProofs` proves about `Console` and `Printf`, from `PrintfAssumption` and
`ConsoleAssumption` (a screen of at least one glyph; formats whose arguments are
what their directives read): `CursorOnScreen` and `EndsInBuffer`; and, with the
hypotheses `NoPadding` (`Pitch = Width`, without which `scroll` leaves a part of the
screen behind) and `NoticesPlain` (handlers print in the plain colour, as
`unimplemented_fault` does), `ShowsText`; and, with the hypothesis `NumbersFit` (a
number fits into the digit buffer with its sign, and no precision argument is
negative; the code does otherwise without it, section 4), `FormatsRight`, for every
flag, width, precision, length and value, and any width of the integer types. TLC
evaluates the hypotheses in `MCConsole` (`ScreenAssumption`).

The argument. A handler's message is a whole script, of any length; by induction
over it the cursor ends on the screen (`ScriptOnScreen`). It leaves `kmain`'s
register alone, and `CursorInv` says that what the register holds at a draw or a
store was compared with the screen's end before. For the buffer, every directive
is converted to a text of some length (`TextConvert`, through sign, padding and
prefix in the small buffer of `_ntoa_format`), so by induction over the format
there is a text to write (`TextFormatted`), and by induction over its characters
the buffer holds them up to the limit (`WritesUpto`).

For the screen, the text is kept as all lines ever begun, and `Picture` draws the
last of them. Which glyph a pixel belongs to is a matter of quotients and remainders
(`PixelPlace`, `PixelBelow`); with it, drawing a glyph at the cursor is a change of
the last line (`PicturePut`), a new line in the last row is `scroll`
(`PictureScrolled`) and in any other row changes nothing (`PictureDown`), and `clear`
leaves the picture of an empty text (`PictureCleared`). `Shows` says that the screen
is the picture and the cursor where the text goes on, `Feeds` that only a line feed
is missing. A handler's script, of any length, keeps `Shows` (`ScriptShows`).
`ShowInv` is inductive: until a handler tears something, it says at each place in
`kmain`'s step how much of the step is on the screen, against the text as it will be
when the step is done (`Coming`).

For the numbers, the code divides by the base again and again, and the reference
takes the digit at each place by a power of the base. By induction over the rounds
what is left after `n` of them is the value divided by the `n`-th power
(`LeftsQuotients`), so the digits are those of the reference from the last to the
first (`DigitsWritten`), and the division stops at the reference's number of places
(`PlacesFound`). Precision and zero padding add zeros at the far end of the backward
buffer, which is the front of the number (`BodyWritten`, `ZerosRight`: the place kept
for the sign is not counted twice), then comes the sign (`SignRight`), and `_out_rev`
turns it round and pads with spaces on the side the flags say (`NumberRight`).

`RealTimeClockProofs` proves about `RealTimeClock`, from `ClockAssumption` alone (a
last year within 9999): `BannerRight` and `EpochRight`, for every instant the
clock may start at; with the hypothesis `YearsRead` (the last two digits of the
year are 10 or more, and without a register for the century it is 20) `ShownExact`;
and with `CallsShort` as well (a call takes a day at most and none begins on the
last day of a century) `NotBehind`. Without the hypotheses the code does
otherwise: joined to the century, a year below 10 loses its zero, and a century
read before its last midnight goes with a year read after it. TLC evaluates them
in `MCRealTimeClock` (`CallsAssumption`).

The argument. The calendar counts days from year to year and from month to month;
by induction over the years and the months that count has a closed form
(`YearStarts`, `MonthStarts`), and `get_jdn`, with C's rounding of the negative
quotient, is the same up to a constant (`JulianDays`). Backwards, a year counted
from March is split into its era, century, leap cycle and year (`YearSplit`):
`YearOfEra` finds the year again from the day of the era (`YearFound`), also on the
last day of each of the four, and `MonthFound` the month, so that `ms_to_iso8601`
undoes the count (`DateFound`). The digits of the registers are parsed back
(`DigitsBack`, `JoinedBack`), which gives `ShownExact`. For `NotBehind` the fields
read so far and the clock's others are put together to one time (`Mixed`).
`Progress` says that it has the date of the call and is not before it, or, after
midnight, that its date is the next day's or is mixed of the two from its day up,
in which case hour, minute and second were read before midnight. A second that
passes keeps this (`TickProgress`): the fields it can set back are read before those
that it moves on. A read keeps it (`ReadProgress`), and no mixed date is before the
first day's (`MixedDates`), even one that no month has.

Induction. The provers do not instantiate the library's induction theorems, which
take a predicate. The proofs use sets instead: a set of numbers that holds 0, and
with each number below a bound the next one, holds all of them (`LeastFailure`,
`YearByYear`, from the well-foundedness of `<`). A proof about a loop names the set
of rounds after which all is well. The loops are recursive functions in the models
(`Chunks`, `pages_used`, `YearStart`, the `LET` functions of `Printf` and
`Console`), and that such a function exists is proved the same way, once for each.

Only model-checked: liveness (`CallsReturn`, `BootEnds`, `KeysRead`, `SoundEnds`),
which is out of the prover's reach.

## 6. Not modelled

* The contents of memory other than page tables, so neither what `kcalloc` clears
  and `krealloc` copies; paging-structure caches; the
  interrupt controller's in-service bits except for the serial line; reads of the
  clock during its update.
* `send_ipi`, `write_icr`, `write_lvt_entry`, `write_cmos_reg`, `k_puti`,
  `cursor_goto` and `set_text_bg_colour`, which nothing calls; `k_debug` and the
  floating point of `printf.c`, which are compiled out; the copy of the console on
  the serial line.
* The slant of the banner's line (`print_lowlevel.c:97`), which draws up to 7 pixels
  beside a glyph's square, and the read of `font[c]` before `c` is compared with the
  font's size (`print_lowlevel.c:138`): the model skips such a character.
* An ACPI table that crosses the end of its page: `map_page` is asked for the page of
  its first byte only (`acpi.c:102`), and the rest of it may fault. A table is one
  page in the model.
* The parsing of a format's text into directives.
* `random.c`: a published Mersenne twister whose words only choose a logo.
* Descriptor tables: constant tables written once at boot; what a gate does is
  part of `KernelBoot` and `SerialShell`. CPUID, MSRs and ports: single
  instructions. `string.c`: no state and no caller in the kernel's own code.
* `ap.c`, which nothing calls, and the scheduler, an empty file: the kernel has
  one thread.
* `limine.h`, fonts and logos: third-party declarations and constant data.

## 7. Plan

Done, in this order: heap and its proofs, physical memory, virtual memory, shell,
boot and timers, clock; then ACPI tables with the IO APICs, console with
formatting; then the proofs about boot, the IO APICs, page tables, shell, page
allocator, ACPI arrays, console and formatting, and the clock. Next:

1. Compositions: the heap on top of the page allocator and the page tables; a
   `kmalloc` inside the serial interrupt while `kmain` uses the heap
   (`rtc.c:151`), which today is hidden behind the sleep that never ends.
