--------------------------- MODULE PhysicalMemory ---------------------------
(***************************************************************************)
(* The physical page allocator of kernel/src/memory/physical/pmm.c, over   *)
(* the memory descriptor of kernel/src/memory/memmap.c.                    *)
(*                                                                         *)
(* Pages are numbered densely over the free chunks of the memory map; a    *)
(* table of mappings turns a page number into a physical address and back, *)
(* searched from a cursor (last_used_mapping) that both directions move.   *)
(* Physical addresses are frame numbers: every base and length the boot    *)
(* loader reports for free memory is page aligned.                         *)
(***************************************************************************)
EXTENDS Integers, Sequences, FiniteSets, FiniteSetsExt

CONSTANTS
  PAGE_SIZE,
  MAX_PAGES,
  OneMB,           \* 0x100000 as a frame number
  MemMap,          \* the loader's map: sequence of [free, base, length] in frames
  KernelFrame,     \* physical_base of the kernel, as a frame number
  KernelFrames,    \* frames of the executable file, rounded up
  BitmapFirst,     \* frame page_bitmap starts in
  BitmapLast,      \* last frame setup_pmm reserves for page_bitmap
  Callers          \* who calls pp_alloc and pp_free

NULL == 0
Setup == "setup"   \* setup_pmm itself, as the owner of a page
NoPage == -1       \* (uint64_t)-1, larger than any page number

ASSUME PmmAssumption ==
  /\ PAGE_SIZE \in Nat \ {0} /\ MAX_PAGES \in Nat \ {0, 1} /\ OneMB \in Nat \ {0}
  /\ MemMap \in Seq([free : BOOLEAN, base : Nat, length : Nat \ {0}])
  /\ KernelFrame \in Nat \ {0} /\ KernelFrames \in Nat
  /\ BitmapFirst \in Nat /\ BitmapLast \in Nat
  /\ Setup \notin Callers

VARIABLES
  pc,                 \* where setup_pmm is, or that the kernel runs or stopped
  page_bitmap,        \* numbers of the pages whose bit is set
  last_page_used,
  last_used_mapping,
  free_pages,
  used_pages,
  owned,              \* pages handed out: number, address, and to whom
  lost,               \* history: numbers marked used by an allocation that got NULL
  preset              \* history: numbers whose bit read as set before setup_pmm

vars == <<pc, page_bitmap, last_page_used, last_used_mapping, free_pages, used_pages,
          owned, lost, preset>>

-----------------------------------------------------------------------------
(* The memory descriptor and the mappings.                                 *)

ALIGN_UP(value, align) == ((value + align - 1) \div align) * align

\* Adjacent free entries become one chunk.
AddEntry(chunks, entry) ==
  LET n == Len(chunks)
      bounds == entry.base + entry.length
  IN  IF ~entry.free THEN chunks
      ELSE IF n > 0 /\ chunks[n].bounds = entry.base
      THEN [chunks EXCEPT ![n].bounds = bounds]
      ELSE Append(chunks, [base |-> entry.base, bounds |-> bounds])

\* The chunks after the first i entries of the map.
Chunks[i \in 0 .. Len(MemMap)] == IF i = 0 THEN <<>> ELSE AddEntry(Chunks[i - 1], MemMap[i])

get_memory_descriptor == Chunks[Len(MemMap)]
chunk_count == Len(get_memory_descriptor)

ChunkPages(chunk) == chunk.bounds - chunk.base

\* pages_used after i rounds of generate_page_mapping: every chunk takes one number
\* more than it has pages.
pages_used[i \in 0 .. chunk_count] ==
  IF i = 0 THEN 0 ELSE pages_used[i - 1] + ChunkPages(get_memory_descriptor[i]) + 1

MappingOf(chunk, start) ==
  [offset |-> IF chunk.base > OneMB THEN chunk.base ELSE OneMB,
   page_start_index |-> start,
   page_end_index |-> start + ALIGN_UP(ChunkPages(chunk), PAGE_SIZE)]

generate_page_mapping ==
  [i \in 1 .. chunk_count |-> MappingOf(get_memory_descriptor[i], pages_used[i - 1])]

page_mappings == generate_page_mapping

\* Slip: the search does not start over once it reached the end of the table.
SearchFrom_once(cursor, hits) ==
  LET ahead == {m \in hits : m >= cursor}
  IN  IF ahead # {} THEN Min(ahead) ELSE chunk_count + 1

\* The retry loops of ptr_to_page and page_to_ptr: from the cursor to the end of
\* the table, then once more from its start; the entries past the last chunk are
\* zero and match nothing.  Table indices are the code's, from 0.
SearchFrom(cursor, hits) ==
  LET ahead == {m \in hits : m >= cursor}
  IN  IF ahead # {} THEN Min(ahead) ELSE IF hits # {} THEN Min(hits) ELSE chunk_count + 1

HoldsPage(m, page) ==
  /\ page > page_mappings[m + 1].page_start_index
  /\ page < page_mappings[m + 1].page_end_index

HoldsFrame(m, ptr) ==
  LET mapping == page_mappings[m + 1]
  IN  /\ ptr > mapping.offset
      /\ ptr < mapping.offset + mapping.page_end_index - mapping.page_start_index

\* Both conversions: the cursor afterwards, and the result.

\* Slip: the result is one page too far.
page_to_ptr_shifted(cursor, page) ==
  LET m == SearchFrom(cursor, {n \in 0 .. chunk_count - 1 : HoldsPage(n, page)})
  IN  IF page > MAX_PAGES THEN [cursor |-> cursor, ptr |-> NULL]
      ELSE [cursor |-> m,
            ptr |-> IF m > chunk_count THEN NULL
                    ELSE page_mappings[m + 1].offset + page + 1
                         - page_mappings[m + 1].page_start_index]

page_to_ptr(cursor, page) ==
  LET m == SearchFrom(cursor, {n \in 0 .. chunk_count - 1 : HoldsPage(n, page)})
  IN  IF page > MAX_PAGES THEN [cursor |-> cursor, ptr |-> NULL]
      ELSE [cursor |-> m,
            ptr |-> IF m > chunk_count THEN NULL
                    ELSE page_mappings[m + 1].offset + page
                         - page_mappings[m + 1].page_start_index]

\* Slip: the result is one page too far.
ptr_to_page_shifted(cursor, ptr) ==
  LET m == SearchFrom(cursor, {n \in 0 .. chunk_count - 1 : HoldsFrame(n, ptr)})
  IN  IF ptr = NULL THEN [cursor |-> cursor, page |-> NoPage]
      ELSE [cursor |-> m,
            page |-> IF m > chunk_count THEN NoPage
                     ELSE page_mappings[m + 1].page_start_index + ptr + 1
                          - page_mappings[m + 1].offset]

ptr_to_page(cursor, ptr) ==
  LET m == SearchFrom(cursor, {n \in 0 .. chunk_count - 1 : HoldsFrame(n, ptr)})
  IN  IF ptr = NULL THEN [cursor |-> cursor, page |-> NoPage]
      ELSE [cursor |-> m,
            page |-> IF m > chunk_count THEN NoPage
                     ELSE page_mappings[m + 1].page_start_index + ptr
                          - page_mappings[m + 1].offset]

-----------------------------------------------------------------------------
(* Boot.                                                                   *)

InBitmapRange(first, last) == {i \in first .. last : i <= MAX_PAGES}

KernelPages == InBitmapRange(KernelFrame, KernelFrame + KernelFrames)
BitmapPages == InBitmapRange(BitmapFirst, BitmapLast)

\* The bit of page MAX_PAGES lies past the end of page_bitmap: it reads as
\* whatever is there.
Init ==
  /\ pc = "boot"
  /\ page_bitmap \in {{}, {MAX_PAGES}}
  /\ last_page_used = 1
  /\ last_used_mapping = 0
  /\ free_pages = MAX_PAGES
  /\ used_pages = 0
  /\ owned = {}
  /\ lost = {}
  /\ preset = page_bitmap

\* setup_pmm up to its own pp_alloc: the kernel's pages, then the bitmap's, are
\* marked used by frame number; a page marked before costs one free page more.
setup_pmm ==
  LET again == Cardinality(KernelPages \cap page_bitmap)
               + Cardinality(BitmapPages \cap (KernelPages \cup page_bitmap))
      marked == Cardinality(KernelPages) + Cardinality(BitmapPages)
  IN  /\ pc = "boot"
      /\ pc' = "test_alloc"
      /\ page_bitmap' = page_bitmap \cup KernelPages \cup BitmapPages
      /\ last_page_used' = IF BitmapPages # {} THEN Max(BitmapPages)
                           ELSE IF KernelPages # {} THEN Max(KernelPages)
                           ELSE last_page_used
      /\ free_pages' = pages_used[chunk_count] - marked - again
      /\ used_pages' = used_pages + marked
      /\ UNCHANGED <<last_used_mapping, owned, lost, preset>>

-----------------------------------------------------------------------------
(* Allocation.                                                             *)

page_free(page) == page \notin page_bitmap

\* The page after the last one used, unless that one left the memory below the
\* kernel or the bitmap.
NextPage ==
  IF last_page_used >= KernelFrame \/ last_page_used >= MAX_PAGES
  THEN 2 ELSE last_page_used + 1

\* The first fit of get_free_page, or NoPage when every bit is set.
get_free_page ==
  LET free == {i \in 1 .. MAX_PAGES : page_free(i)}
  IN  IF page_free(NextPage) THEN NextPage
      ELSE IF free # {} THEN Min(free) ELSE NoPage

\* _pp_alloc of the page get_free_page chose, for caller by.
Allocate(page, by) ==
  IF page >= KernelFrame * PAGE_SIZE \/ ~page_free(page)
  THEN /\ last_page_used' = page
       /\ UNCHANGED <<page_bitmap, last_used_mapping, free_pages, used_pages, owned, lost, preset>>
  ELSE LET found == page_to_ptr(last_used_mapping, page)
       IN  /\ page_bitmap' = page_bitmap \cup {page}
           /\ last_page_used' = page
           /\ free_pages' = free_pages - 1
           /\ used_pages' = used_pages + 1
           /\ last_used_mapping' = found.cursor
           /\ IF found.ptr = NULL
              THEN lost' = lost \cup {page} /\ UNCHANGED owned
              ELSE /\ owned' = owned \cup {[page |-> page, ptr |-> found.ptr, by |-> by]}
                   /\ UNCHANGED lost
           /\ UNCHANGED preset

pp_alloc(by) ==
  \/ /\ get_free_page # NoPage
     /\ Allocate(get_free_page, by)
     /\ pc' = "run"
  \/ /\ get_free_page = NoPage
     /\ pc' = "panic"
     /\ last_page_used' = NextPage
     /\ UNCHANGED <<page_bitmap, last_used_mapping, free_pages, used_pages, owned, lost, preset>>

\* The page setup_pmm allocates to try the allocator, and never frees.
TestAlloc == pc = "test_alloc" /\ pp_alloc(Setup)

CallAlloc == pc = "run" /\ \E by \in Callers : pp_alloc(by)

\* set_page(page, FREE).
SetFree(page) ==
  /\ page_bitmap' = page_bitmap \ {page}
  /\ free_pages' = free_pages + 1
  /\ used_pages' = used_pages - 1

\* pp_free of a page its caller owns.
pp_free(o) ==
  LET found == ptr_to_page(last_used_mapping, o.ptr)
  IN  /\ pc = "run"
      /\ o.by # Setup
      /\ last_used_mapping' = found.cursor
      /\ owned' = owned \ {o}
      /\ \/ /\ found.page # NoPage /\ found.page <= MAX_PAGES /\ ~page_free(found.page)
            /\ SetFree(found.page)
         \/ /\ found.page = NoPage \/ found.page > MAX_PAGES \/ page_free(found.page)
            /\ UNCHANGED <<page_bitmap, free_pages, used_pages>>
      /\ UNCHANGED <<pc, last_page_used, lost, preset>>

hcf == pc = "panic" /\ UNCHANGED vars

Next == setup_pmm \/ TestAlloc \/ CallAlloc \/ (\E o \in owned : pp_free(o)) \/ hcf

Spec == Init /\ [][Next]_vars

-----------------------------------------------------------------------------
(* Properties.                                                             *)

Mappings == 0 .. chunk_count - 1

\* The frame that page stands for as a page of mapping m.
FrameIn(m, page) == page_mappings[m + 1].offset + page - page_mappings[m + 1].page_start_index

\* The table of mappings gives the number one frame, and the frame no other number: the
\* rounding of page_end_index and the move of low chunks to 1 MB make mappings overlap
\* elsewhere.  A number in no mapping has no frame to confuse.
Unambiguous(page) ==
  \A m, n \in Mappings :
    HoldsPage(m, page) /\ m # n => ~HoldsPage(n, page) /\ ~HoldsFrame(n, FrameIn(m, page))

\* A number of a page the chunk has: not one that the rounding added, nor one of a chunk
\* that was moved.
Backed(page) ==
  \A m \in Mappings :
    HoldsPage(m, page) =>
      /\ get_memory_descriptor[m + 1].base >= OneMB
      /\ page < page_mappings[m + 1].page_start_index + ChunkPages(get_memory_descriptor[m + 1])

\* A frame the loader reports as free.
FreeFrame(frame) ==
  \E i \in 1 .. Len(MemMap) :
    /\ MemMap[i].free
    /\ frame >= MemMap[i].base /\ frame < MemMap[i].base + MemMap[i].length

ReservedPages == KernelPages \cup BitmapPages

\* The numbers pp_alloc marked.
AllocatedPages == lost \cup {o.page : o \in owned}

\* A frame is handed out to one owner at a time ("if set then used").
NoFrameTwice == \A o, q \in owned : o.ptr = q.ptr => o = q

\* The frame of an unambiguous number has one owner, however the cursor moved and
\* whatever bits the free of an ambiguous one cleared.
OneOwner == \A o, q \in owned : o.ptr = q.ptr /\ Unambiguous(o.page) => o = q

\* pp_alloc hands out frames the memory map reports as free: only the pages that the
\* rounding added and those of moved chunks may be others.
OnlyFreeFrames == \A o \in owned : Backed(o.page) => FreeFrame(o.ptr)

\* The bit of an unambiguous page is set if and only if it was from the start, or
\* setup_pmm or pp_alloc set it: from the address alone and through the cursor pp_free
\* finds the very page pp_alloc marked, and no free of another page clears it.  And
\* used_pages, which the shell's "free" command prints, follows the number of set bits,
\* off by the pages counted for kernel and bitmap both and by a bit set from the start.
BitmapExplained ==
  pc # "boot" =>
    /\ \A page \in 0 .. MAX_PAGES :
         Unambiguous(page) =>
           (page \in page_bitmap <=> page \in preset \cup ReservedPages \cup AllocatedPages)
    /\ used_pages = Cardinality(page_bitmap) + Cardinality(KernelPages \cap BitmapPages)
                    - Cardinality(preset \ ReservedPages)
=============================================================================
