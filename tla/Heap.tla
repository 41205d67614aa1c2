-------------------------------- MODULE Heap --------------------------------
(***************************************************************************)
(* The kernel heap of kernel/src/memory/heap.c: a first-fit allocator over *)
(* a free list kept in address order, with splitting, coalescing and       *)
(* growth by whole pages.                                                  *)
(*                                                                         *)
(* Addresses and sizes are bytes.  A call of kmalloc is not one step: the  *)
(* search, the growth by GrowPages pages, the fallback to one page and the *)
(* search again are steps of their own, so that a growth can fail between  *)
(* them.  The free list is the sequence of blocks the next pointers chain; *)
(* nothing in the model keeps it sorted but the code's own walks.          *)
(*                                                                         *)
(* External: pp_alloc either hands over a frame or returns NULL (a page    *)
(* index without a mapping, see PhysicalMemory) or panics; map_page either *)
(* maps the page or makes heap_grow_pages panic.                           *)
(***************************************************************************)
EXTENDS Integers, Sequences, SequencesExt

CONSTANTS
  HeapStart,         \* KERNEL_HEAP_START
  PAGE_SIZE,
  InitialHeapPages,  \* INITIAL_HEAP_PAGES, 256 in the code
  GrowPages,         \* the 16 of kmalloc's first heap_grow_pages
  SIZE_MAX,          \* largest size_t
  MaxFrames,         \* bound: frames pp_alloc can hand to the heap
  Sizes,             \* the sizes callers ask kmalloc and krealloc for
  CallocArgs,        \* the <<num, size>> pairs callers pass to kcalloc
  ForeignPtrs        \* pointers kmalloc did not return

HEAP_ALIGNMENT == 16
MIN_ALLOC_SIZE == 16   \* sizeof(struct heap_free_block)
header_sz      == 16   \* ALIGN_UP_HEAP(sizeof(size_t))
NULL           == 0

ASSUME HeapAssumption ==
  /\ HeapStart \in Nat /\ HeapStart % HEAP_ALIGNMENT = 0 /\ HeapStart > header_sz
  /\ PAGE_SIZE \in Nat \ {0} /\ PAGE_SIZE % HEAP_ALIGNMENT = 0
  /\ InitialHeapPages \in Nat \ {0} /\ GrowPages \in Nat \ {0}
  /\ SIZE_MAX \in Nat /\ SIZE_MAX > 2 * HEAP_ALIGNMENT
  /\ (SIZE_MAX + 1) % HEAP_ALIGNMENT = 0
  /\ MaxFrames \in Nat
  /\ Sizes \subseteq 0 .. SIZE_MAX
  /\ CallocArgs \subseteq (0 .. SIZE_MAX) \X (0 .. SIZE_MAX)
  /\ ForeignPtrs \subseteq Nat \ {NULL}

VARIABLES
  heap_size,    \* bytes of the heap, from HeapStart on
  free_list,    \* the blocks chained from free_list_head
  live,         \* blocks handed out: address, size word, bytes the caller owns
  pc,           \* where the running call is
  call,         \* its arguments
  taken,        \* frames obtained from pp_alloc
  mapped,       \* pages of heap address space that have a mapping
  short_grow    \* history: some heap_grow_pages gave up half-way

vars == <<heap_size, free_list, live, pc, call, taken, mapped, short_grow>>

Block == [addr : Nat, size : Nat]
LiveBlock == [addr : Nat, size : Nat, req : 0 .. SIZE_MAX]

\* size_t addition of two values whose sum stays below 2 * (SIZE_MAX + 1).
Plus(a, b) == IF a + b > SIZE_MAX THEN a + b - (SIZE_MAX + 1) ELSE a + b

\* Slip: the rounding is forgotten.
ALIGN_UP_HEAP_unaligned(size) == size

ALIGN_UP_HEAP(size) ==
  (Plus(size, HEAP_ALIGNMENT - 1) \div HEAP_ALIGNMENT) * HEAP_ALIGNMENT

\* Slip: the header is not counted.
TotalSize_headerless(size) ==
  IF ALIGN_UP_HEAP(size) < MIN_ALLOC_SIZE THEN MIN_ALLOC_SIZE ELSE ALIGN_UP_HEAP(size)

TotalSize(size) ==
  LET total == Plus(ALIGN_UP_HEAP(size), header_sz)
  IN  IF total < MIN_ALLOC_SIZE THEN MIN_ALLOC_SIZE ELSE total

End(b) == b.addr + b.size

NoCall == [size |-> 0, req |-> 0, old |-> NULL]

-----------------------------------------------------------------------------
(* The free list.                                                          *)

\* Where the walk of kfree and heap_grow_pages stops: every block before k
\* lies below addr, the block at k (if any) does not.
WalkStopsAt(list, addr, k) ==
  /\ \A j \in 1 .. k - 1 : list[j].addr < addr
  /\ k <= Len(list) => list[k].addr >= addr

\* Slip: the successor is unlinked but its size not added.
MergeNext_lossy(list, k) ==
  IF k < Len(list) /\ End(list[k]) = list[k + 1].addr
  THEN RemoveAt(list, k + 1)
  ELSE list

\* Merge the block at k with its successor when they touch.
MergeNext(list, k) ==
  IF k < Len(list) /\ End(list[k]) = list[k + 1].addr
  THEN RemoveAt([list EXCEPT ![k].size = @ + list[k + 1].size], k + 1)
  ELSE list

\* Slip: only the following block is merged.
MergePrevious_none(list, k) == list

\* Merge the block at k into its predecessor when they touch.
MergePrevious(list, k) == IF k > 1 THEN MergeNext(list, k - 1) ELSE list

\* Link a block in at position k, then coalesce with both neighbours.
LinkIn(list, k, blk) ==
  MergePrevious(MergeNext(InsertAt(list, k, blk), k), k)

\* Unlink the first total bytes of the block at i; a block whose rest could
\* not hold a heap_free_block is unlinked whole.
Splits(list, i, total) == list[i].size >= total + MIN_ALLOC_SIZE

\* Slip: the rest of a split block starts one header too early.
TakeFrom_overlapping(list, i, total) ==
  IF Splits(list, i, total)
  THEN [list EXCEPT ![i] = [addr |-> @.addr + total - header_sz,
                            size |-> @.size - total + header_sz]]
  ELSE RemoveAt(list, i)

TakeFrom(list, i, total) ==
  IF Splits(list, i, total)
  THEN [list EXCEPT ![i] = [addr |-> @.addr + total, size |-> @.size - total]]
  ELSE RemoveAt(list, i)

FirstFit(list, i, total) ==
  /\ list[i].size >= total
  /\ \A j \in 1 .. i - 1 : list[j].size < total

-----------------------------------------------------------------------------
(* heap_grow_pages.                                                        *)

HeapPages == heap_size \div PAGE_SIZE

\* n frames were obtained and mapped from the current end of the heap on.
MapPages(n) ==
  /\ taken + n <= MaxFrames
  /\ taken' = taken + n
  /\ mapped' = IF HeapPages + n > mapped THEN HeapPages + n ELSE mapped

\* Every page was mapped: the new region joins the free list.
GrowSucceeds(pages) ==
  LET base == HeapStart + heap_size
      new_block == [addr |-> base, size |-> pages * PAGE_SIZE]
  IN  /\ MapPages(pages)
      /\ \E k \in 1 .. Len(free_list) + 1 :
           /\ WalkStopsAt(free_list, base, k)
           /\ free_list' = LinkIn(free_list, k, new_block)
      /\ heap_size' = heap_size + pages * PAGE_SIZE
      /\ UNCHANGED short_grow

\* Slip: heap_size is advanced before the loop that may give up.
GrowFails_early(pages) ==
  /\ \E n \in 0 .. pages - 1 :
       /\ MapPages(n)
       /\ short_grow' = (short_grow \/ n > 0)
  /\ heap_size' = heap_size + pages * PAGE_SIZE
  /\ UNCHANGED free_list

\* pp_alloc returned NULL for page n: the n pages mapped so far stay mapped,
\* the heap is not extended.
GrowFails(pages) ==
  /\ \E n \in 0 .. pages - 1 :
       /\ MapPages(n)
       /\ short_grow' = (short_grow \/ n > 0)
  /\ UNCHANGED <<heap_size, free_list>>

\* pp_alloc ran out of memory or map_page failed: panic does not return.
GrowPanics ==
  /\ pc \in {"boot", "grow_many", "grow_one"}
  /\ pc' = "panic"
  /\ UNCHANGED <<heap_size, free_list, live, call, taken, mapped, short_grow>>

-----------------------------------------------------------------------------
Init ==
  /\ heap_size = 0
  /\ free_list = <<>>
  /\ live = {}
  /\ pc = "boot"
  /\ call = NoCall
  /\ taken = 0
  /\ mapped = 0
  /\ short_grow = FALSE

\* setup_heap: grow to the initial size, then make the heap one free block.
setup_heap ==
  /\ pc = "boot"
  /\ \/ /\ MapPages(InitialHeapPages)
        /\ heap_size' = InitialHeapPages * PAGE_SIZE
        /\ free_list' = <<[addr |-> HeapStart, size |-> heap_size']>>
        /\ pc' = "idle"
        /\ UNCHANGED short_grow
     \/ /\ GrowFails(InitialHeapPages)
        /\ pc' = "panic"
  /\ UNCHANGED <<live, call>>

\* Enter kmalloc(size) for a caller that needs req bytes; krealloc passes the
\* pointer it will free afterwards.
EnterMalloc(size, req, old) ==
  /\ pc = "idle"
  /\ size > 0
  /\ pc' = "search"
  /\ call' = [size |-> size, req |-> req, old |-> old]

kmalloc(size) ==
  /\ EnterMalloc(size, size, NULL)
  /\ UNCHANGED <<heap_size, free_list, live, taken, mapped, short_grow>>

\* Slip: the overflow test of kcalloc is missing.
CallocOverflows_never(num, size) == FALSE

\* num * size is refused when it does not fit a size_t.
CallocOverflows(num, size) == size # 0 /\ num > SIZE_MAX \div size

kcalloc(num, size) ==
  /\ ~CallocOverflows(num, size)
  /\ EnterMalloc((num * size) % (SIZE_MAX + 1), num * size, NULL)
  /\ UNCHANGED <<heap_size, free_list, live, taken, mapped, short_grow>>

\* The search of kmalloc finds a block: it is unlinked (or split) and its size
\* word written.  A krealloc that waited for it has its old block left to free.
SearchHits ==
  /\ pc = "search"
  /\ \E i \in 1 .. Len(free_list) :
       LET total == TotalSize(call.size)
           size  == IF Splits(free_list, i, total) THEN total ELSE free_list[i].size
       IN  /\ FirstFit(free_list, i, total)
           /\ free_list' = TakeFrom(free_list, i, total)
           /\ live' = live \cup
                {[addr |-> free_list[i].addr, size |-> size, req |-> call.req]}
  /\ IF call.old = NULL
     THEN pc' = "idle" /\ call' = NoCall
     ELSE pc' = "free_old" /\ UNCHANGED call
  /\ UNCHANGED <<heap_size, taken, mapped, short_grow>>

SearchMisses ==
  /\ pc = "search"
  /\ \A i \in 1 .. Len(free_list) : free_list[i].size < TotalSize(call.size)
  /\ pc' = "grow_many"
  /\ UNCHANGED <<heap_size, free_list, live, call, taken, mapped, short_grow>>

\* if (!heap_grow_pages(16)) ... and back to retry_search when it succeeds.
GrowMany ==
  /\ pc = "grow_many"
  /\ \/ GrowSucceeds(GrowPages) /\ pc' = "search"
     \/ GrowFails(GrowPages) /\ pc' = "grow_one"
  /\ UNCHANGED <<live, call>>

\* Slip: the search is retried when even one page could not be had.
GrowOne_retries ==
  /\ pc = "grow_one"
  /\ \/ GrowSucceeds(1)
     \/ GrowFails(1)
  /\ pc' = "search"
  /\ UNCHANGED <<live, call>>

\* if (!heap_grow_pages(1)): when this fails too, kmalloc returns NULL, and a
\* krealloc leaves its old block alone.
GrowOne ==
  /\ pc = "grow_one"
  /\ \/ GrowSucceeds(1) /\ pc' = "search" /\ UNCHANGED call
     \/ GrowFails(1) /\ pc' = "idle" /\ call' = NoCall
  /\ UNCHANGED live

\* The three checks of kfree.
KfreeAccepts(start, size) ==
  /\ start >= HeapStart /\ start < HeapStart + heap_size
  /\ size >= MIN_ALLOC_SIZE
  /\ start % HEAP_ALIGNMENT = 0

\* kfree of a pointer kmalloc returned: link its block in and merge, or panic.
FreeBlock(b) ==
  \/ /\ KfreeAccepts(b.addr, b.size)
     /\ \E k \in 1 .. Len(free_list) + 1 :
          /\ WalkStopsAt(free_list, b.addr, k)
          /\ free_list' = LinkIn(free_list, k, [addr |-> b.addr, size |-> b.size])
     /\ live' = live \ {b}
     /\ pc' = "idle"
  \/ /\ ~KfreeAccepts(b.addr, b.size)
     /\ pc' = "panic"
     /\ UNCHANGED <<free_list, live>>

kfree(b) ==
  /\ pc = "idle"
  /\ FreeBlock(b)
  /\ UNCHANGED <<heap_size, call, taken, mapped, short_grow>>

\* The tail of krealloc: the contents are copied and the old block freed.
FreeOld ==
  /\ pc = "free_old"
  /\ \E b \in live : call.old = b.addr + header_sz /\ FreeBlock(b)
  /\ call' = NoCall
  /\ UNCHANGED <<heap_size, taken, mapped, short_grow>>

\* kfree of a pointer that is not the heap's, whatever its size word reads.
kfree_foreign(ptr) ==
  /\ pc = "idle"
  /\ ~KfreeAccepts(ptr - header_sz, MIN_ALLOC_SIZE)
  /\ pc' = "panic"
  /\ UNCHANGED <<heap_size, free_list, live, call, taken, mapped, short_grow>>

\* Slip: the block is compared with its header counted as payload.
krealloc_header(b, new_size) ==
  /\ pc = "idle"
  /\ new_size > 0
  /\ \/ /\ new_size <= b.size
        /\ live' = (live \ {b}) \cup {[b EXCEPT !.req = new_size]}
        /\ UNCHANGED <<pc, call>>
     \/ /\ new_size > b.size
        /\ EnterMalloc(new_size, new_size, b.addr + header_sz)
        /\ UNCHANGED live
  /\ UNCHANGED <<heap_size, free_list, taken, mapped, short_grow>>

\* krealloc(NULL, n) is kmalloc(n) and krealloc(p, 0) is kfree(p), both above.
krealloc(b, new_size) ==
  /\ pc = "idle"
  /\ new_size > 0
  /\ \/ /\ new_size <= b.size - header_sz
        /\ live' = (live \ {b}) \cup {[b EXCEPT !.req = new_size]}
        /\ UNCHANGED <<pc, call>>
     \/ /\ new_size > b.size - header_sz
        /\ EnterMalloc(new_size, new_size, b.addr + header_sz)
        /\ UNCHANGED live
  /\ UNCHANGED <<heap_size, free_list, taken, mapped, short_grow>>

\* The machine stops in hcf().
hcf == pc = "panic" /\ UNCHANGED vars

MallocStep ==
  SearchHits \/ SearchMisses \/ GrowMany \/ GrowOne \/ GrowPanics \/ FreeOld

Next ==
  \/ setup_heap
  \/ \E size \in Sizes : kmalloc(size)
  \/ \E args \in CallocArgs : kcalloc(args[1], args[2])
  \/ MallocStep
  \/ \E b \in live : kfree(b)
  \/ \E ptr \in ForeignPtrs : kfree_foreign(ptr)
  \/ \E b \in live, new_size \in Sizes : krealloc(b, new_size)
  \/ hcf

Spec == Init /\ [][Next]_vars

\* A call in progress runs on: the kernel has one thread and no other caller.
FairSpec == Spec /\ WF_vars(MallocStep)

-----------------------------------------------------------------------------
(* Properties.                                                             *)

\* Type invariant; in particular no request beyond a size_t is ever granted,
\* kcalloc's product included.
TypeOK ==
  /\ heap_size \in Nat
  /\ free_list \in Seq(Block)
  /\ live \subseteq LiveBlock
  /\ pc \in {"boot", "idle", "search", "grow_many", "grow_one", "free_old", "panic"}
  /\ call \in [size : 0 .. SIZE_MAX, req : 0 .. SIZE_MAX, old : Nat]
  /\ taken \in Nat
  /\ mapped \in Nat
  /\ short_grow \in BOOLEAN

\* The free list is in address order and no two of its blocks touch: the walks
\* of kfree and heap_grow_pages insert at the right place and merge both ways,
\* whatever kmalloc split or unlinked in between.
FreeListCoalesced ==
  \A i, j \in 1 .. Len(free_list) :
    i < j => End(free_list[i]) < free_list[j].addr

Apart(b, c) == End(b) <= c.addr \/ End(c) <= b.addr

\* No byte is owned twice: two blocks handed out never overlap, and none
\* overlaps a block still on the free list.
BlocksDisjoint ==
  /\ \A b, c \in live : b # c => Apart(b, c)
  /\ \A b \in live, i \in 1 .. Len(free_list) : Apart(b, free_list[i])

Holds(b, p) == b.addr <= p /\ p < End(b)

\* No byte of the heap is lost: splitting, unlinking whole and merging leave
\* every byte between heap_start and heap_start + heap_size in some block.
NoLostMemory ==
  pc # "boot" =>
    \A p \in HeapStart .. HeapStart + heap_size - 1 :
      \/ \E b \in live : Holds(b, p)
      \/ \E i \in 1 .. Len(free_list) : Holds(free_list[i], p)

\* kfree's sanity checks never reject a pointer kmalloc handed out: a block in
\* use lies in the heap, is aligned and holds at least a heap_free_block.
LiveBlocksFreeable == \A b \in live : KfreeAccepts(b.addr, b.size)

\* The sizes for which kmalloc's arithmetic does not wrap.
Representable(size) == size <= SIZE_MAX - HEAP_ALIGNMENT - header_sz + 1

\* A caller got at least the bytes it asked for: through ALIGN_UP_HEAP, the
\* split, kcalloc's product and krealloc's in-place answer.
PayloadFits ==
  \A b \in live : Representable(b.req) => b.req <= b.size - header_sz

\* The heap only spans mapped pages, also after a growth that failed half-way
\* and was retried with one page over the same addresses; and only such a growth
\* loses frames: without one the frames taken, the pages mapped and the pages of
\* the heap agree.
HeapBacked ==
  /\ heap_size <= mapped * PAGE_SIZE
  /\ ~short_grow => taken = mapped /\ mapped * PAGE_SIZE = heap_size

A == INSTANCE Allocator WITH
  Alignment <- HEAP_ALIGNMENT,
  Header    <- header_sz,
  Largest   <- SIZE_MAX - HEAP_ALIGNMENT - header_sz + 1,
  owned     <- live

\* The heap implements the allocator its callers rely on: kmalloc, kcalloc and
\* the two halves of a moving krealloc grant and release whole blocks, and no
\* search, split, growth or merge moves, resizes or drops a block in use.
ImplementsAllocator == A!Spec

\* kmalloc, kcalloc and krealloc return (or the machine stops): the retry_search
\* loop cannot go round for ever.
CallsReturn == pc \in {"search", "grow_many", "grow_one", "free_old"} ~> pc \in {"idle", "panic"}

=============================================================================
