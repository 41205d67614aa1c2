------------------------ MODULE PhysicalMemoryProofs ------------------------
(***************************************************************************)
(* Proofs about PhysicalMemory, for every memory map, whether or not the   *)
(* rounding of page_end_index and the move of low chunks make its mappings *)
(* overlap: the frame of an unambiguous page has one owner and its bit     *)
(* says so, and the frame of a page the chunk has is free memory.          *)
(*                                                                         *)
(* get_memory_descriptor and generate_page_mapping are loops over the      *)
(* loader's map; what they compute is proved by taking the least round     *)
(* that goes wrong (LeastFailure).  A search may hit several mappings, and *)
(* which one it takes depends on the cursor; but whatever it takes, the    *)
(* page and the frame are those of one mapping, so a free that clears the  *)
(* bit of an unambiguous page is the free of that very page (SameFrame).   *)
(***************************************************************************)
EXTENDS PhysicalMemory, FiniteSetTheorems, SequenceTheorems,
        WellFoundedInduction, TLAPS

-----------------------------------------------------------------------------
(* Induction over the rounds of a loop.  The provers do not instantiate a  *)
(* predicate, so it is over the set of rounds after which all is well.     *)

\* A set of numbers has a least element.
LEMMA Least ==
  ASSUME NEW T \in SUBSET Nat, T # {}
  PROVE  \E n \in T : \A m \in T : n <= m
<1>1. PICK x \in T : \A y \in T : <<y, x>> \notin OpToRel(<, Nat)
  BY WFMin, NatLessThanWellFounded, Zenon
<1>2. OpToRel(<, Nat) = {p \in Nat \X Nat : p[1] < p[2]}
  BY Zenon DEF OpToRel
<1>3. \A y \in T : ~(y < x)
  BY <1>1, <1>2
<1> QED BY <1>3

\* A set of numbers with a bound has a greatest element, which Max chooses.
LEMMA Greatest ==
  ASSUME NEW n \in Nat, NEW T \in SUBSET (0 .. n), T # {}
  PROVE  Max(T) \in Nat
<1> DEFINE D == {d \in 0 .. n : n - d \in T}
<1>1. D \in SUBSET Nat /\ D # {}
  <2>1. PICK t \in T : TRUE
    OBVIOUS
  <2>2. n - t \in 0 .. n /\ n - (n - t) = t
    OBVIOUS
  <2>3. n - t \in D
    BY <2>2
  <2> QED BY <2>3
<1>2. PICK d \in D : \A c \in D : d <= c
  <2> HIDE DEF D
  <2> QED BY <1>1, Least
<1>3. \A y \in T : n - d >= y
  <2> TAKE y \in T
  <2>1. n - y \in 0 .. n /\ n - (n - y) = y
    OBVIOUS
  <2>2. n - y \in D
    BY <2>1
  <2>3. d <= n - y
    BY <1>2, <2>2
  <2> QED BY <2>3
<1>4. n - d \in T
  OBVIOUS
<1>5. \E x \in T : \A y \in T : x >= y
  BY <1>3, <1>4
<1>6. Max(T) \in T
  BY <1>5 DEF Max
<1>7. T \subseteq Nat
  OBVIOUS
<1> HIDE DEF Max
<1> QED BY <1>6, <1>7

\* The set of counterexamples below a bound has a least one, which is not 0 when 0 is
\* none, so that its predecessor is no counterexample.
LEMMA LeastFailure ==
  ASSUME NEW n \in Nat, NEW Good \in SUBSET (0 .. n), 0 \in Good,
         \A i \in 1 .. n : i - 1 \in Good => i \in Good
  PROVE  \A i \in 0 .. n : i \in Good
<1> DEFINE Bad == (0 .. n) \ Good
<1> SUFFICES ASSUME Bad # {} PROVE FALSE
  OBVIOUS
<1>1. PICK k \in Bad : \A m \in Bad : k <= m
  <2> Bad \in SUBSET Nat
    OBVIOUS
  <2> HIDE DEF Bad
  <2> QED BY Least
<1>2. k \in 1 .. n /\ k - 1 \in 0 .. n
  OBVIOUS
<1>3. k - 1 \in Good
  BY <1>1, <1>2
<1> QED BY <1>2, <1>3

-----------------------------------------------------------------------------
(* The chunks.                                                             *)

\* The loop of get_memory_descriptor runs through the whole map.
LEMMA ChunksDef ==
  Chunks = [i \in 0 .. Len(MemMap) |-> IF i = 0 THEN <<>> ELSE AddEntry(Chunks[i - 1], MemMap[i])]
<1> DEFINE n == Len(MemMap)
           Upto(f, k) == f = [i \in 0 .. k |-> IF i = 0 THEN <<>> ELSE AddEntry(f[i - 1], MemMap[i])]
           Good == {k \in 0 .. n : \E f : Upto(f, k)}
<1>1. n \in Nat
  BY PmmAssumption
<1>2. 0 \in Good
  <2>1. Upto([i \in 0 .. 0 |-> <<>>], 0)
    OBVIOUS
  <2> HIDE DEF Upto
  <2> QED BY <1>1, <2>1
<1>3. ASSUME NEW k \in 1 .. n, k - 1 \in Good PROVE k \in Good
  <2>1. PICK f : Upto(f, k - 1)
    BY <1>3
  <2> DEFINE g == [i \in 0 .. k |-> IF i = k THEN AddEntry(f[k - 1], MemMap[k]) ELSE f[i]]
  <2>2. \A i \in 0 .. k : g[i] = IF i = 0 THEN <<>> ELSE AddEntry(g[i - 1], MemMap[i])
    <3> TAKE i \in 0 .. k
    <3>1. CASE i = k
      <4>1. g[i] = AddEntry(f[k - 1], MemMap[k]) /\ g[k - 1] = f[k - 1] /\ i # 0
        BY <3>1
      <4> QED BY <3>1, <4>1
    <3>2. CASE i # k
      <4>1. i \in 0 .. k - 1 /\ (i # 0 => i - 1 \in 0 .. k - 1)
        BY <3>2
      <4>2. g[i] = f[i] /\ (i # 0 => g[i - 1] = f[i - 1])
        BY <4>1
      <4>3. f[i] = IF i = 0 THEN <<>> ELSE AddEntry(f[i - 1], MemMap[i])
        BY <2>1, <4>1
      <4> QED BY <4>2, <4>3
    <3> QED BY <3>1, <3>2
  <2>3. Upto(g, k)
    <3>1. g = [i \in 0 .. k |-> g[i]]
      OBVIOUS
    <3> HIDE DEF g
    <3> QED BY <2>2, <3>1
  <2> HIDE DEF g, Upto
  <2> QED BY <2>3
<1> HIDE DEF Upto
<1>4. \E f : Upto(f, n)
  <2>1. Good \in SUBSET (0 .. n)
    OBVIOUS
  <2>2. (\A k \in 0 .. n : k \in Good) => \E f : Upto(f, n)
    BY <1>1
  <2> HIDE DEF Good, n
  <2> QED BY <1>1, <1>2, <1>3, <2>1, <2>2, LeastFailure
<1> QED BY <1>4 DEF Upto, Chunks

Chunk == [base : Nat, bounds : Nat]
Entry == [free : BOOLEAN, base : Nat, length : Nat \ {0}]

\* Chunks that hold free frames only.
Sound(chunks) ==
  /\ chunks \in Seq(Chunk)
  /\ \A k \in 1 .. Len(chunks) : chunks[k].base < chunks[k].bounds
  /\ \A k \in 1 .. Len(chunks), frame \in Nat :
       frame >= chunks[k].base /\ frame < chunks[k].bounds => FreeFrame(frame)

\* One entry of the map: a new chunk, a longer one or none.
LEMMA EntryAdded ==
  ASSUME NEW chunks, Sound(chunks), NEW i \in 1 .. Len(MemMap)
  PROVE  Sound(AddEntry(chunks, MemMap[i]))
<1> DEFINE n == Len(chunks)
           e == MemMap[i]
           bounds == e.base + e.length
<1>1. /\ n \in Nat /\ e.base \in Nat /\ e.length \in Nat /\ e.length > 0 /\ Len(MemMap) \in Nat
      /\ \A j \in 1 .. Len(MemMap) : MemMap[j].base \in Nat
      /\ bounds \in Nat /\ e.base < bounds
  <2>1. Len(MemMap) \in Nat
        /\ \A j \in 1 .. Len(MemMap) : MemMap[j] \in Entry
    <3>1. MemMap \in Seq(Entry)
      BY PmmAssumption DEF Entry
    <3> QED BY <3>1
  <2>2. n \in Nat
    BY DEF Sound
  <2>3. \A j \in 1 .. Len(MemMap) :
          MemMap[j].base \in Nat /\ MemMap[j].length \in Nat /\ MemMap[j].length > 0
    BY <2>1 DEF Entry
  <2> QED BY <2>1, <2>2, <2>3
<1>3. e.free => \A frame \in Nat : frame >= e.base /\ frame < bounds => FreeFrame(frame)
  BY DEF FreeFrame
<1>4. CASE ~e.free
  BY <1>4 DEF AddEntry
<1>5. CASE e.free /\ n > 0 /\ chunks[n].bounds = e.base
  <2> DEFINE c == [chunks EXCEPT ![n].bounds = bounds]
  <2>1. AddEntry(chunks, e) = c
    BY <1>5 DEF AddEntry
  <2>2. /\ c \in Seq(Chunk) /\ Len(c) = n
        /\ \A k \in 1 .. n : c[k].base = chunks[k].base
                             /\ c[k].bounds = IF k = n THEN bounds ELSE chunks[k].bounds
    <3>1. chunks \in Seq(Chunk) /\ n \in 1 .. n
      BY <1>1, <1>5 DEF Sound
    <3>2. \A k \in 1 .. n : chunks[k] \in Chunk
      BY <3>1
    <3>4. c[n].base = chunks[n].base /\ c[n].bounds = bounds /\ c[n] \in Chunk
      <4>1. chunks[n] \in Chunk
        BY <3>1, <3>2
      <4>2. c[n] = [chunks[n] EXCEPT !.bounds = bounds]
        BY <3>1
      <4> HIDE DEF c
      <4> QED BY <1>1, <4>1, <4>2 DEF Chunk
    <3>3. c \in [1 .. n -> Chunk]
      BY <3>1, <3>2, <3>4
    <3>5. \A k \in 1 .. n : k # n => c[k] = chunks[k]
      BY <3>1
    <3>6. c \in Seq(Chunk) /\ Len(c) = n
      <4> HIDE DEF c, n
      <4> QED BY <1>1, <3>3
    <3> HIDE DEF c
    <3> QED BY <3>4, <3>5, <3>6
  <2> HIDE DEF c
  <2>3. ASSUME NEW k \in 1 .. n PROVE c[k].base < c[k].bounds
    <3>1. chunks[k].base < chunks[k].bounds /\ chunks[k] \in Chunk
      BY DEF Sound
    <3>2. chunks[k].base \in Nat /\ chunks[k].bounds \in Nat
      BY <3>1 DEF Chunk
    <3> QED BY <1>1, <1>5, <2>2, <3>1, <3>2
  <2>5. ASSUME NEW k \in 1 .. n, NEW frame \in Nat, frame >= c[k].base, frame < c[k].bounds
        PROVE  FreeFrame(frame)
    <3>1. CASE k # n \/ frame < e.base
      BY <1>5, <2>2, <2>5, <3>1 DEF Sound
    <3>2. CASE k = n /\ frame >= e.base
      BY <1>1, <1>3, <1>5, <2>2, <2>5, <3>2
    <3> QED BY <1>1, <3>1, <3>2
  <2> QED BY <2>1, <2>2, <2>3, <2>5 DEF Sound
<1>6. CASE e.free /\ ~(n > 0 /\ chunks[n].bounds = e.base)
  <2> DEFINE new == [base |-> e.base, bounds |-> bounds]
             c == Append(chunks, new)
  <2>1. AddEntry(chunks, e) = c
    BY <1>6 DEF AddEntry
  <2>2. /\ c \in Seq(Chunk) /\ Len(c) = n + 1 /\ c[n + 1] = new
        /\ \A k \in 1 .. n : c[k] = chunks[k]
    <3>1. new \in Chunk
      BY <1>1 DEF Chunk
    <3>2. chunks \in Seq(Chunk)
      BY DEF Sound
    <3> HIDE DEF new
    <3> QED BY <3>1, <3>2
  <2>3. new.base = e.base /\ new.bounds = bounds
    OBVIOUS
  <2>4. \A k \in 1 .. n + 1 : k \in 1 .. n \/ k = n + 1
    BY <1>1
  <2> HIDE DEF c, new
  <2>5. \A k \in 1 .. n + 1 : c[k].base < c[k].bounds
    BY <1>1, <2>2, <2>3, <2>4 DEF Sound
  <2>7. \A k \in 1 .. n + 1, frame \in Nat :
          frame >= c[k].base /\ frame < c[k].bounds => FreeFrame(frame)
    BY <1>3, <1>6, <2>2, <2>3, <2>4 DEF Sound
  <2> QED BY <2>1, <2>2, <2>5, <2>7 DEF Sound
<1> QED BY <1>4, <1>5, <1>6

\* The chunks come out as free memory.
LEMMA DescriptorSound == Sound(get_memory_descriptor)
<1> DEFINE n == Len(MemMap)
           Good == {i \in 0 .. n : Sound(Chunks[i])}
<1>1. n \in Nat
  BY PmmAssumption
<1>2. /\ Chunks[0] = <<>>
      /\ \A i \in 1 .. n : i - 1 \in 0 .. n /\ Chunks[i] = AddEntry(Chunks[i - 1], MemMap[i])
  <2>1. \A i \in 0 .. n : Chunks[i] = IF i = 0 THEN <<>> ELSE AddEntry(Chunks[i - 1], MemMap[i])
    BY ChunksDef, Zenon
  <2>2. 0 \in 0 .. n /\ \A i \in 1 .. n : i - 1 \in 0 .. n /\ i \in 0 .. n /\ i # 0
    BY <1>1
  <2> QED BY <2>1, <2>2
<1>3. 0 \in Good
  <2>1. Sound(<<>>)
    BY DEF Sound
  <2> QED BY <1>1, <1>2, <2>1
<1>4. ASSUME NEW i \in 1 .. n, i - 1 \in Good PROVE i \in Good
  <2>1. Sound(Chunks[i - 1])
    BY <1>4
  <2> QED BY <1>2, <2>1, EntryAdded
<1>5. Good \in SUBSET (0 .. n)
  OBVIOUS
<1>6. n \in Good => Sound(get_memory_descriptor)
  BY DEF get_memory_descriptor
<1> HIDE DEF Good, n
<1> QED BY <1>1, <1>3, <1>4, <1>5, <1>6, LeastFailure

-----------------------------------------------------------------------------
(* The mappings.                                                           *)

\* The count of pages in front of each chunk.
LEMMA PagesUsedDef ==
  pages_used = [i \in 0 .. chunk_count |->
    IF i = 0 THEN 0 ELSE pages_used[i - 1] + ChunkPages(get_memory_descriptor[i]) + 1]
<1> DEFINE n == chunk_count
           More(x, i) == x + ChunkPages(get_memory_descriptor[i]) + 1
           Upto(f, k) == f = [i \in 0 .. k |-> IF i = 0 THEN 0 ELSE More(f[i - 1], i)]
           Good == {k \in 0 .. n : \E f : Upto(f, k)}
<1>1. n \in Nat
  BY DescriptorSound DEF Sound, chunk_count
<1> HIDE DEF More
<1>2. 0 \in Good
  <2>1. Upto([i \in 0 .. 0 |-> 0], 0)
    OBVIOUS
  <2> HIDE DEF Upto
  <2> QED BY <1>1, <2>1
<1>3. ASSUME NEW k \in 1 .. n, k - 1 \in Good PROVE k \in Good
  <2>1. PICK f : Upto(f, k - 1)
    BY <1>3
  <2> DEFINE g == [i \in 0 .. k |-> IF i = k THEN More(f[k - 1], k) ELSE f[i]]
  <2>2. \A i \in 0 .. k : g[i] = IF i = 0 THEN 0 ELSE More(g[i - 1], i)
    <3> TAKE i \in 0 .. k
    <3>1. CASE i = k
      <4>1. g[i] = More(f[k - 1], k) /\ g[k - 1] = f[k - 1] /\ i # 0
        BY <3>1
      <4> QED BY <3>1, <4>1
    <3>2. CASE i # k
      <4>1. i \in 0 .. k - 1 /\ (i # 0 => i - 1 \in 0 .. k - 1)
        BY <3>2
      <4>2. g[i] = f[i] /\ (i # 0 => g[i - 1] = f[i - 1])
        BY <4>1
      <4>3. f[i] = IF i = 0 THEN 0 ELSE More(f[i - 1], i)
        BY <2>1, <4>1
      <4> QED BY <4>2, <4>3
    <3> QED BY <3>1, <3>2
  <2>3. Upto(g, k)
    <3>1. g = [i \in 0 .. k |-> g[i]]
      OBVIOUS
    <3> HIDE DEF g
    <3> QED BY <2>2, <3>1
  <2> HIDE DEF g, Upto
  <2> QED BY <2>3
<1> HIDE DEF Upto
<1>4. \E f : Upto(f, n)
  <2>1. Good \in SUBSET (0 .. n)
    OBVIOUS
  <2>2. (\A k \in 0 .. n : k \in Good) => \E f : Upto(f, n)
    BY <1>1
  <2> HIDE DEF Good, n
  <2> QED BY <1>1, <1>2, <1>3, <2>1, <2>2, LeastFailure
<1> QED BY <1>4 DEF Upto, More, pages_used

\* The chunk that mapping m describes, in the code's numbering from 0.
ChunkOf(m) == get_memory_descriptor[m + 1]

\* Each chunk has pages, and is counted from the ones in front of it.
LEMMA ChunkFacts ==
  /\ chunk_count \in Nat
  /\ \A m \in 0 .. chunk_count - 1 :
       /\ ChunkOf(m).base \in Nat /\ ChunkOf(m).bounds \in Nat
       /\ ChunkPages(ChunkOf(m)) \in Nat /\ ChunkOf(m).base < ChunkOf(m).bounds
       /\ pages_used[m + 1] = pages_used[m] + ChunkPages(ChunkOf(m)) + 1
  /\ pages_used[0] = 0
<1>1. Sound(get_memory_descriptor)
  BY DescriptorSound
<1>2. chunk_count \in Nat
  BY <1>1 DEF Sound, chunk_count
<1>3. \A i \in 0 .. chunk_count : pages_used[i] =
        IF i = 0 THEN 0 ELSE pages_used[i - 1] + ChunkPages(get_memory_descriptor[i]) + 1
  BY PagesUsedDef, Zenon
<1>4. ASSUME NEW m \in 0 .. chunk_count - 1
      PROVE  /\ ChunkOf(m).base \in Nat /\ ChunkOf(m).bounds \in Nat
             /\ ChunkPages(ChunkOf(m)) \in Nat /\ ChunkOf(m).base < ChunkOf(m).bounds
             /\ pages_used[m + 1] = pages_used[m] + ChunkPages(ChunkOf(m)) + 1
  <2>1. m + 1 \in 1 .. chunk_count /\ m + 1 \in 0 .. chunk_count /\ m + 1 # 0 /\ (m + 1) - 1 = m
    BY <1>2
  <2>2. ChunkOf(m) \in Chunk /\ ChunkOf(m).base < ChunkOf(m).bounds
    BY <1>1, <2>1 DEF Sound, chunk_count, ChunkOf
  <2>3. ChunkOf(m).base \in Nat /\ ChunkOf(m).bounds \in Nat
    BY <2>2 DEF Chunk
  <2>4. ChunkPages(ChunkOf(m)) \in Nat
    BY <2>2, <2>3 DEF ChunkPages
  <2>5. pages_used[m + 1] = pages_used[(m + 1) - 1] + ChunkPages(ChunkOf(m)) + 1
    BY <1>3, <2>1 DEF ChunkOf
  <2> QED BY <2>1, <2>2, <2>3, <2>4, <2>5
<1>5. pages_used[0] = 0
  BY <1>2, <1>3
<1> QED BY <1>2, <1>4, <1>5

\* The numbers of a chunk begin with a number.
LEMMA PagesCounted == \A k \in 0 .. chunk_count : pages_used[k] \in Nat
<1> DEFINE n == chunk_count
           Good == {k \in 0 .. n : pages_used[k] \in Nat}
<1>1. n \in Nat /\ pages_used[0] = 0
  BY ChunkFacts
<1>2. 0 \in Good
  BY <1>1
<1>3. ASSUME NEW k \in 1 .. n, k - 1 \in Good PROVE k \in Good
  <2>1. k - 1 \in 0 .. n - 1 /\ (k - 1) + 1 = k
    BY <1>1
  <2>2. pages_used[(k - 1) + 1] = pages_used[k - 1] + ChunkPages(ChunkOf(k - 1)) + 1
        /\ ChunkPages(ChunkOf(k - 1)) \in Nat
    BY <2>1, ChunkFacts
  <2> QED BY <1>3, <2>1, <2>2
<1>4. Good \in SUBSET (0 .. n)
  OBVIOUS
<1>5. (\A k \in 0 .. n : k \in Good) => \A k \in 0 .. n : pages_used[k] \in Nat
  OBVIOUS
<1> HIDE DEF Good, n
<1> QED BY <1>1, <1>2, <1>3, <1>4, <1>5, LeastFailure DEF n

Offset(m) == page_mappings[m + 1].offset
Start(m) == page_mappings[m + 1].page_start_index
End(m) == page_mappings[m + 1].page_end_index

\* What the table says of a chunk: it begins where the chunk does, or at 1 MB.
LEMMA MappingFacts ==
  ASSUME NEW m \in Mappings
  PROVE  /\ Offset(m) \in Nat /\ Offset(m) > 0 /\ Start(m) \in Nat /\ End(m) \in Int
         /\ ChunkOf(m).base >= OneMB => Offset(m) = ChunkOf(m).base
<1>1. /\ chunk_count \in Nat /\ ChunkOf(m).base \in Nat /\ OneMB \in Nat /\ OneMB > 0
      /\ PAGE_SIZE \in Nat \ {0} /\ ChunkPages(ChunkOf(m)) \in Nat
  BY ChunkFacts, PmmAssumption DEF Mappings
<1>2. m + 1 \in 1 .. chunk_count /\ (m + 1) - 1 = m /\ m \in 0 .. chunk_count
  BY <1>1 DEF Mappings
<1>3. page_mappings[m + 1] = MappingOf(get_memory_descriptor[m + 1], pages_used[(m + 1) - 1])
  BY <1>2 DEF page_mappings, generate_page_mapping
<1>4. page_mappings[m + 1] = MappingOf(ChunkOf(m), pages_used[m])
  BY <1>2, <1>3 DEF ChunkOf
<1>5. pages_used[m] \in Nat
  BY <1>2, PagesCounted
<1>6. ALIGN_UP(ChunkPages(ChunkOf(m)), PAGE_SIZE) \in Int
  <2>1. (ChunkPages(ChunkOf(m)) + PAGE_SIZE - 1) \div PAGE_SIZE \in Int
    BY <1>1
  <2> QED BY <1>1, <2>1 DEF ALIGN_UP
<1>7. /\ Offset(m) = IF ChunkOf(m).base > OneMB THEN ChunkOf(m).base ELSE OneMB
      /\ Start(m) = pages_used[m]
      /\ End(m) = pages_used[m] + ALIGN_UP(ChunkPages(ChunkOf(m)), PAGE_SIZE)
  BY <1>4 DEF MappingOf, Offset, Start, End
<1> HIDE DEF ALIGN_UP
<1>8. End(m) \in Int
  BY <1>5, <1>6, <1>7
<1> QED BY <1>1, <1>5, <1>7, <1>8

\* The comparisons of the two conversions, in plain terms.
LEMMA Holds ==
  ASSUME NEW m \in Mappings, NEW x \in Int
  PROVE  /\ HoldsPage(m, x) <=> x > Start(m) /\ x < End(m)
         /\ HoldsFrame(m, x) <=> x > Offset(m) /\ x < Offset(m) + End(m) - Start(m)
         /\ FrameIn(m, x) = Offset(m) + x - Start(m)
BY DEF HoldsPage, HoldsFrame, FrameIn, Offset, Start, End

\* A page of a mapping has a frame of the mapping, and back.
LEMMA FrameOfPage ==
  ASSUME NEW m \in Mappings, NEW page \in Int, HoldsPage(m, page)
  PROVE  /\ page \in Nat /\ page > 0
         /\ FrameIn(m, page) \in Nat /\ FrameIn(m, page) > 0
         /\ HoldsFrame(m, FrameIn(m, page))
         /\ page = Start(m) + FrameIn(m, page) - Offset(m)
<1>1. Offset(m) \in Nat /\ Offset(m) > 0 /\ Start(m) \in Nat /\ End(m) \in Int
  BY MappingFacts
<1>2. page > Start(m) /\ page < End(m) /\ FrameIn(m, page) = Offset(m) + page - Start(m)
  BY Holds
<1>3. FrameIn(m, page) \in Int /\ FrameIn(m, page) > Offset(m)
      /\ FrameIn(m, page) < Offset(m) + End(m) - Start(m)
  BY <1>1, <1>2
<1>4. HoldsFrame(m, FrameIn(m, page))
  BY <1>3, Holds
<1> QED BY <1>1, <1>2, <1>3, <1>4

\* A frame of a mapping has a page of the mapping, and back.
LEMMA PageOfFrame ==
  ASSUME NEW m \in Mappings, NEW frame \in Int, HoldsFrame(m, frame)
  PROVE  /\ HoldsPage(m, Start(m) + frame - Offset(m))
         /\ Start(m) + frame - Offset(m) \in Int
         /\ FrameIn(m, Start(m) + frame - Offset(m)) = frame
<1> DEFINE page == Start(m) + frame - Offset(m)
<1>1. Offset(m) \in Nat /\ Start(m) \in Nat /\ End(m) \in Int
  BY MappingFacts
<1>2. frame > Offset(m) /\ frame < Offset(m) + End(m) - Start(m)
  BY Holds
<1>3. page \in Int /\ page > Start(m) /\ page < End(m) /\ Offset(m) + page - Start(m) = frame
  BY <1>1, <1>2
<1> HIDE DEF page
<1>4. HoldsPage(m, page) /\ FrameIn(m, page) = frame
  BY <1>3, Holds
<1> QED BY <1>3, <1>4 DEF page

\* The frame of an unambiguous page is the frame of no other number, in whatever mapping.
LEMMA SameFrame ==
  ASSUME NEW m \in Mappings, NEW n \in Mappings, NEW page \in Int, NEW other \in Int,
         HoldsPage(m, page), HoldsPage(n, other), FrameIn(m, page) = FrameIn(n, other),
         Unambiguous(page)
  PROVE  page = other
<1>1. HoldsFrame(n, FrameIn(m, page))
  BY FrameOfPage
<1>2. m = n
  BY <1>1 DEF Unambiguous
<1>3. /\ page = Start(m) + FrameIn(m, page) - Offset(m)
      /\ other = Start(n) + FrameIn(n, other) - Offset(n)
  BY FrameOfPage
<1> QED BY <1>2, <1>3

\* The frame of a page the chunk has is free memory.
LEMMA BackedFree ==
  ASSUME NEW m \in Mappings, NEW page \in Int, HoldsPage(m, page), Backed(page)
  PROVE  FreeFrame(FrameIn(m, page))
<1> DEFINE c == ChunkOf(m)
           frame == FrameIn(m, page)
<1>1. c.base >= OneMB /\ page < Start(m) + ChunkPages(c)
  BY DEF Backed, ChunkOf, Start
<1>2. c.base \in Nat /\ c.bounds \in Nat /\ ChunkPages(c) = c.bounds - c.base /\ chunk_count \in Nat
  BY ChunkFacts DEF ChunkPages, Mappings
<1>3. Offset(m) = c.base /\ Start(m) \in Nat /\ page > Start(m)
      /\ frame = Offset(m) + page - Start(m)
  BY <1>1, MappingFacts, Holds
<1>4. frame \in Nat /\ frame >= c.base /\ frame < c.bounds
  <2> HIDE DEF c, frame
  <2> QED BY <1>1, <1>2, <1>3
<1>5. m + 1 \in 1 .. Len(get_memory_descriptor)
  BY <1>2 DEF chunk_count, Mappings
<1> QED BY <1>4, <1>5, DescriptorSound DEF Sound, ChunkOf

-----------------------------------------------------------------------------
(* The conversions, from any cursor.                                       *)

\* A search takes one of the hits, or ends past the table when there is none.
LEMMA SearchHit ==
  ASSUME NEW cursor \in Nat, NEW hits \in SUBSET Mappings
  PROVE  /\ SearchFrom(cursor, hits) \in Nat
         /\ hits # {} => SearchFrom(cursor, hits) \in hits
         /\ hits = {} => SearchFrom(cursor, hits) = chunk_count + 1
<1> DEFINE ahead == {m \in hits : m >= cursor}
<1>1. chunk_count \in Nat /\ Mappings \subseteq Nat
  BY ChunkFacts DEF Mappings
<1>2. \A T \in SUBSET Nat : T # {} => Min(T) \in T
  <2> TAKE T \in SUBSET Nat
  <2> HAVE T # {}
  <2>1. \E x \in T : \A y \in T : x <= y
    BY Least
  <2> QED BY <2>1 DEF Min
<1>3. ahead \in SUBSET Nat /\ hits \in SUBSET Nat /\ ahead \subseteq hits
  BY <1>1
<1>4. SearchFrom(cursor, hits)
        = IF ahead # {} THEN Min(ahead) ELSE IF hits # {} THEN Min(hits) ELSE chunk_count + 1
  BY DEF SearchFrom
<1> HIDE DEF ahead
<1>5. CASE ahead # {}
  <2>1. Min(ahead) \in ahead /\ SearchFrom(cursor, hits) = Min(ahead)
    BY <1>2, <1>3, <1>4, <1>5
  <2> QED BY <1>3, <2>1
<1>6. CASE ahead = {} /\ hits # {}
  <2>1. Min(hits) \in hits /\ SearchFrom(cursor, hits) = Min(hits)
    BY <1>2, <1>3, <1>4, <1>6
  <2> QED BY <1>3, <1>6, <2>1
<1>7. CASE ahead = {} /\ hits = {}
  <2>1. SearchFrom(cursor, hits) = chunk_count + 1
    BY <1>4, <1>7
  <2> QED BY <1>1, <1>7, <2>1
<1> QED BY <1>5, <1>6, <1>7

\* page_to_ptr returns NULL, or the frame the page has in a mapping that holds it.
LEMMA PageToPtr ==
  ASSUME NEW cursor \in Nat, NEW page \in Nat, page <= MAX_PAGES
  PROVE  /\ page_to_ptr(cursor, page).cursor \in Nat
         /\ \/ page_to_ptr(cursor, page).ptr = NULL
            \/ \E m \in Mappings :
                 HoldsPage(m, page) /\ page_to_ptr(cursor, page).ptr = FrameIn(m, page)
<1> DEFINE hits == {n \in 0 .. chunk_count - 1 : HoldsPage(n, page)}
           found == SearchFrom(cursor, hits)
           r == page_to_ptr(cursor, page)
<1>1. chunk_count \in Nat /\ MAX_PAGES \in Nat
  BY ChunkFacts, PmmAssumption
<1>2. r = [cursor |-> found,
           ptr |-> IF found > chunk_count THEN NULL
                   ELSE page_mappings[found + 1].offset + page
                        - page_mappings[found + 1].page_start_index]
  BY <1>1 DEF page_to_ptr
<1>3. hits \in SUBSET Mappings /\ \A n \in hits : HoldsPage(n, page)
  BY DEF Mappings
<1> HIDE DEF hits
<1>4. found \in Nat /\ (hits # {} => found \in hits) /\ (hits = {} => found = chunk_count + 1)
  BY <1>3, SearchHit
<1> HIDE DEF found, r
<1>5. r.cursor \in Nat
  BY <1>2, <1>4
<1>6. CASE hits = {}
  BY <1>1, <1>2, <1>4, <1>5, <1>6 DEF r
<1>7. CASE hits # {}
  <2>1. found \in Mappings /\ HoldsPage(found, page)
    BY <1>3, <1>4, <1>7
  <2>2. ~(found > chunk_count)
    BY <1>1, <2>1 DEF Mappings
  <2>3. r.ptr = FrameIn(found, page)
    BY <1>2, <2>2 DEF FrameIn
  <2> QED BY <1>5, <2>1, <2>3 DEF r
<1> QED BY <1>6, <1>7

\* ptr_to_page returns a page whose frame, in some mapping, the address is.
LEMMA PtrToPage ==
  ASSUME NEW cursor \in Nat, NEW ptr \in Nat, ptr > 0, NEW k \in Mappings, HoldsFrame(k, ptr)
  PROVE  /\ ptr_to_page(cursor, ptr).cursor \in Nat
         /\ ptr_to_page(cursor, ptr).page \in Int
         /\ \E m \in Mappings : /\ HoldsPage(m, ptr_to_page(cursor, ptr).page)
                                /\ FrameIn(m, ptr_to_page(cursor, ptr).page) = ptr
<1> DEFINE hits == {n \in 0 .. chunk_count - 1 : HoldsFrame(n, ptr)}
           found == SearchFrom(cursor, hits)
           r == ptr_to_page(cursor, ptr)
<1>1. chunk_count \in Nat /\ ptr # NULL
  BY ChunkFacts DEF NULL
<1>2. r = [cursor |-> found,
           page |-> IF found > chunk_count THEN NoPage
                    ELSE page_mappings[found + 1].page_start_index + ptr
                         - page_mappings[found + 1].offset]
  BY <1>1 DEF ptr_to_page
<1>3. hits \in SUBSET Mappings /\ (\A n \in hits : HoldsFrame(n, ptr)) /\ hits # {}
  BY DEF Mappings
<1> HIDE DEF hits
<1>4. found \in Nat /\ found \in hits
  BY <1>3, SearchHit
<1> HIDE DEF found, r
<1>5. found \in Mappings /\ HoldsFrame(found, ptr) /\ ~(found > chunk_count)
  BY <1>1, <1>3, <1>4 DEF Mappings
<1>6. r.cursor \in Nat /\ r.page = Start(found) + ptr - Offset(found)
  BY <1>2, <1>4, <1>5 DEF Start, Offset
<1>7. r.page \in Int /\ HoldsPage(found, r.page) /\ FrameIn(found, r.page) = ptr
  BY <1>5, <1>6, PageOfFrame
<1> QED BY <1>5, <1>6, <1>7 DEF r

\* get_free_page returns a page whose bit is clear.
LEMMA FreePage ==
  ASSUME last_page_used \in Nat, get_free_page # NoPage
  PROVE  get_free_page \in 1 .. MAX_PAGES /\ get_free_page \notin page_bitmap
<1> DEFINE free == {i \in 1 .. MAX_PAGES : page_free(i)}
<1>1. MAX_PAGES \in Nat /\ MAX_PAGES >= 2 /\ KernelFrame \in Nat
  BY PmmAssumption
<1>2. NextPage \in 1 .. MAX_PAGES
  BY <1>1 DEF NextPage
<1>3. CASE page_free(NextPage)
  BY <1>2, <1>3 DEF get_free_page, page_free
<1>4. CASE ~page_free(NextPage)
  <2>1. free # {} /\ get_free_page = Min(free)
    BY <1>4 DEF get_free_page
  <2>2. free \in SUBSET Nat
    BY <1>1
  <2>3. \A i \in free : i \in 1 .. MAX_PAGES /\ i \notin page_bitmap
    BY DEF page_free
  <2> HIDE DEF free
  <2>4. \E i \in free : \A j \in free : i <= j
    BY <2>1, <2>2, Least
  <2>5. Min(free) \in free
    BY <2>4 DEF Min
  <2> QED BY <2>1, <2>3, <2>5
<1> QED BY <1>3, <1>4

-----------------------------------------------------------------------------
(* The invariant.                                                          *)

Types ==
  /\ page_bitmap \in SUBSET Nat /\ IsFiniteSet(page_bitmap)
  /\ preset \in SUBSET Nat /\ IsFiniteSet(preset)
  /\ last_page_used \in Nat /\ last_used_mapping \in Nat /\ used_pages \in Int

AtBoot == pc = "boot" => page_bitmap = preset /\ owned = {} /\ lost = {} /\ used_pages = 0

\* The address of a page that is handed out is its frame in some mapping.
Held(o) ==
  /\ o.page \in 1 .. MAX_PAGES
  /\ \E m \in Mappings : HoldsPage(m, o.page) /\ o.ptr = FrameIn(m, o.page)

MarkedEarlier == preset \cup ReservedPages \cup lost

\* An unambiguous page has one owner, and was not marked for another reason.
Single ==
  \A o \in owned : Unambiguous(o.page) =>
    /\ \A q \in owned : o.page = q.page => o = q
    /\ o.page \notin MarkedEarlier

Explained ==
  pc # "boot" =>
    \A page \in 0 .. MAX_PAGES :
      Unambiguous(page) =>
        (page \in page_bitmap <=> page \in preset \cup ReservedPages \cup AllocatedPages)

Counted ==
  pc # "boot" =>
    used_pages = Cardinality(page_bitmap) + Cardinality(KernelPages \cap BitmapPages)
                 - Cardinality(preset \ ReservedPages)

Inv == Types /\ AtBoot /\ (\A o \in owned : Held(o)) /\ Single /\ Explained /\ Counted

\* The reserved pages can be counted.
LEMMA ReservedFinite ==
  /\ KernelPages \in SUBSET (0 .. MAX_PAGES) /\ IsFiniteSet(KernelPages)
  /\ BitmapPages \in SUBSET (0 .. MAX_PAGES) /\ IsFiniteSet(BitmapPages)
<1>1. /\ KernelFrame \in Nat /\ KernelFrame + KernelFrames \in Nat
      /\ BitmapFirst \in Nat /\ BitmapLast \in Nat
  BY PmmAssumption
<1>2. \A first, last \in Nat :
        InBitmapRange(first, last) \in SUBSET (0 .. MAX_PAGES)
        /\ IsFiniteSet(InBitmapRange(first, last))
  <2> TAKE first, last \in Nat
  <2>2. InBitmapRange(first, last) \in SUBSET (0 .. MAX_PAGES)
    BY PmmAssumption DEF InBitmapRange
  <2>1. IsFiniteSet(first .. last) /\ InBitmapRange(first, last) \subseteq first .. last
    BY FS_Interval DEF InBitmapRange
  <2> QED BY <2>1, <2>2, FS_Subset
<1> QED BY <1>1, <1>2 DEF KernelPages, BitmapPages

\* At boot nothing is owned.
LEMMA InvInit == Init => Inv
<1> SUFFICES ASSUME Init PROVE Inv
  OBVIOUS
<1>1. MAX_PAGES \in Nat
  BY PmmAssumption
<1>2. page_bitmap \in SUBSET Nat /\ preset = page_bitmap /\ IsFiniteSet(page_bitmap)
  <2>1. CASE page_bitmap = {}
    BY <2>1, FS_EmptySet DEF Init
  <2>2. CASE page_bitmap = {MAX_PAGES}
    BY <1>1, <2>2, FS_Singleton DEF Init
  <2> QED BY <2>1, <2>2 DEF Init
<1> QED BY <1>2 DEF Init, Inv, Types, AtBoot, Single, Explained, Counted

\* setup_pmm sets the bits of the kernel and of the bitmap, and counts each range.
LEMMA SetupStep ==
  ASSUME Inv, setup_pmm
  PROVE  Inv'
<1>1. /\ pc = "boot" /\ pc' = "test_alloc" /\ owned = {} /\ owned' = {} /\ lost = {} /\ lost' = {}
      /\ page_bitmap = preset /\ preset' = preset /\ used_pages = 0
      /\ page_bitmap' = page_bitmap \cup KernelPages \cup BitmapPages
      /\ last_used_mapping' = last_used_mapping
      /\ used_pages' = used_pages + (Cardinality(KernelPages) + Cardinality(BitmapPages))
  BY DEF setup_pmm, Inv, AtBoot
<1>2. AllocatedPages' = {}
  BY <1>1 DEF AllocatedPages
<1>3. Cardinality(KernelPages) \in Nat /\ Cardinality(BitmapPages) \in Nat
  BY ReservedFinite, FS_CardinalityType
<1>4. Types'
  <2>1. page_bitmap' \in SUBSET Nat /\ IsFiniteSet(page_bitmap')
    <3>1. page_bitmap \in SUBSET Nat /\ IsFiniteSet(page_bitmap) /\ 0 .. MAX_PAGES \subseteq Nat
      BY PmmAssumption DEF Inv, Types
    <3>2. IsFiniteSet(page_bitmap \cup KernelPages)
      BY <3>1, ReservedFinite, FS_Union
    <3>3. IsFiniteSet((page_bitmap \cup KernelPages) \cup BitmapPages)
      BY <3>2, ReservedFinite, FS_Union
    <3> QED BY <1>1, <3>1, <3>3, ReservedFinite
  <2>2. last_page_used' \in Nat
    <3>1. KernelPages \subseteq 0 .. MAX_PAGES /\ BitmapPages \subseteq 0 .. MAX_PAGES
      BY ReservedFinite
    <3>2. \A S \in SUBSET (0 .. MAX_PAGES) : S # {} => Max(S) \in Nat
      BY PmmAssumption, Greatest
    <3> QED BY <3>1, <3>2 DEF setup_pmm, Inv, Types
  <2> QED BY <1>1, <1>3, <2>1, <2>2 DEF Inv, Types
<1>5. Explained'
  BY <1>1, <1>2 DEF Explained, ReservedPages
<1>6. Counted'
  <2> DEFINE early == preset \ ReservedPages
             both == KernelPages \cap BitmapPages
  <2>1. IsFiniteSet(early) /\ IsFiniteSet(ReservedPages) /\ IsFiniteSet(both)
    <3>1. IsFiniteSet(preset) /\ early \subseteq preset /\ both \subseteq KernelPages
      BY DEF Inv, Types
    <3> QED BY <3>1, ReservedFinite, FS_Union, FS_Subset DEF ReservedPages
  <2>2. Cardinality(ReservedPages)
          = Cardinality(KernelPages) + Cardinality(BitmapPages) - Cardinality(both)
    BY ReservedFinite, FS_Union DEF ReservedPages
  <2>3. early \cap ReservedPages = {} /\ page_bitmap' = early \cup ReservedPages
    BY <1>1 DEF ReservedPages
  <2>4. Cardinality(early \cup ReservedPages) = Cardinality(early) + Cardinality(ReservedPages)
                                                - Cardinality(early \cap ReservedPages)
    BY <2>1, FS_Union
  <2>5. Cardinality(early \cap ReservedPages) = 0
    BY <2>3, FS_EmptySet
  <2>6. /\ Cardinality(early) \in Nat /\ Cardinality(ReservedPages) \in Nat
        /\ Cardinality(both) \in Nat
    BY <2>1, FS_CardinalityType
  <2>7. Cardinality(page_bitmap') = Cardinality(early) + Cardinality(ReservedPages)
    BY <2>3, <2>4, <2>5, <2>6
  <2>8. early' = early /\ used_pages' = Cardinality(KernelPages) + Cardinality(BitmapPages)
    BY <1>1, <1>3 DEF ReservedPages
  <2>9. used_pages' = Cardinality(page_bitmap') + Cardinality(both) - Cardinality(early)
    <3> HIDE DEF early, both
    <3> QED BY <1>3, <2>2, <2>6, <2>7, <2>8
  <2>10. used_pages' = Cardinality(page_bitmap') + Cardinality(both) - Cardinality(preset' \ ReservedPages)
    BY <1>1, <2>9
  <2> QED BY <2>10 DEF Counted, ReservedPages
<1> QED BY <1>1, <1>4, <1>5, <1>6 DEF Inv, AtBoot, Single

\* A page whose bit was clear is marked: handed out, or lost.
LEMMA MarkedStep ==
  ASSUME Inv, pc # "boot", pc' # "boot",
         NEW page \in 1 .. MAX_PAGES, page \notin page_bitmap, NEW by, Allocate(page, by)
  PROVE  Inv'
<1>1. MAX_PAGES \in Nat /\ page \in Nat /\ page <= MAX_PAGES /\ page \in 0 .. MAX_PAGES
  BY PmmAssumption
<1>2. CASE page >= KernelFrame * PAGE_SIZE \/ ~page_free(page)
  <2>1. last_page_used' = page
        /\ UNCHANGED <<page_bitmap, last_used_mapping, used_pages, owned, lost, preset>>
    BY <1>2 DEF Allocate
  <2>2. Types' /\ AtBoot'
    BY <1>1, <2>1 DEF Inv, Types, AtBoot
  <2>3. AllocatedPages' = AllocatedPages /\ MarkedEarlier' = MarkedEarlier
    BY <2>1 DEF AllocatedPages, MarkedEarlier
  <2>4. Explained' /\ Counted' /\ Single' /\ (\A o \in owned : Held(o))'
    BY <2>1, <2>3 DEF Inv, Explained, Counted, Single, Held
  <2> QED BY <2>2, <2>4 DEF Inv
<1>3. CASE ~(page >= KernelFrame * PAGE_SIZE \/ ~page_free(page))
  <2> DEFINE found == page_to_ptr(last_used_mapping, page)
             new == [page |-> page, ptr |-> found.ptr, by |-> by]
  <2>1. /\ page_bitmap' = page_bitmap \cup {page} /\ last_page_used' = page
        /\ used_pages' = used_pages + 1 /\ last_used_mapping' = found.cursor /\ preset' = preset
        /\ \/ found.ptr = NULL /\ lost' = lost \cup {page} /\ owned' = owned
           \/ found.ptr # NULL /\ owned' = owned \cup {new} /\ lost' = lost
    BY <1>3 DEF Allocate
  <2>2. last_used_mapping \in Nat /\ page_bitmap \in SUBSET Nat /\ IsFiniteSet(page_bitmap)
        /\ used_pages \in Int /\ preset \in SUBSET Nat /\ IsFiniteSet(preset)
    BY DEF Inv, Types
  <2>3. /\ found.cursor \in Nat
        /\ found.ptr # NULL =>
             \E m \in Mappings : HoldsPage(m, page) /\ found.ptr = FrameIn(m, page)
    BY <1>1, <2>2, PageToPtr
  <2>4. new.page = page /\ new.ptr = found.ptr
    OBVIOUS
  <2> HIDE DEF found, new
  <2>5. Types'
    BY <1>1, <2>1, <2>2, <2>3, FS_AddElement DEF Types
  <2>6. AllocatedPages' = AllocatedPages \cup {page}
    BY <2>1, <2>4 DEF AllocatedPages
  <2>7. \A p \in 0 .. MAX_PAGES : Unambiguous(p) =>
          (p \in page_bitmap <=> p \in preset \cup ReservedPages \cup AllocatedPages)
    BY DEF Inv, Explained
  <2>8. Explained'
    BY <2>1, <2>6, <2>7 DEF Explained
  <2>9. Unambiguous(page) => page \notin MarkedEarlier /\ \A o \in owned : o.page # page
    BY <1>1, <2>7 DEF AllocatedPages, MarkedEarlier
  <2>10. Single'
    <3>1. CASE owned' = owned /\ lost' = lost \cup {page}
      <4>1. MarkedEarlier' = MarkedEarlier \cup {page}
        BY <2>1, <3>1 DEF MarkedEarlier
      <4> QED BY <2>9, <3>1, <4>1 DEF Inv, Single
    <3>2. CASE owned' = owned \cup {new} /\ lost' = lost
      <4>1. MarkedEarlier' = MarkedEarlier
        BY <2>1, <3>2 DEF MarkedEarlier
      <4> QED BY <2>4, <2>9, <3>2, <4>1 DEF Inv, Single
    <3> QED BY <2>1, <3>1, <3>2
  <2>11. ASSUME NEW o \in owned' PROVE Held(o)'
    <3>1. CASE o \in owned
      BY <3>1 DEF Inv, Held
    <3>2. CASE o = new /\ found.ptr # NULL
      BY <2>3, <2>4, <3>2 DEF Held
    <3> QED BY <2>1, <3>1, <3>2
  <2>12. AtBoot'
    BY DEF AtBoot
  <2>13. Counted'
    <3>1. Cardinality(page_bitmap \cup {page}) = Cardinality(page_bitmap) + 1
          /\ Cardinality(page_bitmap) \in Nat
      BY <2>2, FS_AddElement, FS_CardinalityType
    <3>2. IsFiniteSet(KernelPages \cap BitmapPages) /\ IsFiniteSet(preset \ ReservedPages)
      BY <2>2, ReservedFinite, FS_Subset
    <3>3. Cardinality(KernelPages \cap BitmapPages) \in Nat /\ Cardinality(preset \ ReservedPages) \in Nat
      BY <3>2, FS_CardinalityType
    <3> QED BY <2>1, <2>2, <3>1, <3>3 DEF Inv, Counted
  <2> QED BY <2>5, <2>8, <2>10, <2>11, <2>12, <2>13 DEF Inv
<1> QED BY <1>2, <1>3

\* pp_alloc takes a page whose bit is clear.
LEMMA AllocStep ==
  ASSUME Inv, pc # "boot", NEW by, pp_alloc(by)
  PROVE  Inv'
<1>1. CASE get_free_page # NoPage /\ Allocate(get_free_page, by) /\ pc' = "run"
  <2>1. get_free_page \in 1 .. MAX_PAGES /\ get_free_page \notin page_bitmap
    BY <1>1, FreePage DEF Inv, Types
  <2>2. pc' # "boot"
    BY <1>1
  <2> QED BY <1>1, <2>1, <2>2, MarkedStep
<1>2. CASE /\ pc' = "panic" /\ last_page_used' = NextPage
           /\ UNCHANGED <<page_bitmap, last_used_mapping, free_pages, used_pages, owned, lost, preset>>
  <2>1. NextPage \in Nat
    BY DEF NextPage, Inv, Types
  <2>2. Types' /\ AtBoot'
    BY <1>2, <2>1 DEF Inv, Types, AtBoot
  <2>3. AllocatedPages' = AllocatedPages /\ MarkedEarlier' = MarkedEarlier
    BY <1>2 DEF AllocatedPages, MarkedEarlier
  <2>4. Explained' /\ Counted' /\ Single' /\ (\A o \in owned : Held(o))'
    BY <1>2, <2>3 DEF Inv, Explained, Counted, Single, Held
  <2> QED BY <2>2, <2>4 DEF Inv
<1> QED BY <1>1, <1>2 DEF pp_alloc

\* pp_free clears the bit that pp_alloc set, or one of an ambiguous page.
LEMMA FreeStep ==
  ASSUME Inv, NEW o \in owned, pp_free(o)
  PROVE  Inv'
<1> DEFINE found == ptr_to_page(last_used_mapping, o.ptr)
           f == found.page
<1>1. PICK m \in Mappings : HoldsPage(m, o.page) /\ o.ptr = FrameIn(m, o.page)
  BY DEF Inv, Held
<1>2. /\ o.page \in 1 .. MAX_PAGES /\ MAX_PAGES \in Nat /\ last_used_mapping \in Nat
      /\ page_bitmap \in SUBSET Nat /\ IsFiniteSet(page_bitmap) /\ used_pages \in Int
      /\ preset \in SUBSET Nat /\ IsFiniteSet(preset)
  BY PmmAssumption DEF Inv, Held, Types
<1>3. o.ptr \in Nat /\ o.ptr > 0 /\ HoldsFrame(m, o.ptr)
  BY <1>1, <1>2, FrameOfPage
<1>4. /\ found.cursor \in Nat /\ f \in Int
      /\ \E n \in Mappings : HoldsPage(n, f) /\ FrameIn(n, f) = o.ptr
  BY <1>2, <1>3, PtrToPage
<1>5. PICK n \in Mappings : HoldsPage(n, f) /\ FrameIn(n, f) = o.ptr
  BY <1>4
<1>6. /\ pc = "run" /\ pc' = pc /\ last_used_mapping' = found.cursor /\ owned' = owned \ {o}
      /\ lost' = lost /\ last_page_used' = last_page_used /\ preset' = preset
      /\ \/ f <= MAX_PAGES /\ f \in page_bitmap /\ page_bitmap' = page_bitmap \ {f}
            /\ used_pages' = used_pages - 1
         \/ (f = NoPage \/ f > MAX_PAGES \/ f \notin page_bitmap) /\ page_bitmap' = page_bitmap
            /\ used_pages' = used_pages
  BY DEF pp_free, SetFree, page_free
<1> HIDE DEF found, f
<1>7. Unambiguous(f) => f = o.page
  BY <1>1, <1>2, <1>4, <1>5, SameFrame
<1>8. Unambiguous(o.page) => f = o.page
  BY <1>1, <1>2, <1>4, <1>5, SameFrame
<1>9. Types'
  <2>1. IsFiniteSet(page_bitmap') /\ page_bitmap' \in SUBSET Nat
    BY <1>2, <1>6, FS_RemoveElement
  <2>2. used_pages' \in Int /\ last_page_used \in Nat
    BY <1>2, <1>6 DEF Inv, Types
  <2> QED BY <1>2, <1>4, <1>6, <2>1, <2>2 DEF Types
<1>10. \A p \in 0 .. MAX_PAGES : Unambiguous(p) =>
         (p \in page_bitmap <=> p \in preset \cup ReservedPages \cup AllocatedPages)
  BY <1>6 DEF Inv, Explained
<1>11. ASSUME NEW p \in 0 .. MAX_PAGES, Unambiguous(p)
       PROVE  p \in page_bitmap' <=> p \in preset \cup ReservedPages \cup AllocatedPages'
  <2>1. CASE p = o.page
    <3>1. p \in page_bitmap
      BY <1>10, <1>11, <2>1 DEF AllocatedPages
    <3>2. p \notin page_bitmap'
      BY <1>2, <1>6, <1>8, <1>11, <2>1, <3>1 DEF NoPage
    <3>3. p \notin MarkedEarlier /\ \A q \in owned : p = q.page => q = o
      BY <1>11, <2>1 DEF Inv, Single
    <3>4. p \notin preset \cup ReservedPages \cup AllocatedPages'
      BY <1>6, <3>3 DEF AllocatedPages, MarkedEarlier
    <3> QED BY <3>2, <3>4
  <2>2. CASE p # o.page
    <3>1. p # f
      BY <1>7, <1>11, <2>2
    <3>2. p \in page_bitmap' <=> p \in page_bitmap
      BY <1>6, <3>1
    <3>3. p \in AllocatedPages' <=> p \in AllocatedPages
      BY <1>6, <2>2 DEF AllocatedPages
    <3> QED BY <1>10, <1>11, <3>2, <3>3
  <2> QED BY <2>1, <2>2
<1>12. Explained'
  BY <1>6, <1>11 DEF Explained
<1>13. Single' /\ AtBoot'
  <2>1. MarkedEarlier' = MarkedEarlier
    BY <1>6 DEF MarkedEarlier
  <2> QED BY <1>6, <2>1 DEF Inv, Single, AtBoot
<1>14. ASSUME NEW q \in owned' PROVE Held(q)'
  BY <1>6 DEF Inv, Held
<1>15. Counted'
  <2>1. f \in page_bitmap => Cardinality(page_bitmap \ {f}) = Cardinality(page_bitmap) - 1
    BY <1>2, FS_RemoveElement
  <2>2. IsFiniteSet(KernelPages \cap BitmapPages) /\ IsFiniteSet(preset \ ReservedPages)
    BY <1>2, ReservedFinite, FS_Subset
  <2>3. /\ Cardinality(KernelPages \cap BitmapPages) \in Nat
        /\ Cardinality(preset \ ReservedPages) \in Nat /\ Cardinality(page_bitmap) \in Nat
    BY <1>2, <2>2, FS_CardinalityType
  <2>4. used_pages = Cardinality(page_bitmap) + Cardinality(KernelPages \cap BitmapPages)
                     - Cardinality(preset \ ReservedPages)
    BY <1>6 DEF Inv, Counted
  <2>5. used_pages' = Cardinality(page_bitmap') + Cardinality(KernelPages \cap BitmapPages)
                      - Cardinality(preset \ ReservedPages)
    <3>1. CASE f \in page_bitmap /\ page_bitmap' = page_bitmap \ {f} /\ used_pages' = used_pages - 1
      <4>1. Cardinality(page_bitmap') = Cardinality(page_bitmap) - 1
        BY <2>1, <3>1
      <4> QED BY <1>2, <2>3, <2>4, <3>1, <4>1
    <3>2. CASE page_bitmap' = page_bitmap /\ used_pages' = used_pages
      BY <2>4, <3>2
    <3> QED BY <1>6, <3>1, <3>2
  <2> QED BY <1>6, <2>5 DEF Counted, ReservedPages
<1> QED BY <1>9, <1>12, <1>13, <1>14, <1>15 DEF Inv

\* Every step keeps the invariant.
LEMMA StepHolds ==
  ASSUME Inv, [Next]_vars
  PROVE  Inv'
<1>1. CASE setup_pmm
  BY <1>1, SetupStep
<1>2. CASE TestAlloc
  BY <1>2, AllocStep DEF TestAlloc
<1>3. CASE CallAlloc
  BY <1>3, AllocStep DEF CallAlloc
<1>4. CASE \E o \in owned : pp_free(o)
  BY <1>4, FreeStep
<1>5. CASE hcf \/ UNCHANGED vars
  <2>1. UNCHANGED vars
    BY <1>5 DEF hcf
  <2>2. Types' /\ AtBoot'
    BY <2>1 DEF vars, Inv, Types, AtBoot
  <2>3. AllocatedPages' = AllocatedPages /\ MarkedEarlier' = MarkedEarlier
    BY <2>1 DEF vars, AllocatedPages, MarkedEarlier
  <2>4. Explained' /\ Counted' /\ Single' /\ (\A o \in owned : Held(o))'
    BY <2>1, <2>3 DEF vars, Inv, Explained, Counted, Single, Held
  <2> QED BY <2>2, <2>4 DEF Inv
<1> QED BY <1>1, <1>2, <1>3, <1>4, <1>5 DEF Next

-----------------------------------------------------------------------------
(* The theorems.                                                           *)

\* The invariant, for every map, number of pages and callers.
THEOREM InvAlways == Spec => []Inv
<1>1. Inv /\ [Next]_vars => Inv'
  BY StepHolds
<1> QED BY <1>1, InvInit, PTL DEF Spec

\* pp_alloc never returns the frame of an unambiguous page to a second owner, however
\* the shared cursor moved and whatever was freed before.
THEOREM OneOwnerAlways == Spec => []OneOwner
<1>1. ASSUME Inv PROVE OneOwner
  <2> SUFFICES ASSUME NEW o \in owned, NEW q \in owned, o.ptr = q.ptr, Unambiguous(o.page)
               PROVE  o = q
    BY DEF OneOwner
  <2>1. PICK m \in Mappings : HoldsPage(m, o.page) /\ o.ptr = FrameIn(m, o.page)
    BY <1>1 DEF Inv, Held
  <2>2. PICK n \in Mappings : HoldsPage(n, q.page) /\ q.ptr = FrameIn(n, q.page)
    BY <1>1 DEF Inv, Held
  <2>3. o.page \in Int /\ q.page \in Int
    BY <1>1, PmmAssumption DEF Inv, Held
  <2>4. o.page = q.page
    BY <2>1, <2>2, <2>3, SameFrame
  <2> QED BY <1>1, <2>4 DEF Inv, Single
<1> QED BY <1>1, InvAlways, PTL

\* What pp_alloc returns is free memory of the loader's map, or a page that the rounding
\* of a chunk or its move to 1 MB added.
THEOREM OnlyFreeFramesAlways == Spec => []OnlyFreeFrames
<1>1. ASSUME Inv PROVE OnlyFreeFrames
  <2> SUFFICES ASSUME NEW o \in owned, Backed(o.page) PROVE FreeFrame(o.ptr)
    BY DEF OnlyFreeFrames
  <2>1. PICK m \in Mappings : HoldsPage(m, o.page) /\ o.ptr = FrameIn(m, o.page)
    BY <1>1 DEF Inv, Held
  <2>2. o.page \in Int
    BY <1>1, PmmAssumption DEF Inv, Held
  <2> QED BY <2>1, <2>2, BackedFree
<1> QED BY <1>1, InvAlways, PTL

\* The bit of an unambiguous page is set for the reasons that setup_pmm and pp_alloc give
\* and until its own pp_free, and used_pages follows the set bits.
THEOREM BitmapExplainedAlways == Spec => []BitmapExplained
<1>1. Inv => BitmapExplained
  BY DEF Inv, Explained, Counted, BitmapExplained
<1> QED BY <1>1, InvAlways, PTL
=============================================================================
