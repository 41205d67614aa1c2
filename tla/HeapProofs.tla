----------------------------- MODULE HeapProofs -----------------------------
(***************************************************************************)
(* Proofs about the kernel heap, for every page size, growth step, number  *)
(* of frames and set of request sizes allowed by HeapAssumption.           *)
(*                                                                         *)
(* The argument: a list of blocks is Spaced (in address order, nothing     *)
(* touching) and AllSound (each block inside the heap, aligned, at least   *)
(* MIN_ALLOC_SIZE and apart from every block in use).  LinkIn and TakeFrom *)
(* keep both and account for every byte; Inv adds that the blocks in use   *)
(* are sound too, and every action of Heap preserves it.                   *)
(***************************************************************************)
EXTENDS Heap, SequenceTheorems, TLAPS

-----------------------------------------------------------------------------
(* Sequences.                                                              *)

\* Inserting at k keeps what is before k and shifts what follows.
LEMMA InsertAtProperties ==
  ASSUME NEW S, NEW list \in Seq(S), NEW k \in 1 .. Len(list) + 1, NEW e \in S
  PROVE  /\ InsertAt(list, k, e) \in Seq(S)
         /\ Len(InsertAt(list, k, e)) = Len(list) + 1
         /\ \A j \in 1 .. k - 1 : InsertAt(list, k, e)[j] = list[j]
         /\ InsertAt(list, k, e)[k] = e
         /\ \A j \in k + 1 .. Len(list) + 1 : InsertAt(list, k, e)[j] = list[j - 1]
<1> DEFINE front == SubSeq(list, 1, k - 1)
           back  == SubSeq(list, k, Len(list))
           mid   == <<e>>
<1>0. Len(list) \in Nat
  BY LenProperties
<1>1. /\ front \in Seq(S) /\ Len(front) = k - 1
      /\ \A j \in 1 .. k - 1 : front[j] = list[j]
  BY <1>0, SubSeqProperties
<1>2. /\ back \in Seq(S) /\ Len(back) = Len(list) - k + 1
      /\ \A j \in 1 .. Len(list) - k + 1 : back[j] = list[k + j - 1]
  BY <1>0, SubSeqProperties
<1>3. mid \in Seq(S) /\ Len(mid) = 1 /\ mid[1] = e
  OBVIOUS
<1> DEFINE left == front \o mid
<1>4. /\ left \in Seq(S) /\ Len(left) = k
      /\ \A j \in 1 .. k : left[j] = IF j < k THEN list[j] ELSE e
  <2> HIDE DEF front, mid
  <2>1. /\ left \in Seq(S) /\ Len(left) = Len(front) + Len(mid)
        /\ \A j \in 1 .. Len(front) + Len(mid) :
             left[j] = IF j <= Len(front) THEN front[j] ELSE mid[j - Len(front)]
    BY <1>1, <1>3, ConcatProperties
  <2> HIDE DEF left
  <2> QED BY <1>0, <1>1, <1>3, <2>1
<1> HIDE DEF left, back
<1>5. /\ left \o back \in Seq(S) /\ Len(left \o back) = Len(list) + 1
      /\ \A j \in 1 .. Len(list) + 1 :
           (left \o back)[j] = IF j <= k THEN left[j] ELSE back[j - k]
  BY <1>0, <1>2, <1>4, ConcatProperties
<1>6. InsertAt(list, k, e) = left \o back
  BY DEF InsertAt, left, back
<1>7. \A j \in 1 .. k - 1 : (left \o back)[j] = list[j]
  BY <1>0, <1>4, <1>5
<1>8. (left \o back)[k] = e
  BY <1>0, <1>4, <1>5
<1>9. \A j \in k + 1 .. Len(list) + 1 : (left \o back)[j] = list[j - 1]
  <2> SUFFICES ASSUME NEW j \in k + 1 .. Len(list) + 1
               PROVE  (left \o back)[j] = list[j - 1]
    OBVIOUS
  <2>1. (left \o back)[j] = back[j - k]
    BY <1>0, <1>5
  <2>2. j - k \in 1 .. Len(list) - k + 1 /\ k + (j - k) - 1 = j - 1
    BY <1>0
  <2> QED BY <1>2, <2>1, <2>2
<1> QED BY <1>5, <1>6, <1>7, <1>8, <1>9

\* Removing the element at k shifts what follows it.
LEMMA RemoveAtProperties ==
  ASSUME NEW S, NEW list \in Seq(S), NEW k \in 1 .. Len(list)
  PROVE  /\ RemoveAt(list, k) \in Seq(S)
         /\ Len(RemoveAt(list, k)) = Len(list) - 1
         /\ \A j \in 1 .. Len(list) - 1 :
              RemoveAt(list, k)[j] = IF j < k THEN list[j] ELSE list[j + 1]
<1> DEFINE front == SubSeq(list, 1, k - 1)
           back  == SubSeq(list, k + 1, Len(list))
<1>0. Len(list) \in Nat
  BY LenProperties
<1>1. /\ front \in Seq(S) /\ Len(front) = k - 1
      /\ \A j \in 1 .. k - 1 : front[j] = list[j]
  BY <1>0, SubSeqProperties
<1>2. /\ back \in Seq(S) /\ Len(back) = Len(list) - k
      /\ \A j \in 1 .. Len(list) - k : back[j] = list[k + j]
  BY <1>0, SubSeqProperties
<1> HIDE DEF front, back
<1> DEFINE whole == front \o back
<1>3. /\ whole \in Seq(S) /\ Len(whole) = Len(front) + Len(back)
      /\ \A j \in 1 .. Len(front) + Len(back) :
           whole[j] = IF j <= Len(front) THEN front[j] ELSE back[j - Len(front)]
  BY <1>1, <1>2, ConcatProperties
<1>4. RemoveAt(list, k) = whole
  BY DEF RemoveAt, front, back
<1> HIDE DEF whole
<1>5. Len(front) = k - 1 /\ Len(back) = Len(list) - k
  BY <1>1, <1>2
<1>6. \A j \in 1 .. Len(list) - 1 :
        whole[j] = IF j <= k - 1 THEN front[j] ELSE back[j - (k - 1)]
  BY <1>0, <1>3, <1>5
<1>7. ASSUME NEW j \in 1 .. Len(list) - 1
      PROVE  whole[j] = IF j < k THEN list[j] ELSE list[j + 1]
  <2>1. CASE j < k
    BY <1>0, <1>1, <1>6, <2>1
  <2>2. CASE j >= k
    <3>1. whole[j] = back[j - (k - 1)]
      BY <1>0, <1>6, <2>2
    <3>2. j - (k - 1) \in 1 .. Len(list) - k
      BY <1>0, <2>2
    <3>3. back[j - (k - 1)] = list[k + (j - (k - 1))]
      BY <1>2, <3>2
    <3> QED BY <1>0, <2>2, <3>1, <3>3
  <2> QED BY <1>0, <2>1, <2>2
<1>8. Len(whole) = Len(list) - 1
  BY <1>0, <1>3, <1>5
<1> QED BY <1>3, <1>4, <1>7, <1>8

-----------------------------------------------------------------------------
(* Blocks of a list: where they lie, and how far apart.                    *)

Sound(b, hi, others) ==
  /\ b.addr >= HeapStart /\ End(b) <= hi /\ b.size >= MIN_ALLOC_SIZE
  /\ b.addr % HEAP_ALIGNMENT = 0 /\ b.size % HEAP_ALIGNMENT = 0
  /\ \A o \in others : Apart(o, b)

AllSound(list, hi, others) == \A i \in 1 .. Len(list) : Sound(list[i], hi, others)

\* In address order; only the blocks m .. n may touch their successor.
Spaced(list, m, n) ==
  \A i, j \in 1 .. Len(list) :
    i < j => \/ End(list[i]) < list[j].addr
             \/ j = i + 1 /\ i \in m .. n /\ End(list[i]) = list[j].addr

Clear(b, list) == \A i \in 1 .. Len(list) : Apart(b, list[i])

Covers(list, p) == \E i \in 1 .. Len(list) : Holds(list[i], p)

Blocks(others) == \A o \in others : o.addr \in Nat /\ o.size \in Nat \ {0}

\* The fields of a block are naturals.
LEMMA BlockFields == \A b \in Block : b.addr \in Nat /\ b.size \in Nat
BY DEF Block

\* A block starts and ends at natural numbers.
LEMMA BlockEnd == \A b \in Block : b.addr \in Nat /\ End(b) \in Nat
<1> SUFFICES ASSUME NEW b \in Block PROVE b.addr \in Nat /\ End(b) \in Nat
  OBVIOUS
<1>1. b.addr \in Nat /\ b.size \in Nat
  BY BlockFields
<1> QED BY <1>1 DEF End

\* The sum of two aligned numbers is aligned.
LEMMA AlignedSum ==
  \A m, n \in Nat : m % HEAP_ALIGNMENT = 0 /\ n % HEAP_ALIGNMENT = 0
                     => (m + n) % HEAP_ALIGNMENT = 0
BY DEF HEAP_ALIGNMENT

\* The difference of two aligned numbers is aligned.
LEMMA AlignedDifference ==
  \A m, n \in Nat : m >= n /\ m % HEAP_ALIGNMENT = 0 /\ n % HEAP_ALIGNMENT = 0
                     => (m - n) % HEAP_ALIGNMENT = 0
BY DEF HEAP_ALIGNMENT

\* Two sound blocks that touch make one sound block.
LEMMA MergedSound ==
  ASSUME NEW x \in Block, NEW y \in Block, End(x) = y.addr,
         NEW hi \in Nat, NEW others, Blocks(others),
         Sound(x, hi, others), Sound(y, hi, others),
         NEW z \in Block, z.addr = x.addr, z.size = x.size + y.size
  PROVE  Sound(z, hi, others)
<1>1. \A o \in others : Apart(o, z)
  BY DEF Apart, End, Block, Blocks, Sound, MIN_ALLOC_SIZE
<1>2. z.size % HEAP_ALIGNMENT = 0
  BY DEF Block, Sound, HEAP_ALIGNMENT
<1> QED BY <1>1, <1>2, HeapAssumption DEF Sound, End, Block, MIN_ALLOC_SIZE

\* What the EXCEPT of MergeNext builds.
LEMMA GrownBlock ==
  ASSUME NEW x \in Block, NEW y \in Block
  PROVE  LET z == [x EXCEPT !.size = @ + y.size]
         IN  z \in Block /\ z.addr = x.addr /\ z.size = x.size + y.size
BY DEF Block

\* A merged block holds exactly the bytes of its two parts.
LEMMA MergedExtent ==
  ASSUME NEW x \in Block, NEW y \in Block, End(x) = y.addr,
         NEW z \in Block, z.addr = x.addr, z.size = x.size + y.size
  PROVE  /\ End(z) = End(y)
         /\ \A p \in Int : Holds(z, p) <=> Holds(x, p) \/ Holds(y, p)
BY DEF End, Block, Holds

\* Merging the block at k with its successor (the two ifs at the end of kfree
\* and heap_grow_pages) keeps the list sound and its bytes, and leaves one pair
\* fewer that may touch.
LEMMA MergeNextProperties ==
  ASSUME NEW list \in Seq(Block), NEW k \in 1 .. Len(list), NEW m \in Int,
         NEW hi \in Nat, NEW others, Blocks(others),
         AllSound(list, hi, others), Spaced(list, m, k)
  PROVE  /\ MergeNext(list, k) \in Seq(Block)
         /\ k <= Len(MergeNext(list, k))
         /\ AllSound(MergeNext(list, k), hi, others)
         /\ Spaced(MergeNext(list, k), m, k - 1)
         /\ \A p \in Int : Covers(MergeNext(list, k), p) <=> Covers(list, p)
<1>0. Len(list) \in Nat /\ \A i \in 1 .. Len(list) : list[i] \in Block
  BY LenProperties
<1>1. CASE ~(k < Len(list) /\ End(list[k]) = list[k + 1].addr)
  <2>1. MergeNext(list, k) = list
    BY <1>1 DEF MergeNext
  <2>2. Spaced(list, m, k - 1)
    BY <1>0, <1>1 DEF Spaced
  <2> QED BY <1>0, <2>1, <2>2
<1>2. CASE k < Len(list) /\ End(list[k]) = list[k + 1].addr
  <2> DEFINE z == [list[k] EXCEPT !.size = @ + list[k + 1].size]
             M == [list EXCEPT ![k] = z]
             R == MergeNext(list, k)
  <2>0. list[k] \in Block /\ list[k + 1] \in Block /\ k + 1 \in 1 .. Len(list)
    BY <1>0, <1>2
  <2>1. z \in Block /\ z.addr = list[k].addr /\ z.size = list[k].size + list[k + 1].size
    BY <2>0, GrownBlock
  <2>2. R = RemoveAt(M, k + 1)
    BY <1>2, <1>0 DEF MergeNext
  <2> HIDE DEF z
  <2>3. /\ M \in Seq(Block) /\ Len(M) = Len(list)
        /\ \A j \in 1 .. Len(list) : M[j] = IF j = k THEN z ELSE list[j]
    BY <2>1, ExceptSeq
  <2> HIDE DEF M, R
  <2>4. /\ R \in Seq(Block) /\ Len(R) = Len(M) - 1
        /\ \A j \in 1 .. Len(M) - 1 : R[j] = IF j < k + 1 THEN M[j] ELSE M[j + 1]
    BY <2>0, <2>2, <2>3, RemoveAtProperties
  <2>5. Len(R) = Len(list) - 1
    BY <2>3, <2>4
  <2>6. \A j \in 1 .. Len(list) - 1 :
          R[j] = IF j < k THEN list[j] ELSE IF j = k THEN z ELSE list[j + 1]
    <3> SUFFICES ASSUME NEW j \in 1 .. Len(list) - 1
                 PROVE  R[j] = IF j < k THEN list[j] ELSE IF j = k THEN z ELSE list[j + 1]
      OBVIOUS
    <3>1. R[j] = IF j < k + 1 THEN M[j] ELSE M[j + 1]
      BY <2>3, <2>4
    <3>2. j \in 1 .. Len(list) /\ j + 1 \in 1 .. Len(list)
      BY <1>0
    <3>3. M[j] = (IF j = k THEN z ELSE list[j]) /\ M[j + 1] = IF j + 1 = k THEN z ELSE list[j + 1]
      BY <2>3, <3>2
    <3> QED BY <1>0, <3>1, <3>3
  <2>7. \A j \in 1 .. Len(list) - 1 : R[j] \in Block
    BY <2>4, <2>5, LenProperties
  <2>8. Sound(z, hi, others)
    BY <1>2, <2>0, <2>1, MergedSound DEF AllSound
  <2>9. AllSound(R, hi, others)
    BY <1>0, <2>5, <2>6, <2>8 DEF AllSound
  <2>10. End(z) = End(list[k + 1])
    BY <1>2, <2>0, <2>1, MergedExtent
  <2>11. Spaced(R, m, k - 1)
    <3> SUFFICES ASSUME NEW i \in 1 .. Len(list) - 1, NEW j \in 1 .. Len(list) - 1, i < j
                 PROVE  \/ End(R[i]) < R[j].addr
                        \/ j = i + 1 /\ i \in m .. k - 1 /\ End(R[i]) = R[j].addr
      BY <2>5 DEF Spaced
    <3>1. CASE j < k
      <4>1. R[i] = list[i] /\ R[j] = list[j] /\ i \in 1 .. Len(list) /\ j \in 1 .. Len(list)
        BY <1>0, <2>6, <3>1
      <4>2. i \in m .. k => i \in m .. k - 1
        BY <3>1
      <4> QED BY <4>1, <4>2 DEF Spaced
    <3>2. CASE j = k
      BY <1>0, <2>1, <2>6, <3>2 DEF Spaced
    <3>3. CASE i < k /\ j > k
      BY <1>0, <2>6, <3>3 DEF Spaced
    <3>4. CASE i = k
      BY <1>0, <2>6, <2>10, <3>4 DEF Spaced
    <3>5. CASE i > k
      BY <1>0, <2>6, <3>5 DEF Spaced
    <3> QED BY <1>0, <3>1, <3>2, <3>3, <3>4, <3>5
  <2>12. ASSUME NEW p \in Int PROVE Covers(R, p) <=> Covers(list, p)
    <3>1. Holds(z, p) <=> Holds(list[k], p) \/ Holds(list[k + 1], p)
      BY <1>2, <2>0, <2>1, MergedExtent
    <3>2. ASSUME NEW i \in 1 .. Len(list) - 1, Holds(R[i], p)
          PROVE  Covers(list, p)
      <4>1. \/ i < k /\ R[i] = list[i]
            \/ i = k /\ R[i] = z
            \/ i > k /\ R[i] = list[i + 1]
        BY <1>0, <2>6
      <4>2. i \in 1 .. Len(list) /\ i + 1 \in 1 .. Len(list)
        BY <1>0
      <4> QED BY <2>0, <3>1, <3>2, <4>1, <4>2 DEF Covers
    <3>3. ASSUME NEW i \in 1 .. Len(list), Holds(list[i], p)
          PROVE  \E j \in 1 .. Len(list) - 1 : Holds(R[j], p)
      <4>1. CASE i < k
        BY <1>0, <2>0, <2>6, <3>3, <4>1
      <4>2. CASE i = k \/ i = k + 1
        BY <1>0, <2>0, <2>6, <3>1, <3>3, <4>2
      <4>3. CASE i > k + 1
        <5>1. i - 1 \in 1 .. Len(list) - 1 /\ R[i - 1] = list[i]
          BY <1>0, <2>0, <2>6, <4>3
        <5> QED BY <3>3, <5>1
      <4> QED BY <1>0, <4>1, <4>2, <4>3
    <3> QED BY <2>5, <3>2, <3>3 DEF Covers
  <2> QED BY <1>0, <1>2, <2>4, <2>5, <2>9, <2>11, <2>12 DEF R
<1> QED BY <1>1, <1>2

\* Linking a block in where the walk stopped, and merging both ways, keeps the
\* list ordered, coalesced and sound, and adds exactly the block's bytes.
LEMMA LinkInProperties ==
  ASSUME NEW list \in Seq(Block), NEW blk \in Block, NEW k \in 1 .. Len(list) + 1,
         NEW hi \in Nat, NEW others, Blocks(others),
         AllSound(list, hi, others), Spaced(list, 1, 0),
         Sound(blk, hi, others), Clear(blk, list),
         WalkStopsAt(list, blk.addr, k)
  PROVE  /\ LinkIn(list, k, blk) \in Seq(Block)
         /\ AllSound(LinkIn(list, k, blk), hi, others)
         /\ Spaced(LinkIn(list, k, blk), 1, 0)
         /\ \A p \in Int :
              Covers(LinkIn(list, k, blk), p) <=> Covers(list, p) \/ Holds(blk, p)
<1> DEFINE L1 == InsertAt(list, k, blk)
           L2 == MergeNext(L1, k)
           L3 == MergePrevious(L2, k)
<1>0. Len(list) \in Nat /\ \A i \in 1 .. Len(list) : list[i] \in Block
  BY LenProperties
<1>1. /\ L1 \in Seq(Block) /\ Len(L1) = Len(list) + 1
      /\ \A j \in 1 .. k - 1 : L1[j] = list[j]
      /\ L1[k] = blk
      /\ \A j \in k + 1 .. Len(list) + 1 : L1[j] = list[j - 1]
  BY InsertAtProperties
<1>2. LinkIn(list, k, blk) = L3
  BY DEF LinkIn
<1> HIDE DEF L1
<1>3. \A j \in 1 .. k - 1 : End(list[j]) <= blk.addr
  <2> SUFFICES ASSUME NEW j \in 1 .. k - 1 PROVE End(list[j]) <= blk.addr
    OBVIOUS
  <2>1. j \in 1 .. Len(list) /\ list[j] \in Block
    BY <1>0
  <2>2. list[j].addr < blk.addr /\ Apart(blk, list[j]) /\ blk.size >= MIN_ALLOC_SIZE
    BY <2>1 DEF WalkStopsAt, Sound, Clear
  <2> QED BY <2>1, <2>2, BlockFields DEF Apart, End, MIN_ALLOC_SIZE
<1>4. ASSUME k <= Len(list) PROVE End(blk) <= list[k].addr
  <2>1. k \in 1 .. Len(list) /\ list[k] \in Block
    BY <1>0, <1>4
  <2>2. /\ list[k].addr >= blk.addr /\ list[k].size >= MIN_ALLOC_SIZE
        /\ Apart(blk, list[k])
    BY <1>4, <2>1 DEF WalkStopsAt, AllSound, Sound, Clear
  <2> QED BY <2>1, <2>2, BlockFields DEF Apart, End, MIN_ALLOC_SIZE
<1>5. \A j \in k + 1 .. Len(list) : End(blk) < list[j].addr
  <2> SUFFICES ASSUME NEW j \in k + 1 .. Len(list) PROVE End(blk) < list[j].addr
    OBVIOUS
  <2>1. k \in 1 .. Len(list) /\ j \in 1 .. Len(list) /\ k < j
    BY <1>0
  <2>2. End(list[k]) < list[j].addr
    BY <2>1 DEF Spaced
  <2>3. list[k] \in Block /\ list[j] \in Block /\ list[k].size >= MIN_ALLOC_SIZE
    BY <1>0, <2>1 DEF AllSound, Sound
  <2>4. End(blk) <= list[k].addr
    BY <1>4, <2>1
  <2>5. /\ list[k].addr \in Nat /\ list[k].size \in Nat /\ list[j].addr \in Nat
        /\ blk.addr \in Nat /\ blk.size \in Nat
    BY <2>3, BlockFields
  <2>6. list[k].addr + list[k].size < list[j].addr /\ blk.addr + blk.size <= list[k].addr
    BY <2>2, <2>4 DEF End
  <2>7. blk.addr + blk.size < list[j].addr
    BY <2>5, <2>6
  <2> QED BY <2>7 DEF End
<1>6. AllSound(L1, hi, others)
  <2> SUFFICES ASSUME NEW j \in 1 .. Len(list) + 1 PROVE Sound(L1[j], hi, others)
    BY <1>1 DEF AllSound
  <2>1. CASE j < k
    BY <1>0, <1>1, <2>1 DEF AllSound
  <2>2. CASE j = k
    BY <1>0, <1>1, <2>2
  <2>3. CASE j > k
    <3>1. j - 1 \in 1 .. Len(list) /\ L1[j] = list[j - 1]
      BY <1>0, <1>1, <2>3
    <3> QED BY <3>1 DEF AllSound
  <2> QED BY <1>0, <2>1, <2>2, <2>3
<1>7. Spaced(L1, k - 1, k)
  <2> SUFFICES ASSUME NEW i \in 1 .. Len(list) + 1, NEW j \in 1 .. Len(list) + 1, i < j
               PROVE  \/ End(L1[i]) < L1[j].addr
                      \/ j = i + 1 /\ i \in k - 1 .. k /\ End(L1[i]) = L1[j].addr
    BY <1>1 DEF Spaced
  <2>1. CASE j < k
    <3>0. i \in 1 .. k - 1 /\ j \in 1 .. k - 1
      BY <2>1
    <3>1. L1[i] = list[i] /\ L1[j] = list[j]
      <4>1. L1[i] = list[i]
        BY <1>1, <3>0
      <4>2. L1[j] = list[j]
        BY <1>1, <3>0
      <4> QED BY <4>1, <4>2
    <3>2. i \in 1 .. Len(list) /\ j \in 1 .. Len(list)
      BY <1>0, <2>1
    <3> QED BY <3>1, <3>2 DEF Spaced
  <2>2. CASE j = k /\ i = k - 1
    <3>1. L1[i] = list[i] /\ L1[j] = blk /\ i \in 1 .. k - 1 /\ i \in 1 .. Len(list)
      BY <1>0, <1>1, <2>2
    <3>2. End(list[i]) <= blk.addr /\ list[i] \in Block
      BY <1>0, <1>3, <3>1
    <3> QED BY <2>2, <3>1, <3>2, BlockFields DEF End
  <2>3. CASE j = k /\ i < k - 1
    <3>1. L1[i] = list[i] /\ L1[j] = blk /\ i \in 1 .. Len(list) /\ k - 1 \in 1 .. Len(list)
      <4>1. i \in 1 .. k - 1 /\ i \in 1 .. Len(list) /\ k - 1 \in 1 .. Len(list)
        BY <1>0, <2>3
      <4>2. L1[i] = list[i]
        BY <1>1, <4>1
      <4>3. L1[j] = blk
        BY <1>1, <2>3
      <4> QED BY <4>1, <4>2, <4>3
    <3>2. End(list[i]) < list[k - 1].addr /\ list[k - 1].addr < blk.addr
      BY <1>0, <2>3, <3>1 DEF Spaced, WalkStopsAt
    <3>3. End(list[i]) \in Nat /\ list[k - 1].addr \in Nat /\ blk.addr \in Nat
      BY <1>0, <3>1, BlockEnd
    <3> QED BY <3>1, <3>2, <3>3
  <2>4. CASE i < k /\ j > k
    <3>1. L1[i] = list[i] /\ L1[j] = list[j - 1]
      <4>1. L1[i] = list[i]
        BY <1>0, <1>1, <2>4
      <4>2. L1[j] = list[j - 1]
        BY <1>0, <1>1, <2>4
      <4> QED BY <4>1, <4>2
    <3>2. i \in 1 .. Len(list) /\ j - 1 \in 1 .. Len(list) /\ i < j - 1
      BY <1>0, <2>4
    <3> QED BY <3>1, <3>2 DEF Spaced
  <2>5. CASE i = k /\ j = k + 1
    <3>1. L1[i] = blk /\ L1[j] = list[k] /\ k <= Len(list)
      BY <1>0, <1>1, <2>5
    <3> QED BY <1>0, <1>4, <2>5, <3>1, BlockFields DEF End
  <2>6. CASE i = k /\ j > k + 1
    <3>1. L1[i] = blk /\ L1[j] = list[j - 1] /\ j - 1 \in k + 1 .. Len(list)
      BY <1>0, <1>1, <2>6
    <3> QED BY <1>5, <3>1
  <2>7. CASE i > k
    <3>0. i \in k + 1 .. Len(list) + 1 /\ j \in k + 1 .. Len(list) + 1
      BY <1>0, <2>7
    <3>1. L1[i] = list[i - 1] /\ L1[j] = list[j - 1]
      <4>1. L1[i] = list[i - 1]
        BY <1>1, <3>0
      <4>2. L1[j] = list[j - 1]
        BY <1>1, <3>0
      <4> QED BY <4>1, <4>2
    <3>2. i - 1 \in 1 .. Len(list) /\ j - 1 \in 1 .. Len(list) /\ i - 1 < j - 1
      BY <1>0, <2>7
    <3> QED BY <3>1, <3>2 DEF Spaced
  <2> QED BY <1>0, <2>1, <2>2, <2>3, <2>4, <2>5, <2>6, <2>7
<1>8. ASSUME NEW p \in Int PROVE Covers(L1, p) <=> Covers(list, p) \/ Holds(blk, p)
  <2>1. ASSUME NEW j \in 1 .. Len(list) + 1, Holds(L1[j], p)
        PROVE  Covers(list, p) \/ Holds(blk, p)
    <3>1. \/ j \in 1 .. Len(list) /\ L1[j] = list[j]
          \/ L1[j] = blk
          \/ j - 1 \in 1 .. Len(list) /\ L1[j] = list[j - 1]
      BY <1>0, <1>1
    <3> QED BY <2>1, <3>1 DEF Covers
  <2>2. ASSUME NEW j \in 1 .. Len(list), Holds(list[j], p)
        PROVE  \E i \in 1 .. Len(list) + 1 : Holds(L1[i], p)
    <3>1. CASE j < k
      <4>1. j \in 1 .. Len(list) + 1 /\ L1[j] = list[j]
        BY <1>0, <1>1, <3>1
      <4> QED BY <2>2, <4>1
    <3>2. CASE j >= k
      <4>1. j + 1 \in 1 .. Len(list) + 1 /\ L1[j + 1] = list[j]
        BY <1>0, <1>1, <3>2
      <4> QED BY <2>2, <4>1
    <3> QED BY <1>0, <3>1, <3>2
  <2>3. ASSUME Holds(blk, p)
        PROVE  \E i \in 1 .. Len(list) + 1 : Holds(L1[i], p)
    BY <1>0, <1>1, <2>3
  <2> QED BY <1>1, <2>1, <2>2, <2>3 DEF Covers
<1>9. k \in 1 .. Len(L1) /\ k - 1 \in Int
  BY <1>0, <1>1
<1>10. /\ L2 \in Seq(Block) /\ k <= Len(L2)
       /\ AllSound(L2, hi, others) /\ Spaced(L2, k - 1, k - 1)
       /\ \A p \in Int : Covers(L2, p) <=> Covers(L1, p)
  BY <1>1, <1>6, <1>7, <1>9, MergeNextProperties
<1> HIDE DEF L2
<1>11. Len(L2) \in Nat
  BY <1>10, LenProperties
<1>12. CASE k = 1
  <2>1. L3 = L2
    BY <1>12 DEF MergePrevious
  <2>2. Spaced(L2, 1, 0)
    BY <1>10, <1>11, <1>12 DEF Spaced
  <2> QED BY <1>2, <1>8, <1>10, <2>1, <2>2
<1>13. CASE k > 1
  <2>1. L3 = MergeNext(L2, k - 1)
    BY <1>13 DEF MergePrevious
  <2>2. k - 1 \in 1 .. Len(L2)
    BY <1>9, <1>10, <1>11, <1>13
  <2>3. /\ L3 \in Seq(Block)
        /\ AllSound(L3, hi, others) /\ Spaced(L3, k - 1, k - 1 - 1)
        /\ \A p \in Int : Covers(L3, p) <=> Covers(L2, p)
    BY <1>9, <1>10, <2>1, <2>2, MergeNextProperties
  <2> HIDE DEF L3
  <2>4. Spaced(L3, 1, 0)
    <3>1. k \in Int /\ k - 1 .. k - 1 - 1 = {}
      BY <1>0
    <3> QED BY <2>3, <3>1 DEF Spaced
  <2> QED BY <1>2, <1>8, <1>10, <2>3, <2>4
<1> QED BY <1>9, <1>12, <1>13

\* Taking a block out of the list (split or whole) keeps the list ordered and
\* sound, clear of the block taken, and loses no byte.
LEMMA TakeFromProperties ==
  ASSUME NEW list \in Seq(Block), NEW i \in 1 .. Len(list),
         NEW total \in Nat, total >= MIN_ALLOC_SIZE, total % HEAP_ALIGNMENT = 0,
         list[i].size >= total,
         NEW hi \in Nat, NEW others, Blocks(others),
         AllSound(list, hi, others), Spaced(list, 1, 0),
         NEW b, b.addr = list[i].addr,
         b.size = IF Splits(list, i, total) THEN total ELSE list[i].size
  PROVE  /\ TakeFrom(list, i, total) \in Seq(Block)
         /\ AllSound(TakeFrom(list, i, total), hi, others \cup {b})
         /\ Spaced(TakeFrom(list, i, total), 1, 0)
         /\ Sound(b, hi, others)
         /\ \A p \in Int :
              Covers(list, p) => Covers(TakeFrom(list, i, total), p) \/ Holds(b, p)
<1> DEFINE R == TakeFrom(list, i, total)
<1>0. Len(list) \in Nat /\ \A j \in 1 .. Len(list) : list[j] \in Block
  BY LenProperties
<1>1. \A j \in 1 .. Len(list) : Sound(list[j], hi, others)
  BY DEF AllSound
<1>2. \A j \in 1 .. Len(list) : j # i => Apart(list[i], list[j])
  <2> SUFFICES ASSUME NEW j \in 1 .. Len(list), j # i PROVE Apart(list[i], list[j])
    OBVIOUS
  <2>1. End(list[i]) < list[j].addr \/ End(list[j]) < list[i].addr
    BY <1>0 DEF Spaced
  <2>2. list[i] \in Block /\ list[j] \in Block
    BY <1>0
  <2>3. End(list[i]) \in Nat /\ End(list[j]) \in Nat /\ list[i].addr \in Nat /\ list[j].addr \in Nat
    BY <2>2, BlockEnd
  <2> QED BY <2>1, <2>3 DEF Apart
<1>3. CASE ~Splits(list, i, total)
  <2>1. R = RemoveAt(list, i)
    BY <1>3 DEF TakeFrom
  <2>2. /\ R \in Seq(Block) /\ Len(R) = Len(list) - 1
        /\ \A j \in 1 .. Len(list) - 1 : R[j] = IF j < i THEN list[j] ELSE list[j + 1]
    BY <2>1, RemoveAtProperties
  <2> HIDE DEF R
  <2>3. b.addr = list[i].addr /\ b.size = list[i].size
    BY <1>3
  <2>4. \A c : Apart(b, c) <=> Apart(list[i], c)
    BY <2>3 DEF Apart, End
  <2>5. ASSUME NEW j \in 1 .. Len(list) - 1
        PROVE  \E n \in 1 .. Len(list) :
                 /\ n = (IF j < i THEN j ELSE j + 1)
                 /\ R[j] = list[n] /\ n # i
    BY <1>0, <2>2
  <2>6. AllSound(R, hi, others \cup {b})
    <3> SUFFICES ASSUME NEW j \in 1 .. Len(list) - 1
                 PROVE  Sound(R[j], hi, others \cup {b})
      BY <2>2 DEF AllSound
    <3>1. PICK n \in 1 .. Len(list) : R[j] = list[n] /\ n # i
      BY <2>5
    <3> QED BY <1>1, <1>2, <2>4, <3>1 DEF Sound
  <2>7. Spaced(R, 1, 0)
    <3> SUFFICES ASSUME NEW j \in 1 .. Len(list) - 1, NEW n \in 1 .. Len(list) - 1, j < n
                 PROVE  End(R[j]) < R[n].addr
      BY <2>2 DEF Spaced
    <3>1. \E x, y \in 1 .. Len(list) : x < y /\ R[j] = list[x] /\ R[n] = list[y]
      BY <1>0, <2>5
    <3> QED BY <3>1 DEF Spaced
  <2>8. ASSUME NEW p \in Int, NEW n \in 1 .. Len(list), Holds(list[n], p)
        PROVE  Covers(R, p) \/ Holds(b, p)
    <3>1. CASE n < i
      <4>1. n \in 1 .. Len(R) /\ R[n] = list[n]
        BY <1>0, <2>2, <3>1
      <4> QED BY <2>8, <4>1 DEF Covers
    <3>2. CASE n > i
      <4>1. n - 1 \in 1 .. Len(R) /\ R[n - 1] = list[n]
        BY <1>0, <2>2, <3>2
      <4> QED BY <2>8, <4>1 DEF Covers
    <3>3. CASE n = i
      BY <2>3, <2>8, <3>3 DEF Holds, End
    <3> QED BY <1>0, <3>1, <3>2, <3>3
  <2>9. Sound(b, hi, others)
    BY <1>1, <2>3 DEF Sound, Apart, End
  <2> QED BY <2>2, <2>6, <2>7, <2>8, <2>9 DEF Covers, R
<1>4. CASE Splits(list, i, total)
  <2> DEFINE z == [addr |-> list[i].addr + total, size |-> list[i].size - total]
  <2>1. /\ list[i] \in Block /\ list[i].addr \in Nat /\ list[i].size \in Nat
        /\ list[i].size >= total + MIN_ALLOC_SIZE
    BY <1>0, <1>4, BlockFields DEF Splits
  <2>2. /\ z \in Block /\ z.addr = list[i].addr + total /\ z.size = list[i].size - total
        /\ z.addr \in Nat /\ z.size \in Nat
    BY <2>1 DEF Block, MIN_ALLOC_SIZE
  <2>3. R = [list EXCEPT ![i] = z]
    BY <1>0, <1>4 DEF TakeFrom
  <2> HIDE DEF z
  <2>4. /\ R \in Seq(Block) /\ Len(R) = Len(list)
        /\ \A j \in 1 .. Len(list) : R[j] = IF j = i THEN z ELSE list[j]
    BY <2>2, <2>3, ExceptSeq
  <2> HIDE DEF R
  <2>5. b.addr = list[i].addr /\ b.size = total
    BY <1>4
  <2>6. End(z) = End(list[i]) /\ list[i].addr <= z.addr /\ total <= list[i].size
    <3>1. \A a, s, t \in Nat :
            s >= t + 16 => (a + t) + (s - t) = a + s /\ a <= a + t /\ t <= s
      OBVIOUS
    <3>2. (list[i].addr + total) + (list[i].size - total) = list[i].addr + list[i].size
          /\ list[i].addr <= list[i].addr + total /\ total <= list[i].size
      BY <2>1, <3>1 DEF MIN_ALLOC_SIZE
    <3> QED BY <2>2, <3>2 DEF End
  <2>7. /\ z.addr % HEAP_ALIGNMENT = 0 /\ z.size % HEAP_ALIGNMENT = 0
        /\ z.size >= MIN_ALLOC_SIZE /\ z.addr >= HeapStart /\ End(z) <= hi
    <3>1. /\ list[i].addr % HEAP_ALIGNMENT = 0 /\ list[i].size % HEAP_ALIGNMENT = 0
          /\ list[i].addr >= HeapStart /\ End(list[i]) <= hi
      BY <1>1 DEF Sound
    <3>2. z.addr % HEAP_ALIGNMENT = 0 /\ z.size % HEAP_ALIGNMENT = 0
      <4>1. (list[i].addr + total) % HEAP_ALIGNMENT = 0
        BY <2>1, <3>1, AlignedSum
      <4>2. (list[i].size - total) % HEAP_ALIGNMENT = 0
        BY <2>1, <3>1, AlignedDifference
      <4> QED BY <2>2, <4>1, <4>2
    <3>3. \A s, t \in Nat : s >= t + 16 => s - t >= 16
      OBVIOUS
    <3>4. z.size >= MIN_ALLOC_SIZE
      BY <2>1, <2>2, <3>3 DEF MIN_ALLOC_SIZE
    <3>5. HeapStart \in Nat /\ \A h, a, c \in Nat : a >= h /\ a <= c => c >= h
      BY HeapAssumption
    <3>6. z.addr >= HeapStart
      BY <2>1, <2>2, <2>6, <3>1, <3>5
    <3> QED BY <2>6, <3>1, <3>2, <3>4, <3>6
  <2>8. ASSUME NEW o \in others PROVE Apart(o, z) /\ Apart(o, b)
    <3>1. Apart(o, list[i]) /\ o.addr \in Nat /\ o.size \in Nat
      BY <1>1 DEF Sound, Blocks
    <3>2. \/ o.addr + o.size <= list[i].addr
          \/ list[i].addr + list[i].size <= o.addr
      BY <3>1 DEF Apart, End
    <3>3. \/ o.addr + o.size <= z.addr
          \/ z.addr + z.size <= o.addr
      <4>1. \A e, a, c \in Nat : e <= a /\ a <= c => e <= c
        OBVIOUS
      <4>2. o.addr + o.size \in Nat
        BY <3>1
      <4>3. CASE o.addr + o.size <= list[i].addr
        BY <2>1, <2>2, <2>6, <4>1, <4>2, <4>3
      <4>4. CASE list[i].addr + list[i].size <= o.addr
        BY <2>6, <4>4 DEF End
      <4> QED BY <3>2, <4>3, <4>4
    <3>4. \/ o.addr + o.size <= b.addr
          \/ b.addr + b.size <= o.addr
      <4>1. \A a, s, t, c \in Nat : t <= s /\ a + s <= c => a + t <= c
        OBVIOUS
      <4>2. CASE o.addr + o.size <= list[i].addr
        BY <2>5, <4>2
      <4>3. CASE list[i].addr + list[i].size <= o.addr
        BY <2>1, <2>5, <2>6, <3>1, <4>1, <4>3
      <4> QED BY <3>2, <4>2, <4>3
    <3> QED BY <3>3, <3>4 DEF Apart, End
  <2>9. Apart(b, z)
    BY <2>1, <2>2, <2>5 DEF Apart, End
  <2>10. ASSUME NEW j \in 1 .. Len(list), j # i PROVE Apart(b, list[j])
    <3>1. Apart(list[i], list[j]) /\ list[j].addr \in Nat /\ list[j].size \in Nat
      BY <1>0, <1>2, <2>10, BlockFields
    <3>2. \A a, s, t, c \in Nat : t <= s /\ a + s <= c => a + t <= c
      OBVIOUS
    <3> QED BY <2>1, <2>5, <2>6, <3>1, <3>2 DEF Apart, End
  <2>11. AllSound(R, hi, others \cup {b})
    <3> SUFFICES ASSUME NEW j \in 1 .. Len(list)
                 PROVE  Sound(R[j], hi, others \cup {b})
      BY <2>4 DEF AllSound
    <3>1. CASE j = i
      BY <2>4, <2>7, <2>8, <2>9, <3>1 DEF Sound
    <3>2. CASE j # i
      BY <1>1, <2>4, <2>10, <3>2 DEF Sound
    <3> QED BY <3>1, <3>2
  <2>12. Spaced(R, 1, 0)
    <3> SUFFICES ASSUME NEW j \in 1 .. Len(list), NEW n \in 1 .. Len(list), j < n
                 PROVE  End(R[j]) < R[n].addr
      BY <2>4 DEF Spaced
    <3>1. End(list[j]) < list[n].addr
      BY <1>0 DEF Spaced
    <3>2. CASE j # i /\ n # i
      BY <2>4, <3>1, <3>2
    <3>3. CASE j = i
      BY <1>0, <2>4, <2>6, <3>1, <3>3
    <3>4. CASE n = i
      <4>1. R[j] = list[j] /\ R[n] = z /\ list[j] \in Block
        BY <1>0, <2>4, <3>4
      <4>2. list[j].addr \in Nat /\ list[j].size \in Nat /\ list[i].addr \in Nat /\ total \in Nat
        BY <2>1, <4>1, BlockFields
      <4>3. list[j].addr + list[j].size < list[i].addr /\ z.addr = list[i].addr + total
        BY <2>2, <3>1, <3>4 DEF End
      <4>4. list[j].addr + list[j].size < z.addr
        BY <4>2, <4>3
      <4> QED BY <4>1, <4>4 DEF End
    <3> QED BY <3>2, <3>3, <3>4
  <2>13. Sound(b, hi, others)
    <3>1. Sound(list[i], hi, others)
      BY <1>1
    <3>2. \A a, s, t, c \in Nat : t <= s /\ a + s <= c => a + t <= c
      OBVIOUS
    <3>3. End(b) <= hi
      BY <2>1, <2>5, <2>6, <3>1, <3>2 DEF Sound, End
    <3> QED BY <2>5, <2>8, <3>1, <3>3 DEF Sound
  <2>14. ASSUME NEW p \in Int, NEW n \in 1 .. Len(list), Holds(list[n], p)
         PROVE  Covers(R, p) \/ Holds(b, p)
    <3>1. CASE n # i
      BY <2>4, <2>14, <3>1 DEF Covers
    <3>2. CASE n = i
      <4>1. list[i].addr <= p /\ p < End(z)
        BY <2>6, <2>14, <3>2 DEF Holds
      <4>2. p < list[i].addr + total \/ list[i].addr + total <= p
        BY <2>1
      <4>3. Holds(z, p) \/ Holds(b, p)
        BY <2>2, <2>5, <4>1, <4>2 DEF Holds, End
      <4> QED BY <2>4, <4>3 DEF Covers
    <3> QED BY <3>1, <3>2
  <2> QED BY <2>4, <2>11, <2>12, <2>13, <2>14 DEF Covers, R
<1> QED BY <1>3, <1>4

-----------------------------------------------------------------------------
(* Arithmetic of sizes.                                                    *)

\* A run of pages is aligned and holds at least a heap_free_block.
LEMMA PagesAligned ==
  ASSUME NEW n \in Nat \ {0}
  PROVE  /\ n * PAGE_SIZE \in Nat
         /\ n * PAGE_SIZE >= MIN_ALLOC_SIZE
         /\ (n * PAGE_SIZE) % HEAP_ALIGNMENT = 0
<1>1. PICK q \in Nat : PAGE_SIZE = 16 * q /\ q >= 1
  BY HeapAssumption DEF HEAP_ALIGNMENT
<1>2. n * PAGE_SIZE = 16 * (n * q) /\ n * q \in Nat
  BY <1>1
<1>3. n * q >= 1
  BY <1>1
<1> QED BY <1>2, <1>3 DEF MIN_ALLOC_SIZE, HEAP_ALIGNMENT

\* kmalloc's total_size is aligned, never below MIN_ALLOC_SIZE, and leaves room
\* for the request unless the request wraps.
LEMMA TotalSizeProperties ==
  ASSUME NEW size \in 0 .. SIZE_MAX
  PROVE  /\ TotalSize(size) \in Nat
         /\ TotalSize(size) >= MIN_ALLOC_SIZE
         /\ TotalSize(size) % HEAP_ALIGNMENT = 0
         /\ Representable(size) => TotalSize(size) >= size + header_sz
<1>1. SIZE_MAX \in Nat /\ (SIZE_MAX + 1) % 16 = 0 /\ SIZE_MAX > 32
  BY HeapAssumption DEF HEAP_ALIGNMENT
<1> DEFINE up == ALIGN_UP_HEAP(size)
<1>2. up \in 0 .. SIZE_MAX /\ up % 16 = 0
  BY <1>1 DEF ALIGN_UP_HEAP, Plus, HEAP_ALIGNMENT
<1>3. Representable(size) => up >= size /\ up + 16 <= SIZE_MAX
  BY <1>1 DEF ALIGN_UP_HEAP, Plus, HEAP_ALIGNMENT, Representable, header_sz
<1>4. TotalSize(size) = LET total == Plus(up, header_sz)
                        IN  IF total < MIN_ALLOC_SIZE THEN MIN_ALLOC_SIZE ELSE total
  BY DEF TotalSize
<1> HIDE DEF up
<1>5. Plus(up, 16) \in Nat /\ Plus(up, 16) % 16 = 0
  BY <1>1, <1>2 DEF Plus
<1>6. Representable(size) => Plus(up, 16) >= size + 16
  BY <1>1, <1>2, <1>3 DEF Plus
<1> QED BY <1>4, <1>5, <1>6 DEF MIN_ALLOC_SIZE, HEAP_ALIGNMENT, header_sz

\* Past kcalloc's overflow test the product fits a size_t.
LEMMA CallocProduct ==
  ASSUME NEW num \in 0 .. SIZE_MAX, NEW size \in 0 .. SIZE_MAX,
         ~CallocOverflows(num, size)
  PROVE  /\ num * size \in 0 .. SIZE_MAX
         /\ (num * size) % (SIZE_MAX + 1) = num * size
<1>1. SIZE_MAX \in Nat
  BY HeapAssumption
<1>2. num * size \in 0 .. SIZE_MAX
  <2>1. CASE size = 0
    BY <1>1, <2>1
  <2>2. CASE size # 0
    <3> DEFINE q == SIZE_MAX \div size
    <3>1. q \in Nat /\ q * size <= SIZE_MAX
      BY <1>1, <2>2
    <3>2. num <= q
      BY <1>1, <2>2 DEF CallocOverflows
    <3> HIDE DEF q
    <3>3. num * size <= q * size /\ num * size \in Nat
      BY <1>1, <3>1, <3>2
    <3> QED BY <1>1, <3>1, <3>3
  <2> QED BY <2>1, <2>2
<1> DEFINE prod == num * size
<1>3. prod \in 0 .. SIZE_MAX
  BY <1>2
<1> HIDE DEF prod
<1>4. prod % (SIZE_MAX + 1) = prod
  BY <1>1, <1>3
<1> QED BY <1>2, <1>4 DEF prod

-----------------------------------------------------------------------------
(* The inductive invariant.                                                *)

Hi == HeapStart + heap_size

\* A call on its way knows how much its caller asked for.
CallOK == call.size = call.req

Inv ==
  /\ TypeOK
  /\ AllSound(free_list, Hi, live)
  /\ Spaced(free_list, 1, 0)
  /\ \A b \in live : Sound(b, Hi, live \ {b})
  /\ heap_size % HEAP_ALIGNMENT = 0
  /\ pc = "boot" => live = {} /\ heap_size = 0
  /\ NoLostMemory
  /\ PayloadFits
  /\ CallOK

\* A sound block stays sound when the heap grows or fewer blocks are in use.
LEMMA SoundMonotone ==
  ASSUME NEW b, b.addr \in Nat, b.size \in Nat, NEW hi \in Nat, NEW hi2 \in Nat, hi <= hi2,
         NEW others, NEW others2, others2 \subseteq others, Sound(b, hi, others)
  PROVE  Sound(b, hi2, others2)
BY DEF Sound, End

\* The invariant contains the list and block properties.
LEMMA InvConsequences ==
  ASSUME Inv
  PROVE  FreeListCoalesced /\ BlocksDisjoint /\ LiveBlocksFreeable
<1>0. Len(free_list) \in Nat
  BY LenProperties DEF Inv, TypeOK
<1>1. FreeListCoalesced
  BY <1>0 DEF Inv, Spaced, FreeListCoalesced
<1>2. BlocksDisjoint
  <2>1. ASSUME NEW b \in live, NEW c \in live, b # c PROVE Apart(b, c)
    BY <2>1 DEF Inv, Sound
  <2>2. ASSUME NEW b \in live, NEW i \in 1 .. Len(free_list) PROVE Apart(b, free_list[i])
    BY DEF Inv, AllSound, Sound
  <2> QED BY <2>1, <2>2 DEF BlocksDisjoint
<1>3. ASSUME NEW b \in live PROVE KfreeAccepts(b.addr, b.size)
  <2>1. b.addr \in Nat /\ b.size \in Nat /\ heap_size \in Nat
    BY DEF Inv, TypeOK, LiveBlock
  <2>2. Sound(b, Hi, live \ {b})
    BY DEF Inv
  <2> QED BY <2>1, <2>2, HeapAssumption DEF Sound, End, Hi, KfreeAccepts, MIN_ALLOC_SIZE
<1> QED BY <1>1, <1>2, <1>3 DEF LiveBlocksFreeable

\* The invariant holds before setup_heap.
LEMMA InitInv == Init => Inv
<1> SUFFICES ASSUME Init PROVE Inv
  OBVIOUS
<1>1. TypeOK
  <2>1. free_list \in Seq(Block)
    BY DEF Init
  <2>2. call \in [size : 0 .. SIZE_MAX, req : 0 .. SIZE_MAX, old : Nat]
    BY HeapAssumption DEF Init, NoCall, NULL
  <2> QED BY <2>1, <2>2 DEF Init, TypeOK
<1>2. Len(free_list) = 0
  BY DEF Init
<1>3. AllSound(free_list, Hi, live) /\ Spaced(free_list, 1, 0)
  BY <1>2 DEF AllSound, Spaced
<1>4. heap_size % HEAP_ALIGNMENT = 0
  BY DEF Init, HEAP_ALIGNMENT
<1> QED BY <1>1, <1>3, <1>4 DEF Init, Inv, NoLostMemory, PayloadFits, CallOK, NoCall

\* A step that neither touches a block nor extends the heap.
LEMMA QuietStep ==
  ASSUME Inv, UNCHANGED <<heap_size, free_list, live>>, TypeOK', CallOK',
         pc # "boot" => pc' # "boot", pc' = "boot" => pc = "boot",
         pc' # "boot" /\ pc = "boot" => heap_size = 0
  PROVE  Inv'
<1>1. /\ AllSound(free_list, Hi, live)' /\ Spaced(free_list, 1, 0)'
      /\ (\A b \in live : Sound(b, Hi, live \ {b}))'
      /\ (heap_size % HEAP_ALIGNMENT = 0)' /\ PayloadFits'
  BY DEF Inv, AllSound, Spaced, Sound, Hi, PayloadFits
<1>2. NoLostMemory'
  BY HeapAssumption DEF Inv, NoLostMemory
<1> QED BY <1>1, <1>2 DEF Inv

\* Blocks in use have natural fields and are not empty.
LEMMA LiveAreBlocks == Inv => Blocks(live)
<1> SUFFICES ASSUME Inv, NEW b \in live PROVE b.addr \in Nat /\ b.size \in Nat \ {0}
  BY DEF Blocks
<1>1. b.addr \in Nat /\ b.size \in Nat
  BY DEF Inv, TypeOK, LiveBlock
<1>2. b.size >= MIN_ALLOC_SIZE
  BY DEF Inv, Sound
<1> QED BY <1>1, <1>2 DEF MIN_ALLOC_SIZE

\* A successful heap_grow_pages keeps the invariant.
LEMMA GrowInv ==
  ASSUME Inv, NEW pages \in Nat \ {0}, GrowSucceeds(pages), pc # "boot",
         UNCHANGED <<live, call>>, pc' = "search"
  PROVE  Inv'
<1> DEFINE base == HeapStart + heap_size
           grown == pages * PAGE_SIZE
           blk == [addr |-> base, size |-> grown]
<1>0. /\ HeapStart \in Nat /\ HeapStart % HEAP_ALIGNMENT = 0 /\ heap_size \in Nat
      /\ free_list \in Seq(Block) /\ live \subseteq LiveBlock
      /\ heap_size % HEAP_ALIGNMENT = 0
  BY HeapAssumption DEF Inv, TypeOK
<1>1. /\ grown \in Nat /\ grown >= MIN_ALLOC_SIZE /\ grown % HEAP_ALIGNMENT = 0
  BY PagesAligned
<1>2. PICK k \in 1 .. Len(free_list) + 1 :
        /\ WalkStopsAt(free_list, base, k)
        /\ free_list' = LinkIn(free_list, k, blk)
  BY DEF GrowSucceeds
<1>3. heap_size' = heap_size + grown
  BY DEF GrowSucceeds
<1>4. Len(free_list) \in Nat /\ \A i \in 1 .. Len(free_list) : free_list[i] \in Block
  BY <1>0, LenProperties
<1> HIDE DEF grown
<1>5. base \in Nat /\ base = Hi /\ Hi \in Nat /\ Hi' \in Nat /\ Hi' = base + grown /\ Hi <= Hi'
  BY <1>0, <1>1, <1>3 DEF Hi
<1>6. base % HEAP_ALIGNMENT = 0
  BY <1>0, AlignedSum
<1>7. blk \in Block /\ blk.addr = base /\ blk.size = grown
  BY <1>1, <1>5 DEF Block
<1> HIDE DEF blk, base
<1>8. Blocks(live)
  BY LiveAreBlocks
<1>9. AllSound(free_list, Hi', live)
  <2> SUFFICES ASSUME NEW i \in 1 .. Len(free_list) PROVE Sound(free_list[i], Hi', live)
    BY DEF AllSound
  <2>1. Sound(free_list[i], Hi, live)
    BY DEF Inv, AllSound
  <2>2. free_list[i].addr \in Nat /\ free_list[i].size \in Nat
    BY <1>4, BlockFields
  <2> QED BY <1>5, <2>1, <2>2, SoundMonotone
<1>10. \A b \in live : End(b) <= base
  BY <1>5 DEF Inv, Sound
<1>11. Sound(blk, Hi', live)
  <2>1. \A b \in live : Apart(b, blk)
    BY <1>7, <1>10 DEF Apart
  <2>2. blk.addr >= HeapStart /\ End(blk) <= Hi'
    BY <1>0, <1>1, <1>5, <1>7 DEF End, base
  <2> QED BY <1>1, <1>6, <1>7, <2>1, <2>2 DEF Sound
<1>12. Clear(blk, free_list)
  <2> SUFFICES ASSUME NEW i \in 1 .. Len(free_list) PROVE Apart(blk, free_list[i])
    BY DEF Clear
  <2>1. End(free_list[i]) <= base
    BY <1>5 DEF Inv, AllSound, Sound
  <2> QED BY <1>7, <2>1 DEF Apart
<1>13. WalkStopsAt(free_list, blk.addr, k) /\ Spaced(free_list, 1, 0)
  BY <1>2, <1>7 DEF Inv
<1>14. /\ free_list' \in Seq(Block)
       /\ AllSound(free_list', Hi', live)
       /\ Spaced(free_list', 1, 0)
       /\ \A p \in Int : Covers(free_list', p) <=> Covers(free_list, p) \/ Holds(blk, p)
  BY <1>0, <1>2, <1>5, <1>7, <1>8, <1>9, <1>11, <1>12, <1>13, LinkInProperties
<1>15. TypeOK'
  <2>1. taken' \in Nat /\ mapped' \in Nat
    BY <1>0, HeapAssumption DEF Inv, TypeOK, GrowSucceeds, MapPages, HeapPages
  <2>2. short_grow' \in BOOLEAN
    BY DEF Inv, TypeOK, GrowSucceeds
  <2> QED BY <1>0, <1>1, <1>3, <1>14, <2>1, <2>2 DEF Inv, TypeOK
<1>16. ASSUME NEW b \in live PROVE Sound(b, Hi', live \ {b})
  <2>1. b.addr \in Nat /\ b.size \in Nat /\ Sound(b, Hi, live \ {b})
    BY <1>0 DEF Inv, LiveBlock
  <2> QED BY <1>5, <2>1, SoundMonotone
<1>17. (heap_size % HEAP_ALIGNMENT = 0)'
  BY <1>0, <1>1, <1>3, AlignedSum
<1>18. ASSUME NEW p \in HeapStart .. Hi' - 1
       PROVE  (\E b \in live : Holds(b, p)) \/ Covers(free_list', p)
  <2>0. p \in Int /\ HeapStart <= p /\ p <= Hi' - 1
    BY <1>0, <1>5
  <2>1. CASE p < base
    <3>1. p \in HeapStart .. HeapStart + heap_size - 1
      BY <1>0, <1>5, <2>0, <2>1 DEF base
    <3>2. (\E b \in live : Holds(b, p)) \/ Covers(free_list, p)
      BY <3>1 DEF Inv, NoLostMemory, Covers
    <3> QED BY <1>14, <2>0, <3>2
  <2>2. CASE p >= base
    <3>1. Holds(blk, p)
      BY <1>1, <1>5, <1>7, <2>0, <2>2 DEF Holds, End
    <3> QED BY <1>14, <2>0, <3>1
  <2> QED BY <1>5, <2>0, <2>1, <2>2
<1>19. NoLostMemory'
  <2>1. live' = live
    OBVIOUS
  <2>2. Hi' = HeapStart + heap_size'
    BY DEF Hi
  <2>3. ASSUME NEW p \in HeapStart .. HeapStart + heap_size' - 1
        PROVE  \/ \E b \in live' : Holds(b, p)
               \/ \E i \in 1 .. Len(free_list') : Holds(free_list'[i], p)
    <3>1. p \in HeapStart .. Hi' - 1
      BY <1>0, <1>1, <1>3, <2>2
    <3>2. (\E b \in live : Holds(b, p)) \/ Covers(free_list', p)
      BY <1>18, <3>1
    <3> QED BY <2>1, <3>2 DEF Covers
  <2> QED BY <2>3 DEF NoLostMemory, Holds, End
<1>20. PayloadFits' /\ CallOK'
  BY DEF Inv, PayloadFits, CallOK, Representable
<1> QED BY <1>14, <1>15, <1>16, <1>17, <1>19, <1>20 DEF Inv

\* kfree of a block in use, alone or as the tail of krealloc, keeps the invariant.
LEMMA FreeInv ==
  ASSUME Inv, NEW b \in live, FreeBlock(b), pc # "boot",
         call' \in [size : 0 .. SIZE_MAX, req : 0 .. SIZE_MAX, old : Nat], CallOK',
         UNCHANGED <<heap_size, taken, mapped, short_grow>>
  PROVE  Inv'
<1>0. KfreeAccepts(b.addr, b.size)
  BY InvConsequences DEF LiveBlocksFreeable
<1> DEFINE blk == [addr |-> b.addr, size |-> b.size]
           rest == live \ {b}
<1>1. PICK k \in 1 .. Len(free_list) + 1 :
        /\ WalkStopsAt(free_list, b.addr, k)
        /\ free_list' = LinkIn(free_list, k, blk)
  BY <1>0 DEF FreeBlock
<1>2. live' = rest /\ pc' = "idle"
  BY <1>0 DEF FreeBlock
<1>3. /\ free_list \in Seq(Block) /\ heap_size \in Nat /\ live \subseteq LiveBlock
      /\ b.addr \in Nat /\ b.size \in Nat
  BY DEF Inv, TypeOK, LiveBlock
<1>4. Hi \in Nat /\ Hi' = Hi
  BY <1>3, HeapAssumption DEF Hi
<1>5. blk \in Block /\ blk.addr = b.addr /\ blk.size = b.size
  BY <1>3 DEF Block
<1> HIDE DEF blk
<1>6. Len(free_list) \in Nat /\ \A i \in 1 .. Len(free_list) : free_list[i] \in Block
  BY <1>3, LenProperties
<1>7. Blocks(rest)
  BY LiveAreBlocks DEF Blocks
<1>8. AllSound(free_list, Hi, rest)
  BY DEF Inv, AllSound, Sound
<1>9. Sound(blk, Hi, rest)
  <2>1. Sound(b, Hi, rest)
    BY DEF Inv
  <2> QED BY <1>5, <2>1 DEF Sound, Apart, End
<1>10. Clear(blk, free_list)
  <2> SUFFICES ASSUME NEW i \in 1 .. Len(free_list) PROVE Apart(blk, free_list[i])
    BY DEF Clear
  <2>1. Apart(b, free_list[i])
    BY DEF Inv, AllSound, Sound
  <2> QED BY <1>5, <2>1 DEF Apart, End
<1>11. WalkStopsAt(free_list, blk.addr, k) /\ Spaced(free_list, 1, 0)
  BY <1>1, <1>5 DEF Inv
<1> HIDE DEF rest
<1>12. /\ free_list' \in Seq(Block)
       /\ AllSound(free_list', Hi, rest)
       /\ Spaced(free_list', 1, 0)
       /\ \A p \in Int : Covers(free_list', p) <=> Covers(free_list, p) \/ Holds(blk, p)
  BY <1>1, <1>3, <1>4, <1>5, <1>7, <1>8, <1>9, <1>10, <1>11, LinkInProperties
<1>13. TypeOK'
  BY <1>2, <1>12 DEF Inv, TypeOK, rest
<1>14. ASSUME NEW c \in rest PROVE Sound(c, Hi, rest \ {c})
  <2>1. Sound(c, Hi, live \ {c})
    BY DEF Inv, rest
  <2> QED BY <2>1 DEF Sound, rest
<1>15. NoLostMemory'
  <2> SUFFICES ASSUME NEW p \in HeapStart .. HeapStart + heap_size - 1
               PROVE  (\E c \in rest : Holds(c, p)) \/ Covers(free_list', p)
    BY <1>2 DEF NoLostMemory, Covers
  <2>0. p \in Int
    BY <1>3, HeapAssumption
  <2>1. (\E c \in live : Holds(c, p)) \/ Covers(free_list, p)
    BY DEF Inv, NoLostMemory, Covers
  <2>2. Holds(b, p) <=> Holds(blk, p)
    BY <1>5 DEF Holds, End
  <2> QED BY <1>12, <2>0, <2>1, <2>2 DEF rest
<1>16. PayloadFits'
  BY <1>2 DEF Inv, PayloadFits, Representable, rest
<1> QED BY <1>2, <1>4, <1>12, <1>13, <1>14, <1>15, <1>16 DEF Inv

\* A successful search of kmalloc keeps the invariant.
LEMMA SearchHitsInv ==
  ASSUME Inv, SearchHits
  PROVE  Inv'
<1> DEFINE total == TotalSize(call.size)
<1>0. PICK i \in 1 .. Len(free_list) :
        /\ FirstFit(free_list, i, total)
        /\ free_list' = TakeFrom(free_list, i, total)
        /\ live' = live \cup
             {[addr |-> free_list[i].addr,
               size |-> IF Splits(free_list, i, total) THEN total ELSE free_list[i].size,
               req  |-> call.req]}
  BY DEF SearchHits
<1> DEFINE new == [addr |-> free_list[i].addr,
                   size |-> IF Splits(free_list, i, total) THEN total ELSE free_list[i].size,
                   req  |-> call.req]
<1>1. /\ free_list \in Seq(Block) /\ heap_size \in Nat /\ live \subseteq LiveBlock
      /\ call.size \in 0 .. SIZE_MAX /\ call.req \in 0 .. SIZE_MAX /\ call.size = call.req
      /\ call.old \in Nat
  BY DEF Inv, TypeOK, CallOK
<1>2. /\ total \in Nat /\ total >= MIN_ALLOC_SIZE /\ total % HEAP_ALIGNMENT = 0
      /\ Representable(call.size) => total >= call.size + header_sz
  BY <1>1, TotalSizeProperties
<1> HIDE DEF total
<1>3. /\ free_list[i] \in Block /\ free_list[i].addr \in Nat /\ free_list[i].size \in Nat
      /\ free_list[i].size >= total
  BY <1>0, <1>1, LenProperties, BlockFields DEF FirstFit
<1>4. /\ new \in LiveBlock /\ new.addr = free_list[i].addr /\ new.req = call.req
      /\ new.size = IF Splits(free_list, i, total) THEN total ELSE free_list[i].size
  BY <1>1, <1>2, <1>3 DEF LiveBlock
<1>5. live' = live \cup {new}
  BY <1>0
<1> HIDE DEF new
<1>6. Hi \in Nat /\ Hi' = Hi /\ heap_size' = heap_size
  BY <1>1, HeapAssumption DEF Hi, SearchHits
<1>7. Blocks(live) /\ AllSound(free_list, Hi, live) /\ Spaced(free_list, 1, 0)
  BY LiveAreBlocks DEF Inv
<1>8. /\ free_list' \in Seq(Block)
      /\ AllSound(free_list', Hi, live \cup {new})
      /\ Spaced(free_list', 1, 0)
      /\ Sound(new, Hi, live)
      /\ \A p \in Int : Covers(free_list, p) => Covers(free_list', p) \/ Holds(new, p)
  BY <1>0, <1>1, <1>2, <1>3, <1>4, <1>6, <1>7, TakeFromProperties
<1>9. pc' \in {"idle", "free_old"} /\ pc = "search" /\ call' \in {NoCall, call}
  BY DEF SearchHits
<1>10. TypeOK'
  <2>1. call' \in [size : 0 .. SIZE_MAX, req : 0 .. SIZE_MAX, old : Nat]
    BY <1>1, <1>9, HeapAssumption DEF NoCall, NULL, Inv, TypeOK
  <2>2. UNCHANGED <<heap_size, taken, mapped, short_grow>>
    BY DEF SearchHits
  <2>3. pc' \in {"boot", "idle", "search", "grow_many", "grow_one", "free_old", "panic"}
    BY <1>9
  <2> QED BY <1>4, <1>5, <1>8, <2>1, <2>2, <2>3 DEF Inv, TypeOK
<1>11. CallOK'
  BY <1>1, <1>9 DEF CallOK, NoCall
<1>12. ASSUME NEW c \in live' PROVE Sound(c, Hi, live' \ {c})
  <2>1. CASE c = new
    BY <1>5, <1>8, <2>1 DEF Sound
  <2>2. CASE c \in live /\ c # new
    <3>1. Sound(c, Hi, live \ {c})
      BY <2>2 DEF Inv
    <3>2. Apart(new, c)
      BY <1>8, <2>2 DEF Sound, Apart
    <3> QED BY <1>5, <3>1, <3>2 DEF Sound
  <2> QED BY <1>5, <2>1, <2>2
<1>13. NoLostMemory'
  <2> SUFFICES ASSUME NEW p \in HeapStart .. HeapStart + heap_size - 1
               PROVE  (\E c \in live' : Holds(c, p)) \/ Covers(free_list', p)
    BY <1>6 DEF NoLostMemory, Covers
  <2>0. p \in Int
    BY <1>1, HeapAssumption
  <2>1. (\E c \in live : Holds(c, p)) \/ Covers(free_list, p)
    BY <1>9 DEF Inv, NoLostMemory, Covers
  <2> QED BY <1>5, <1>8, <2>0, <2>1
<1>14. PayloadFits'
  <2> SUFFICES ASSUME NEW c \in live', Representable(c.req)
               PROVE  c.req <= c.size - header_sz
    BY DEF PayloadFits, Representable
  <2>1. CASE c = new
    <3>1. total >= call.size + header_sz
      BY <1>1, <1>2, <1>4, <2>1
    <3>2. new.size >= total /\ new.size \in Nat
      BY <1>2, <1>3, <1>4
    <3> QED BY <1>1, <1>2, <1>4, <2>1, <3>1, <3>2 DEF header_sz
  <2>2. CASE c \in live
    BY <2>2 DEF Inv, PayloadFits
  <2> QED BY <1>5, <2>1, <2>2
<1> QED BY <1>6, <1>8, <1>5, <1>9, <1>10, <1>11, <1>12, <1>13, <1>14 DEF Inv

\* krealloc that answers in place keeps the invariant.
LEMMA ReallocInPlaceInv ==
  ASSUME Inv, pc = "idle", NEW b \in live, NEW new_size \in Sizes,
         new_size <= b.size - header_sz,
         live' = (live \ {b}) \cup {[b EXCEPT !.req = new_size]},
         UNCHANGED <<pc, call, heap_size, free_list, taken, mapped, short_grow>>
  PROVE  Inv'
<1> DEFINE c == [b EXCEPT !.req = new_size]
<1>0. b \in LiveBlock /\ new_size \in 0 .. SIZE_MAX
  BY HeapAssumption DEF Inv, TypeOK
<1>1. c \in LiveBlock /\ c.addr = b.addr /\ c.size = b.size /\ c.req = new_size
  BY <1>0 DEF LiveBlock
<1>2. live' = (live \ {b}) \cup {c}
  OBVIOUS
<1> HIDE DEF c
<1>3. \A o : (Apart(o, c) <=> Apart(o, b)) /\ (Apart(c, o) <=> Apart(b, o))
  BY <1>1 DEF Apart, End
<1>4. TypeOK'
  <2>1. live' \subseteq LiveBlock
    BY <1>1, <1>2 DEF Inv, TypeOK
  <2> QED BY <2>1 DEF Inv, TypeOK
<1>5. Hi' = Hi /\ free_list' = free_list
  BY DEF Hi
<1>6. AllSound(free_list, Hi, live')
  <2> SUFFICES ASSUME NEW i \in 1 .. Len(free_list) PROVE Sound(free_list[i], Hi, live')
    BY DEF AllSound
  <2>1. Sound(free_list[i], Hi, live)
    BY DEF Inv, AllSound
  <2> QED BY <1>2, <1>3, <2>1 DEF Sound
<1>7. ASSUME NEW d \in live' PROVE Sound(d, Hi, live' \ {d})
  <2>1. Sound(b, Hi, live \ {b})
    BY DEF Inv
  <2>2. CASE d = c
    <3>1. \A o \in live' \ {d} : Apart(o, c)
      BY <1>2, <1>3, <2>1, <2>2 DEF Sound
    <3> QED BY <1>1, <2>1, <2>2, <3>1 DEF Sound, End
  <2>3. CASE d # c
    <3>1. d \in live /\ d # b /\ Sound(d, Hi, live \ {d})
      BY <1>2, <2>3 DEF Inv
    <3>2. Apart(b, d)
      BY <3>1 DEF Sound
    <3> QED BY <1>2, <1>3, <3>1, <3>2 DEF Sound
  <2> QED BY <2>2, <2>3
<1>8. NoLostMemory'
  <2> SUFFICES ASSUME NEW p \in HeapStart .. HeapStart + heap_size - 1
               PROVE  (\E d \in live' : Holds(d, p)) \/ Covers(free_list, p)
    BY DEF NoLostMemory, Covers
  <2>1. (\E d \in live : Holds(d, p)) \/ Covers(free_list, p)
    BY DEF Inv, NoLostMemory, Covers
  <2>2. Holds(b, p) => Holds(c, p)
    BY <1>1 DEF Holds, End
  <2> QED BY <1>2, <2>1, <2>2
<1>9. PayloadFits'
  BY <1>1, <1>2 DEF Inv, PayloadFits, Representable
<1>10. CallOK' /\ (heap_size % HEAP_ALIGNMENT = 0)' /\ pc' # "boot" /\ Spaced(free_list', 1, 0)
  BY <1>5 DEF Inv, CallOK
<1> QED BY <1>4, <1>5, <1>6, <1>7, <1>8, <1>9, <1>10 DEF Inv

\* setup_heap establishes the invariant's claims about the new heap.
LEMMA SetupInv ==
  ASSUME Inv, setup_heap
  PROVE  Inv'
<1>0. /\ pc = "boot" /\ live = {} /\ live' = {} /\ heap_size = 0 /\ call' = call
      /\ HeapStart \in Nat /\ HeapStart % HEAP_ALIGNMENT = 0
      /\ InitialHeapPages \in Nat \ {0} /\ PAGE_SIZE \in Nat \ {0}
  BY HeapAssumption DEF Inv, setup_heap
<1>1. CASE GrowFails(InitialHeapPages) /\ pc' = "panic"
  <2>1. taken' \in Nat /\ mapped' \in Nat /\ short_grow' \in BOOLEAN
    BY <1>0, <1>1 DEF Inv, TypeOK, GrowFails, MapPages, HeapPages
  <2>2. UNCHANGED <<heap_size, free_list, live>>
    BY <1>0, <1>1 DEF GrowFails
  <2>3. TypeOK' /\ CallOK'
    BY <1>0, <1>1, <2>1, <2>2 DEF Inv, TypeOK, CallOK
  <2> QED BY <1>0, <1>1, <2>2, <2>3, QuietStep
<1>2. CASE /\ MapPages(InitialHeapPages)
           /\ heap_size' = InitialHeapPages * PAGE_SIZE
           /\ free_list' = <<[addr |-> HeapStart, size |-> heap_size']>>
           /\ pc' = "idle"
           /\ UNCHANGED short_grow
  <2> DEFINE blk == [addr |-> HeapStart, size |-> heap_size']
  <2>1. heap_size' \in Nat /\ heap_size' >= MIN_ALLOC_SIZE /\ heap_size' % HEAP_ALIGNMENT = 0
    BY <1>0, <1>2, PagesAligned
  <2>0. heap_size' \in Nat /\ HeapStart \in Nat
    BY <1>0, <2>1
  <2>2. blk \in Block /\ blk.addr = HeapStart /\ blk.size = heap_size'
    BY <1>0, <2>1 DEF Block
  <2>3. free_list' = <<blk>>
    BY <1>2
  <2> HIDE DEF blk
  <2>4. free_list' \in Seq(Block) /\ Len(free_list') = 1 /\ free_list'[1] = blk
    BY <2>2, <2>3
  <2>5. taken' \in Nat /\ mapped' \in Nat /\ short_grow' \in BOOLEAN
    BY <1>0, <1>2 DEF Inv, TypeOK, MapPages, HeapPages
  <2>6. TypeOK' /\ CallOK'
    BY <1>0, <1>2, <2>1, <2>4, <2>5 DEF Inv, TypeOK, CallOK
  <2>7. Hi' = HeapStart + heap_size'
    BY DEF Hi
  <2>8. Sound(blk, Hi', {})
    <3>1. End(blk) = HeapStart + heap_size'
      BY <2>2 DEF End
    <3>2. \A x, y \in Nat : x >= x /\ x + y <= x + y
      OBVIOUS
    <3> QED BY <1>0, <2>0, <2>1, <2>2, <2>7, <3>1, <3>2 DEF Sound
  <2>9. AllSound(free_list', Hi', {}) /\ Spaced(free_list', 1, 0)
    BY <2>4, <2>8 DEF AllSound, Spaced
  <2>10. NoLostMemory'
    <3> SUFFICES ASSUME NEW p \in HeapStart .. HeapStart + heap_size' - 1
                 PROVE  \E i \in 1 .. Len(free_list') : Holds(free_list'[i], p)
      BY DEF NoLostMemory
    <3>1. Holds(blk, p)
      <4>0. \A x, y \in Nat : \A q \in x .. x + y - 1 : x <= q /\ q < x + y
        OBVIOUS
      <4>1. HeapStart <= p /\ p < HeapStart + heap_size'
        BY <2>0, <4>0
      <4> QED BY <2>2, <4>1 DEF Holds, End
    <3> QED BY <2>4, <3>1
  <2> QED BY <1>0, <1>2, <2>1, <2>6, <2>9, <2>10 DEF Inv, PayloadFits
<1> QED BY <1>1, <1>2 DEF setup_heap

\* Every step keeps the invariant.
LEMMA NextInv == Inv /\ [Next]_vars => Inv'
<1> SUFFICES ASSUME Inv, [Next]_vars PROVE Inv'
  OBVIOUS
<1>0. TypeOK /\ CallOK
  BY DEF Inv
<1>1. ASSUME NEW size \in 0 .. SIZE_MAX, NEW old \in Nat, EnterMalloc(size, size, old),
             UNCHANGED <<heap_size, free_list, live, taken, mapped, short_grow>>
      PROVE  Inv'
  <2>1. TypeOK' /\ CallOK'
    BY <1>0, <1>1 DEF TypeOK, CallOK, EnterMalloc
  <2> QED BY <1>1, <2>1, QuietStep DEF EnterMalloc
<1>2. CASE setup_heap
  BY <1>2, SetupInv
<1>3. ASSUME NEW size \in Sizes, kmalloc(size) PROVE Inv'
  BY <1>1, <1>3, HeapAssumption DEF kmalloc, NULL
<1>4. ASSUME NEW args \in CallocArgs, kcalloc(args[1], args[2]) PROVE Inv'
  <2>1. args[1] \in 0 .. SIZE_MAX /\ args[2] \in 0 .. SIZE_MAX
    BY HeapAssumption
  <2>2. /\ args[1] * args[2] \in 0 .. SIZE_MAX
        /\ (args[1] * args[2]) % (SIZE_MAX + 1) = args[1] * args[2]
    BY <1>4, <2>1, CallocProduct DEF kcalloc
  <2> QED BY <1>1, <1>4, <2>2 DEF kcalloc, NULL
<1>5. CASE SearchHits
  BY <1>5, SearchHitsInv
<1>6. CASE SearchMisses
  <2>1. TypeOK' /\ CallOK' /\ UNCHANGED <<heap_size, free_list, live>>
    BY <1>0, <1>6 DEF SearchMisses, TypeOK, CallOK
  <2> QED BY <1>6, <2>1, QuietStep DEF SearchMisses
<1>7. ASSUME NEW pages \in Nat \ {0}, GrowFails(pages), UNCHANGED live, pc # "boot",
             call' = call \/ call' = NoCall, pc' \in {"idle", "grow_one"}
      PROVE  Inv'
  <2>1. taken' \in Nat /\ mapped' \in Nat /\ short_grow' \in BOOLEAN
    BY <1>0, <1>7, HeapAssumption DEF TypeOK, GrowFails, MapPages, HeapPages
  <2>2. UNCHANGED <<heap_size, free_list>>
    BY <1>7 DEF GrowFails
  <2>3. call' \in [size : 0 .. SIZE_MAX, req : 0 .. SIZE_MAX, old : Nat] /\ CallOK'
    BY <1>0, <1>7, HeapAssumption DEF TypeOK, CallOK, NoCall, NULL
  <2>4. TypeOK'
    BY <1>0, <1>7, <2>1, <2>2, <2>3 DEF TypeOK
  <2> QED BY <1>7, <2>2, <2>3, <2>4, QuietStep
<1>8. CASE GrowMany
  BY <1>7, <1>8, GrowInv, HeapAssumption DEF GrowMany
<1>9. CASE GrowOne
  BY <1>7, <1>9, GrowInv DEF GrowOne
<1>10. CASE GrowPanics
  <2>1. TypeOK' /\ CallOK' /\ UNCHANGED <<heap_size, free_list, live>>
    BY <1>0, <1>10 DEF GrowPanics, TypeOK, CallOK
  <2> QED BY <1>10, <2>1, QuietStep DEF GrowPanics, Inv
<1>11. CASE FreeOld
  <2>1. call' \in [size : 0 .. SIZE_MAX, req : 0 .. SIZE_MAX, old : Nat] /\ CallOK'
    BY <1>11, HeapAssumption DEF FreeOld, NoCall, NULL, CallOK
  <2> QED BY <1>11, <2>1, FreeInv DEF FreeOld
<1>12. ASSUME NEW b \in live, kfree(b) PROVE Inv'
  <2>1. call' \in [size : 0 .. SIZE_MAX, req : 0 .. SIZE_MAX, old : Nat] /\ CallOK'
    BY <1>0, <1>12 DEF kfree, TypeOK, CallOK
  <2> QED BY <1>12, <2>1, FreeInv DEF kfree
<1>13. ASSUME NEW ptr \in ForeignPtrs, kfree_foreign(ptr) PROVE Inv'
  <2>1. TypeOK' /\ CallOK' /\ UNCHANGED <<heap_size, free_list, live>>
    BY <1>0, <1>13 DEF kfree_foreign, TypeOK, CallOK
  <2> QED BY <1>13, <2>1, QuietStep DEF kfree_foreign
<1>14. ASSUME NEW b \in live, NEW new_size \in Sizes, krealloc(b, new_size) PROVE Inv'
  <2>1. CASE new_size <= b.size - header_sz
    <3>1. /\ pc = "idle" /\ live' = (live \ {b}) \cup {[b EXCEPT !.req = new_size]}
          /\ UNCHANGED <<pc, call, heap_size, free_list, taken, mapped, short_grow>>
      <4>1. ~(new_size > b.size - header_sz)
        BY <1>0, <2>1, HeapAssumption DEF TypeOK, LiveBlock, header_sz
      <4> QED BY <1>14, <4>1 DEF krealloc
    <3> QED BY <2>1, <3>1, ReallocInPlaceInv
  <2>2. CASE ~(new_size <= b.size - header_sz)
    <3>1. b.addr + header_sz \in Nat /\ new_size \in 0 .. SIZE_MAX
      BY <1>0, HeapAssumption DEF TypeOK, LiveBlock, header_sz
    <3> QED BY <1>1, <1>14, <2>2, <3>1 DEF krealloc
  <2> QED BY <2>1, <2>2
<1>15. CASE hcf \/ UNCHANGED vars
  <2>1. UNCHANGED vars
    BY <1>15 DEF hcf
  <2>2. TypeOK' /\ CallOK' /\ UNCHANGED <<heap_size, free_list, live, pc>>
    BY <1>0, <2>1 DEF vars, TypeOK, CallOK
  <2> QED BY <2>2, QuietStep
<1> QED
  BY <1>2, <1>3, <1>4, <1>5, <1>6, <1>8, <1>9, <1>10, <1>11, <1>12, <1>13, <1>14, <1>15
  DEF Next, MallocStep

-----------------------------------------------------------------------------
(* The theorems.                                                           *)

\* The invariant holds in every state.
LEMMA InvHolds == Spec => []Inv
<1>1. Init => Inv
  BY InitInv
<1>2. Inv /\ [Next]_vars => Inv'
  BY NextInv
<1> QED BY <1>1, <1>2, PTL DEF Spec

\* The variables stay within their types; no request beyond a size_t is granted
\* (kmalloc, kcalloc with its overflow test, krealloc).
THEOREM HeapTypeOK == Spec => []TypeOK
<1>1. Inv => TypeOK
  BY DEF Inv
<1> QED BY <1>1, InvHolds, PTL

\* The free list stays in address order and fully coalesced, through any
\* splitting by kmalloc, growth by heap_grow_pages and merging by kfree.
THEOREM HeapCoalesced == Spec => []FreeListCoalesced
<1>1. Inv => FreeListCoalesced
  BY InvConsequences
<1> QED BY <1>1, InvHolds, PTL

\* kmalloc never hands out a byte twice: blocks in use are disjoint from each
\* other and from the free list.
THEOREM HeapDisjoint == Spec => []BlocksDisjoint
<1>1. Inv => BlocksDisjoint
  BY InvConsequences
<1> QED BY <1>1, InvHolds, PTL

\* No byte of the heap is ever lost by splitting, unlinking or merging.
THEOREM HeapNoLostMemory == Spec => []NoLostMemory
<1>1. Inv => NoLostMemory
  BY DEF Inv
<1> QED BY <1>1, InvHolds, PTL

\* kfree's three checks accept every pointer kmalloc handed out.
THEOREM HeapFreeable == Spec => []LiveBlocksFreeable
<1>1. Inv => LiveBlocksFreeable
  BY InvConsequences
<1> QED BY <1>1, InvHolds, PTL

\* A caller owns at least the bytes it asked for, unless the size it passed to
\* kmalloc wraps the size_t arithmetic.
THEOREM HeapPayloadFits == Spec => []PayloadFits
<1>1. Inv => PayloadFits
  BY DEF Inv
<1> QED BY <1>1, InvHolds, PTL

-----------------------------------------------------------------------------
(* The heap implements the allocator.                                      *)

\* A successful search is a Grant of the abstract allocator.
LEMMA SearchHitsGrants ==
  ASSUME Inv, SearchHits
  PROVE  A!Grant
<1> DEFINE total == TotalSize(call.size)
<1>0. Inv'
  BY SearchHitsInv
<1>1. PICK i \in 1 .. Len(free_list) :
        /\ FirstFit(free_list, i, total)
        /\ live' = live \cup
             {[addr |-> free_list[i].addr,
               size |-> IF Splits(free_list, i, total) THEN total ELSE free_list[i].size,
               req  |-> call.req]}
  BY DEF SearchHits
<1> DEFINE new == [addr |-> free_list[i].addr,
                   size |-> IF Splits(free_list, i, total) THEN total ELSE free_list[i].size,
                   req  |-> call.req]
<1>2. live' = live \cup {new} /\ new.addr = free_list[i].addr
  BY <1>1
<1> HIDE DEF new
<1>3. new \in LiveBlock /\ Sound(new, Hi', live' \ {new})
  BY <1>0, <1>2 DEF Inv, TypeOK
<1>4. new.addr \in Nat /\ new.size \in Nat /\ new.size >= MIN_ALLOC_SIZE
      /\ new.addr % HEAP_ALIGNMENT = 0
  BY <1>3 DEF LiveBlock, Sound
<1>5. new \notin live
  <2> SUFFICES ASSUME new \in live PROVE FALSE
    OBVIOUS
  <2>1. Apart(new, free_list[i]) /\ free_list[i].size >= MIN_ALLOC_SIZE
    BY <1>1 DEF Inv, AllSound, Sound
  <2>2. free_list[i].addr \in Nat /\ free_list[i].size \in Nat
    BY LenProperties, BlockFields DEF Inv, TypeOK
  <2> QED BY <1>2, <1>4, <2>1, <2>2 DEF Apart, End, MIN_ALLOC_SIZE
<1>6. \A c \in live : A!Disjoint(new, c)
  BY <1>2, <1>3, <1>5 DEF Sound, Apart, End, A!Disjoint
<1>7. A!Honours(new)
  BY <1>0, <1>2 DEF Inv, PayloadFits, Representable, A!Honours
<1>8. new.size >= header_sz
  BY <1>4 DEF header_sz, MIN_ALLOC_SIZE
<1> QED BY <1>2, <1>4, <1>5, <1>6, <1>7, <1>8 DEF A!Grant

\* Every step of the heap is a step of the abstract allocator or leaves it alone.
LEMMA StepSimulation == Inv /\ [Next]_vars => [A!Next]_live
<1> SUFFICES ASSUME Inv, [Next]_vars PROVE [A!Next]_live
  OBVIOUS
<1>1. ASSUME NEW b \in live, FreeBlock(b) PROVE A!Next \/ UNCHANGED live
  BY <1>1 DEF FreeBlock, A!Next, A!Release
<1>2. CASE SearchHits
  BY <1>2, SearchHitsGrants DEF A!Next
<1>3. ASSUME NEW b \in live, NEW new_size \in Sizes, krealloc(b, new_size)
      PROVE  A!Next \/ UNCHANGED live
  <2>1. CASE /\ new_size <= b.size - header_sz
             /\ live' = (live \ {b}) \cup {[b EXCEPT !.req = new_size]}
    <3> DEFINE c == [b EXCEPT !.req = new_size]
    <3>1. c.addr = b.addr /\ c.size = b.size /\ c.req = new_size
      BY DEF Inv, TypeOK, LiveBlock
    <3>2. live' = (live \ {b}) \cup {c}
      BY <2>1
    <3> HIDE DEF c
    <3>3. c \in live' /\ A!Honours(c)
      BY <2>1, <3>1, <3>2 DEF A!Honours
    <3>4. A!Adjust
      BY <3>1, <3>2, <3>3 DEF A!Adjust
    <3> QED BY <3>4 DEF A!Next
  <2> QED BY <1>3, <2>1 DEF krealloc
<1>4. CASE FreeOld
  BY <1>1, <1>4 DEF FreeOld
<1>5. ASSUME NEW b \in live, kfree(b) PROVE A!Next \/ UNCHANGED live
  BY <1>1, <1>5 DEF kfree
<1>6. CASE setup_heap \/ SearchMisses \/ GrowMany \/ GrowOne \/ GrowPanics \/ hcf
  BY <1>6 DEF setup_heap, SearchMisses, GrowMany, GrowOne, GrowPanics, hcf, vars
<1>7. ASSUME NEW size \in Sizes, kmalloc(size) PROVE UNCHANGED live
  BY <1>7 DEF kmalloc
<1>8. ASSUME NEW args \in CallocArgs, kcalloc(args[1], args[2]) PROVE UNCHANGED live
  BY <1>8 DEF kcalloc
<1>9. ASSUME NEW ptr \in ForeignPtrs, kfree_foreign(ptr) PROVE UNCHANGED live
  BY <1>9 DEF kfree_foreign
<1>10. CASE UNCHANGED vars
  BY <1>10 DEF vars
<1> QED
  BY <1>2, <1>3, <1>4, <1>5, <1>6, <1>7, <1>8, <1>9, <1>10 DEF Next, MallocStep

\* The heap implements the abstract allocator: seen from its callers, every step
\* of heap.c grants a fresh, aligned and large enough block, changes how much of
\* a block is used, releases one, or does nothing.
THEOREM HeapImplementsAllocator == Spec => ImplementsAllocator
<1>1. Init => A!Init
  BY DEF Init, A!Init
<1>2. Inv /\ [Next]_vars => [A!Next]_live
  BY StepSimulation
<1> QED BY <1>1, <1>2, InvHolds, PTL DEF Spec, ImplementsAllocator, A!Spec

-----------------------------------------------------------------------------
(* Pages and frames.                                                       *)

PageInv ==
  /\ heap_size = HeapPages * PAGE_SIZE /\ HeapPages \in Nat
  /\ HeapPages <= mapped
  /\ ~short_grow => taken = mapped /\ mapped = HeapPages
  /\ pc = "boot" => heap_size = 0

\* n pages are n pages.
LEMMA WholePages == \A n \in Nat : (n * PAGE_SIZE) \div PAGE_SIZE = n
<1> SUFFICES ASSUME NEW n \in Nat PROVE (n * PAGE_SIZE) \div PAGE_SIZE = n
  OBVIOUS
<1>1. PAGE_SIZE \in Nat \ {0}
  BY HeapAssumption
<1> QED BY <1>1

\* An empty heap has no pages.
LEMMA NoPages == heap_size = 0 => HeapPages = 0
<1>1. PAGE_SIZE \in Nat \ {0}
  BY HeapAssumption
<1>2. 0 * PAGE_SIZE = 0
  BY <1>1
<1>3. 0 \div PAGE_SIZE = 0
  BY <1>2, WholePages
<1> QED BY <1>3 DEF HeapPages

\* A growth by n pages moves the end of the heap by n pages and no further than
\* the mapping.
LEMMA GrownPages ==
  ASSUME Inv, PageInv, NEW n \in Nat, MapPages(n), UNCHANGED short_grow,
         heap_size' = heap_size + n * PAGE_SIZE, pc' # "boot"
  PROVE  PageInv'
<1>0. PAGE_SIZE \in Nat \ {0} /\ HeapPages \in Nat /\ mapped \in Nat /\ taken \in Nat
  BY HeapAssumption DEF Inv, TypeOK, PageInv
<1>1. heap_size' = (HeapPages + n) * PAGE_SIZE
  BY <1>0 DEF PageInv
<1>2. HeapPages' = HeapPages + n
  <2>1. HeapPages' = heap_size' \div PAGE_SIZE
    BY DEF HeapPages
  <2>2. HeapPages + n \in Nat
    BY <1>0
  <2> QED BY <1>1, <2>1, <2>2, WholePages
<1>3. taken' = taken + n /\ mapped' = IF HeapPages + n > mapped THEN HeapPages + n ELSE mapped
  BY DEF MapPages
<1>4. HeapPages' \in Nat /\ HeapPages' <= mapped'
  BY <1>0, <1>2, <1>3
<1>5. ASSUME ~short_grow' PROVE taken' = mapped' /\ mapped' = HeapPages'
  <2>1. taken = mapped /\ mapped = HeapPages
    BY <1>5 DEF PageInv
  <2> QED BY <1>0, <1>2, <1>3, <2>1
<1> QED BY <1>1, <1>2, <1>4, <1>5 DEF PageInv

\* A growth that gives up leaves the heap where it was.
LEMMA FailedPages ==
  ASSUME Inv, PageInv, NEW pages \in Nat, GrowFails(pages), pc' # "boot"
  PROVE  PageInv'
<1>0. HeapPages \in Nat /\ mapped \in Nat /\ taken \in Nat /\ short_grow \in BOOLEAN
  BY DEF Inv, TypeOK, PageInv
<1>1. heap_size' = heap_size /\ HeapPages' = HeapPages
  BY DEF GrowFails, HeapPages
<1>2. PICK n \in 0 .. pages - 1 : MapPages(n) /\ short_grow' = (short_grow \/ n > 0)
  BY DEF GrowFails
<1>3. taken' = taken + n /\ mapped' = IF HeapPages + n > mapped THEN HeapPages + n ELSE mapped
  BY <1>2 DEF MapPages
<1>4. HeapPages <= mapped'
  BY <1>0, <1>3 DEF PageInv
<1>5. ASSUME ~short_grow' PROVE taken' = mapped' /\ mapped' = HeapPages
  <2>0. ~short_grow /\ ~(n > 0)
    BY <1>2, <1>5, Zenon
  <2>1. ~short_grow /\ n = 0
    BY <2>0
  <2>2. taken = mapped /\ mapped = HeapPages
    BY <2>1 DEF PageInv
  <2> QED BY <1>0, <1>3, <2>1, <2>2
<1> QED BY <1>0, <1>1, <1>4, <1>5 DEF PageInv

\* A step that maps nothing keeps the page accounting.
LEMMA QuietPages ==
  ASSUME PageInv, UNCHANGED <<heap_size, taken, mapped, short_grow>>,
         pc' = "boot" => pc = "boot"
  PROVE  PageInv'
BY DEF PageInv, HeapPages

\* Every step keeps the page accounting.
LEMMA NextPages == Inv /\ PageInv /\ [Next]_vars => PageInv'
<1> SUFFICES ASSUME Inv, PageInv, [Next]_vars PROVE PageInv'
  OBVIOUS
<1>0. /\ InitialHeapPages \in Nat /\ GrowPages \in Nat /\ PAGE_SIZE \in Nat
      /\ heap_size \in Nat
  BY HeapAssumption DEF Inv, TypeOK
<1>1. CASE setup_heap
  <2>1. CASE GrowFails(InitialHeapPages) /\ pc' = "panic"
    BY <1>0, <2>1, FailedPages
  <2>2. CASE MapPages(InitialHeapPages) /\ heap_size' = InitialHeapPages * PAGE_SIZE
             /\ pc' = "idle" /\ UNCHANGED short_grow
    <3>1. heap_size = 0
      BY <1>1 DEF setup_heap, PageInv
    <3>2. heap_size' = heap_size + InitialHeapPages * PAGE_SIZE
      BY <1>0, <2>2, <3>1
    <3> QED BY <1>0, <2>2, <3>2, GrownPages
  <2> QED BY <1>1, <2>1, <2>2 DEF setup_heap
<1>2. ASSUME NEW pages \in Nat, GrowSucceeds(pages), pc' = "search" PROVE PageInv'
  BY <1>2, GrownPages DEF GrowSucceeds
<1>3. CASE GrowMany
  BY <1>0, <1>2, <1>3, FailedPages DEF GrowMany
<1>4. CASE GrowOne
  BY <1>2, <1>4, FailedPages DEF GrowOne
<1>5. CASE SearchHits \/ SearchMisses \/ FreeOld \/ GrowPanics \/ hcf \/ UNCHANGED vars
  BY <1>5, QuietPages
  DEF SearchHits, SearchMisses, FreeOld, FreeBlock, GrowPanics, hcf, vars
<1>6. ASSUME NEW size \in Sizes, kmalloc(size) PROVE PageInv'
  BY <1>6, QuietPages DEF kmalloc, EnterMalloc
<1>7. ASSUME NEW args \in CallocArgs, kcalloc(args[1], args[2]) PROVE PageInv'
  BY <1>7, QuietPages DEF kcalloc, EnterMalloc
<1>8. ASSUME NEW b \in live, kfree(b) PROVE PageInv'
  BY <1>8, QuietPages DEF kfree, FreeBlock
<1>9. ASSUME NEW ptr \in ForeignPtrs, kfree_foreign(ptr) PROVE PageInv'
  BY <1>9, QuietPages DEF kfree_foreign
<1>10. ASSUME NEW b \in live, NEW new_size \in Sizes, krealloc(b, new_size) PROVE PageInv'
  BY <1>10, QuietPages DEF krealloc, EnterMalloc
<1> QED
  BY <1>1, <1>3, <1>4, <1>5, <1>6, <1>7, <1>8, <1>9, <1>10 DEF Next, MallocStep

\* The heap never extends past its mapped pages, and frames are only lost to a
\* growth that gave up half-way (heap_grow_pages keeps what it had mapped).
THEOREM HeapPagesAccounted == Spec => []HeapBacked
<1>1. Init => PageInv
  BY NoPages, HeapAssumption DEF Init, PageInv
<1>2. Inv /\ PageInv => HeapBacked
  <2> SUFFICES ASSUME Inv, PageInv PROVE HeapBacked
    OBVIOUS
  <2>1. PAGE_SIZE \in Nat \ {0} /\ HeapPages \in Nat /\ mapped \in Nat /\ HeapPages <= mapped
    BY HeapAssumption DEF Inv, TypeOK, PageInv
  <2>2. HeapPages * PAGE_SIZE <= mapped * PAGE_SIZE
    BY <2>1
  <2> QED BY <2>2 DEF PageInv, HeapBacked
<1>3. Inv /\ PageInv /\ [Next]_vars => PageInv'
  BY NextPages
<1> QED BY <1>1, <1>2, <1>3, InvHolds, PTL DEF Spec
=============================================================================
