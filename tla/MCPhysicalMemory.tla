-------------------------- MODULE MCPhysicalMemory --------------------------
(***************************************************************************)
(* Instances of PhysicalMemory with small memory maps, in frames.          *)
(***************************************************************************)
EXTENDS PhysicalMemory

\* Entries of the loader's map.
Usable(base, length) == [free |-> TRUE, base |-> base, length |-> length]
Reserved(base, length) == [free |-> FALSE, base |-> base, length |-> length]

\* A PC: free memory below 1 MB; then, behind a hole, two entries that form a chunk the
\* rounding leaves alone; then the kernel, and a chunk that the rounding extends.
MCPCMap ==
  <<Usable(0, 1), Reserved(1, 2), Usable(3, 1), Usable(4, 3), Reserved(7, 2), Usable(9, 3),
    Reserved(12, 2)>>

\* The numbers the properties speak of, and those they leave out, are both on the map.
ASSUME MapsMixed ==
  LET pages == {page \in 1 .. MAX_PAGES : \E m \in Mappings : HoldsPage(m, page)}
      single == {page \in pages : Unambiguous(page)}
      backed == {page \in pages : Backed(page)}
  IN  single \cap backed # {} /\ ~(single \subseteq backed) /\ ~(backed \subseteq single)
=============================================================================
