----------------------------- MODULE Allocator -----------------------------
(***************************************************************************)
(* What a memory allocator promises its callers, whatever its free list    *)
(* looks like: a block is granted only from memory nobody owns, aligned    *)
(* and large enough, and stays where it is until it is given back.         *)
(***************************************************************************)
EXTENDS Integers

CONSTANTS
  Alignment,   \* of every block
  Header,      \* bytes in front of the payload
  Largest      \* largest request that is honoured

VARIABLE owned   \* blocks in use: address, size with header, bytes asked for

Disjoint(b, c) == b.addr + b.size <= c.addr \/ c.addr + c.size <= b.addr

Honours(b) == b.req <= Largest => b.req <= b.size - Header

Init == owned = {}

Grant ==
  \E b \in owned' \ owned :
    /\ owned' = owned \cup {b}
    /\ b.addr % Alignment = 0
    /\ b.size >= Header
    /\ Honours(b)
    /\ \A c \in owned : Disjoint(b, c)

\* The owner changes how many bytes of its block it uses.
Adjust ==
  \E b \in owned :
    \E c \in owned' :
      /\ owned' = (owned \ {b}) \cup {c}
      /\ c.addr = b.addr /\ c.size = b.size
      /\ Honours(c)

Release == \E b \in owned : owned' = owned \ {b}

Next == Grant \/ Adjust \/ Release

Spec == Init /\ [][Next]_owned
=============================================================================
