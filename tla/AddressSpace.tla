---------------------------- MODULE AddressSpace ----------------------------
(***************************************************************************)
(* What kernel/src/memory/virtual/vmm.c promises its callers: an address   *)
(* space is a table of translations; mapping a page sets the translation   *)
(* of that page, unmapping it removes it, and no other page is affected.   *)
(***************************************************************************)
CONSTANTS Virt, Phys, Flags, NoTranslation

VARIABLE translation

Init == translation = [v \in Virt |-> NoTranslation]

IsTranslation(t) == t.addr \in Phys /\ t.flags \in Flags

\* One page gets a translation, another one, or none.
Next ==
  LET old == translation
      new == translation'
      changed == {v \in Virt : new[v] # old[v]}
  IN  \E v \in changed :
        /\ changed = {v}
        /\ new[v] = NoTranslation \/ IsTranslation(new[v])

Spec == Init /\ [][Next]_translation
=============================================================================
