------------------------- MODULE VirtualMemoryProofs -------------------------
(***************************************************************************)
(* Proofs about VirtualMemory: its four invariants, its two action         *)
(* properties and that it implements AddressSpace.                         *)
(*                                                                         *)
(* The invariant says that the frames taken from the allocator are a tree  *)
(* of tables (TreeOf, with a level for each table), and that each page     *)
(* setup_vmm mapped so far has its translation.  A page's translation      *)
(* depends on the four entries of its path only.  An empty table can be    *)
(* linked (map_page) or unlinked (unmap_page) without a translation        *)
(* changing, because a path through it ends nowhere.  An entry of a page   *)
(* table belongs to one page only, because each table is linked once: so   *)
(* writing or clearing it changes that page's translation and no other.    *)
(***************************************************************************)
EXTENDS VirtualMemory, TLAPS

\* The tables T with their levels: entries of tables above the last level link one
\* table of the next level each, writable, every table but the PML4 is linked, and
\* none twice.
TreeOf(e, T, lev) ==
  /\ lev \in [T -> 1 .. 4]
  /\ \A k \in DOMAIN e : k[1] \in T
  /\ \A k \in DOMAIN e : lev[k[1]] # 4 => e[k].addr \in T /\ lev[e[k].addr] = lev[k[1]] + 1
  /\ \A k \in DOMAIN e : lev[k[1]] # 4 => "W" \in e[k].flags
  /\ \A t \in T : lev[t] # 1 => \E k \in DOMAIN e : lev[k[1]] # 4 /\ e[k].addr = t
  /\ \A k, l \in DOMAIN e :
       lev[k[1]] # 4 /\ lev[l[1]] # 4 /\ e[k].addr = e[l].addr => k = l
  /\ \A t \in T : lev[t] = 1 <=> t = top_level
  /\ top_level \in T \cup {NULL}
  /\ NULL \notin T

\* f is e with one more entry k, that links the empty table c.
Linked(e, f, k, c) ==
  /\ k \notin DOMAIN e /\ DOMAIN f = DOMAIN e \cup {k}
  /\ \A l \in DOMAIN e : f[l] = e[l]
  /\ f[k].addr = c
  /\ \A l \in DOMAIN f : l[1] # c

\* e and f differ in entry k at most.
SameBut(e, f, k) ==
  /\ DOMAIN e \ {k} = DOMAIN f \ {k}
  /\ \A l \in DOMAIN e \ {k} : f[l] = e[l]

-----------------------------------------------------------------------------
(* What the operations on tables do to the tree.                           *)

\* Linking an empty table, as allocate_next_level does.
LEMMA TreeLink ==
  ASSUME NEW e, NEW f, NEW T, NEW lev, NEW k, NEW c,
         TreeOf(e, T, lev), Linked(e, f, k, c),
         k[1] \in T, lev[k[1]] # 4, c \notin T, c # NULL, "W" \in f[k].flags
  PROVE  TreeOf(f, T \cup {c}, [t \in T \cup {c} |-> IF t = c THEN lev[k[1]] + 1 ELSE lev[t]])
<1> DEFINE U == T \cup {c}
           new == [t \in U |-> IF t = c THEN lev[k[1]] + 1 ELSE lev[t]]
<1>1. new \in [U -> 1 .. 4] /\ new[c] = lev[k[1]] + 1 /\ (\A t \in T : new[t] = lev[t])
  BY DEF TreeOf
<1>2. \A l \in DOMAIN f : l[1] \in T
  BY DEF TreeOf, Linked
<1>3. \A l \in DOMAIN f : new[l[1]] # 4 => f[l].addr \in U /\ new[f[l].addr] = new[l[1]] + 1
  BY <1>1, <1>2 DEF TreeOf, Linked
<1>4. \A l \in DOMAIN f : new[l[1]] # 4 => "W" \in f[l].flags
  BY <1>1, <1>2 DEF TreeOf, Linked
<1>5. \A t \in U : new[t] # 1 => \E l \in DOMAIN f : new[l[1]] # 4 /\ f[l].addr = t
  <2> TAKE t \in U
  <2> HAVE new[t] # 1
  <2>1. CASE t = c
    BY <1>1, <2>1 DEF Linked
  <2>2. CASE t # c
    <3>1. PICK l \in DOMAIN e : lev[l[1]] # 4 /\ e[l].addr = t
      BY <1>1, <2>2 DEF TreeOf
    <3>2. l \in DOMAIN f /\ f[l] = e[l] /\ l[1] \in T
      BY DEF Linked, TreeOf
    <3> QED BY <1>1, <3>1, <3>2
  <2> QED BY <2>1, <2>2
<1>6. \A l, m \in DOMAIN f :
        new[l[1]] # 4 /\ new[m[1]] # 4 /\ f[l].addr = f[m].addr => l = m
  BY <1>1, <1>2 DEF TreeOf, Linked
<1>7. \A t \in U : new[t] = 1 <=> t = top_level
  BY <1>1 DEF TreeOf
<1>8. top_level \in U \cup {NULL} /\ NULL \notin U
  BY DEF TreeOf
<1> HIDE DEF new, U
<1>9. TreeOf(f, U, new)
  BY <1>1, <1>2, <1>3, <1>4, <1>5, <1>6, <1>7, <1>8 DEF TreeOf, U
<1> QED BY <1>9 DEF new, U

\* Unlinking an empty table, as unmap_page does.
LEMMA TreeUnlink ==
  ASSUME NEW e, NEW f, NEW T, NEW lev, NEW k, NEW c,
         TreeOf(f, T, lev), Linked(e, f, k, c), lev[k[1]] # 4
  PROVE  TreeOf(e, T \ {c}, [t \in T \ {c} |-> lev[t]])
<1> DEFINE U == T \ {c}
           new == [t \in U |-> lev[t]]
<1>1. new \in [U -> 1 .. 4] /\ (\A t \in U : new[t] = lev[t])
  BY DEF TreeOf
<1>2. \A l \in DOMAIN e : l \in DOMAIN f /\ l # k /\ f[l] = e[l]
  BY DEF Linked
<1>3. \A l \in DOMAIN e : l[1] \in U
  BY <1>2 DEF TreeOf, Linked
<1>4. \A l \in DOMAIN e : new[l[1]] # 4 => e[l].addr \in U /\ new[e[l].addr] = new[l[1]] + 1
  BY <1>1, <1>2, <1>3 DEF TreeOf, Linked
<1>5. \A l \in DOMAIN e : new[l[1]] # 4 => "W" \in e[l].flags
  BY <1>1, <1>2, <1>3 DEF TreeOf, Linked
<1>6. \A t \in U : new[t] # 1 => \E l \in DOMAIN e : new[l[1]] # 4 /\ e[l].addr = t
  <2> TAKE t \in U
  <2> HAVE new[t] # 1
  <2>1. PICK l \in DOMAIN f : lev[l[1]] # 4 /\ f[l].addr = t
    BY <1>1 DEF TreeOf
  <2>2. l # k /\ l \in DOMAIN e
    BY <2>1 DEF Linked
  <2> QED BY <1>1, <1>2, <1>3, <2>1, <2>2
<1>7. \A l, m \in DOMAIN e :
        new[l[1]] # 4 /\ new[m[1]] # 4 /\ e[l].addr = e[m].addr => l = m
  BY <1>1, <1>2, <1>3 DEF TreeOf
<1>8. \A t \in U : new[t] = 1 <=> t = top_level
  BY <1>1 DEF TreeOf
<1>9. top_level \in U \cup {NULL} /\ NULL \notin U
  <2>1. k \in DOMAIN f /\ k[1] \in T /\ lev[c] = lev[k[1]] + 1 /\ c \in T
    BY DEF TreeOf, Linked
  <2>2. lev[c] # 1
    BY <2>1 DEF TreeOf
  <2> QED BY <2>1, <2>2 DEF TreeOf
<1> HIDE DEF new, U
<1>10. TreeOf(e, U, new)
  BY <1>1, <1>3, <1>4, <1>5, <1>6, <1>7, <1>8, <1>9 DEF TreeOf
<1> QED BY <1>10 DEF new, U

\* Entries of page tables may be anything.
LEMMA TreeLeaf ==
  ASSUME NEW e, NEW f, NEW T, NEW lev, NEW k,
         TreeOf(e, T, lev), SameBut(e, f, k), k[1] \in T, lev[k[1]] = 4
  PROVE  TreeOf(f, T, lev)
<1>1. \A l \in DOMAIN f : lev[l[1]] # 4 => l \in DOMAIN e /\ f[l] = e[l]
  BY DEF SameBut
<1>2. \A l \in DOMAIN e : lev[l[1]] # 4 => l \in DOMAIN f /\ f[l] = e[l]
  BY DEF SameBut
<1>3. \A l \in DOMAIN f : l[1] \in T
  BY DEF SameBut, TreeOf
<1> QED BY <1>1, <1>2, <1>3 DEF TreeOf

-----------------------------------------------------------------------------
(* Paths and translations.                                                 *)

\* The four entries a translation goes through, and that the first three lead on.
Reaches(e, v, t) ==
  /\ <<t[1], v[1]>> \in DOMAIN e /\ e[<<t[1], v[1]>>].addr = t[2]
  /\ <<t[2], v[2]>> \in DOMAIN e /\ e[<<t[2], v[2]>>].addr = t[3]
  /\ <<t[3], v[3]>> \in DOMAIN e /\ e[<<t[3], v[3]>>].addr = t[4]

\* The tables on a path, level by level.
LEMMA PathSteps ==
  ASSUME NEW e, NEW v
  PROVE  /\ Path(e, v)[1] = top_level
         /\ Path(e, v)[2] = get_next_level(e, Path(e, v)[1], v[1])
         /\ Path(e, v)[3] = get_next_level(e, Path(e, v)[2], v[2])
         /\ Path(e, v)[4] = get_next_level(e, Path(e, v)[3], v[3])
BY DEF Path

\* A path that ends in a table went through present entries, one level at a time.
LEMMA PathReaches ==
  ASSUME NEW e, NEW T, NEW lev, TreeOf(e, T, lev), NEW v, Path(e, v)[4] # NULL
  PROVE  /\ Reaches(e, v, Path(e, v))
         /\ Path(e, v)[1] \in T /\ lev[Path(e, v)[1]] = 1
         /\ Path(e, v)[2] \in T /\ lev[Path(e, v)[2]] = 2
         /\ Path(e, v)[3] \in T /\ lev[Path(e, v)[3]] = 3
         /\ Path(e, v)[4] \in T /\ lev[Path(e, v)[4]] = 4
<1> DEFINE p1 == Path(e, v)[1]  p2 == Path(e, v)[2]  p3 == Path(e, v)[3]  p4 == Path(e, v)[4]
<1>0. /\ p1 = top_level /\ p2 = get_next_level(e, p1, v[1])
      /\ p3 = get_next_level(e, p2, v[2]) /\ p4 = get_next_level(e, p3, v[3]) /\ p4 # NULL
  BY PathSteps
<1> HIDE DEF p1, p2, p3, p4
<1>1. \A t, i : <<t, i>> \in DOMAIN e => t \in T
  BY DEF TreeOf
<1>2. \A t, i : get_next_level(e, t, i) # NULL =>
                 <<t, i>> \in DOMAIN e /\ e[<<t, i>>].addr = get_next_level(e, t, i)
  BY DEF get_next_level
<1>3. NULL \notin T
  BY DEF TreeOf
<1>4. <<p3, v[3]>> \in DOMAIN e /\ e[<<p3, v[3]>>].addr = p4 /\ p3 \in T
  BY <1>0, <1>1, <1>2
<1>5. <<p2, v[2]>> \in DOMAIN e /\ e[<<p2, v[2]>>].addr = p3 /\ p2 \in T
  BY <1>0, <1>1, <1>2, <1>3, <1>4
<1>6. <<p1, v[1]>> \in DOMAIN e /\ e[<<p1, v[1]>>].addr = p2 /\ p1 \in T
  BY <1>0, <1>1, <1>2, <1>3, <1>5
<1>7. \A t, i : <<t, i>> \in DOMAIN e /\ lev[t] # 4 =>
                 e[<<t, i>>].addr \in T /\ lev[e[<<t, i>>].addr] = lev[t] + 1
  BY DEF TreeOf
<1>8. lev[p1] = 1
  BY <1>0, <1>6 DEF TreeOf
<1>9. p2 \in T /\ lev[p2] = 2
  BY <1>6, <1>7, <1>8
<1>10. p3 \in T /\ lev[p3] = 3
  BY <1>5, <1>7, <1>9
<1>11. p4 \in T /\ lev[p4] = 4
  BY <1>4, <1>7, <1>10
<1>12. Reaches(e, v, Path(e, v))
  BY <1>4, <1>5, <1>6 DEF Reaches, p1, p2, p3, p4
<1> QED BY <1>6, <1>8, <1>9, <1>10, <1>11, <1>12 DEF p1, p2, p3, p4

\* Present entries that lead from the PML4 to a table are the path.
LEMMA ReachesPath ==
  ASSUME NEW e, NEW v, NEW t, t[1] = top_level, Reaches(e, v, t)
  PROVE  /\ Path(e, v)[1] = t[1] /\ Path(e, v)[2] = t[2]
         /\ Path(e, v)[3] = t[3] /\ Path(e, v)[4] = t[4]
<1>1. \A a, i : <<a, i>> \in DOMAIN e => get_next_level(e, a, i) = e[<<a, i>>].addr
  BY DEF get_next_level
<1> QED BY <1>1, PathSteps DEF Reaches

\* Two pages with the same page table and the same place in it are one.
LEMMA OnePage ==
  ASSUME NEW e, NEW T, NEW lev, TreeOf(e, T, lev), NEW u \in AllVirt, NEW v \in AllVirt,
         Path(e, u)[4] # NULL, Path(e, u)[4] = Path(e, v)[4], u[4] = v[4]
  PROVE  u = v
<1> DEFINE p == Path(e, u)  q == Path(e, v)
<1>1. /\ Reaches(e, u, p) /\ lev[p[1]] = 1 /\ lev[p[2]] = 2 /\ lev[p[3]] = 3
      /\ Reaches(e, v, q) /\ lev[q[1]] = 1 /\ lev[q[2]] = 2 /\ lev[q[3]] = 3
  BY PathReaches
<1> HIDE DEF p, q
<1>2. \A a, b, i, j : /\ <<a, i>> \in DOMAIN e /\ lev[a] # 4 /\ <<b, j>> \in DOMAIN e /\ lev[b] # 4
                      /\ e[<<a, i>>].addr = e[<<b, j>>].addr
                      => a = b /\ i = j
  <2> TAKE a, b, i, j
  <2> HAVE /\ <<a, i>> \in DOMAIN e /\ lev[a] # 4 /\ <<b, j>> \in DOMAIN e /\ lev[b] # 4
           /\ e[<<a, i>>].addr = e[<<b, j>>].addr
  <2>1. <<a, i>> = <<b, j>>
    BY DEF TreeOf
  <2> QED BY <2>1
<1>3. p[4] = q[4]
  BY DEF p, q
<1>4. p[3] = q[3] /\ u[3] = v[3]
  BY <1>1, <1>2, <1>3 DEF Reaches
<1>5. p[2] = q[2] /\ u[2] = v[2]
  BY <1>1, <1>2, <1>4 DEF Reaches
<1>6. u[1] = v[1]
  BY <1>1, <1>2, <1>5 DEF Reaches
<1> QED BY <1>4, <1>5, <1>6, VmmAssumption

\* A path that ends nowhere translates nothing.
LEMMA WalkNull ==
  ASSUME NEW e, NEW T, NEW lev, TreeOf(e, T, lev), NEW v, Path(e, v)[4] = NULL
  PROVE  Walk(e, v) = NoTranslation
<1>1. <<Path(e, v)[4], v[4]>> \notin DOMAIN e
  BY DEF TreeOf
<1> QED BY <1>1 DEF Walk

\* A translation depends on the four entries of its path only.
LEMMA WalkSame ==
  ASSUME NEW e, NEW f, NEW v,
         \A l \in 1 .. 4 : Path(f, v)[l] = Path(e, v)[l],
         <<Path(e, v)[4], v[4]>> \in DOMAIN e <=> <<Path(e, v)[4], v[4]>> \in DOMAIN f,
         <<Path(e, v)[4], v[4]>> \in DOMAIN e =>
           \A l \in 1 .. 4 : f[<<Path(e, v)[l], v[l]>>] = e[<<Path(e, v)[l], v[l]>>]
  PROVE  Walk(f, v) = Walk(e, v)
<1> DEFINE p == Path(e, v)  q == Path(f, v)
           rights(g, r) == {x \in g[<<r[4], v[4]>>].flags :
                         x \in {"W", "U"} => \A l \in 1 .. 3 : x \in g[<<r[l], v[l]>>].flags}
<1>1. CASE <<p[4], v[4]>> \notin DOMAIN e
  BY <1>1 DEF Walk
<1>2. CASE <<p[4], v[4]>> \in DOMAIN e
  <2>1. /\ Walk(e, v) = [addr |-> e[<<p[4], v[4]>>].addr, flags |-> rights(e, p)]
        /\ Walk(f, v) = [addr |-> f[<<q[4], v[4]>>].addr, flags |-> rights(f, q)]
    BY <1>2 DEF Walk
  <2>2. \A l \in 1 .. 4 : f[<<q[l], v[l]>>] = e[<<p[l], v[l]>>]
    BY <1>2
  <2>3. rights(e, p) = rights(f, q)
    <3> HIDE DEF p, q
    <3>1. f[<<q[4], v[4]>>] = e[<<p[4], v[4]>>] /\ (\A l \in 1 .. 3 : f[<<q[l], v[l]>>] = e[<<p[l], v[l]>>])
      BY <2>2
    <3> QED BY <3>1
  <2>4. f[<<q[4], v[4]>>].addr = e[<<p[4], v[4]>>].addr
    BY <2>2
  <2> HIDE DEF rights
  <2> QED BY <2>1, <2>3, <2>4
<1> QED BY <1>1, <1>2

\* Linking or unlinking an empty table changes no translation.
LEMMA WalkLink ==
  ASSUME NEW e, NEW f, NEW T, NEW lev, NEW k, NEW c,
         TreeOf(f, T, lev), Linked(e, f, k, c), lev[k[1]] # 4, NEW v
  PROVE  Walk(f, v) = Walk(e, v)
<1> DEFINE p == Path(e, v)  q == Path(f, v)
<1>0. PICK lev0 : TreeOf(e, T \ {c}, lev0)
  BY TreeUnlink
<1>1. CASE p[4] # NULL
  <2>1. Reaches(e, v, p) /\ p[1] = top_level
    BY <1>0, <1>1, PathReaches, PathSteps
  <2>2. Reaches(f, v, p)
    BY <2>1 DEF Reaches, Linked
  <2>3. q[1] = p[1] /\ q[2] = p[2] /\ q[3] = p[3] /\ q[4] = p[4]
    BY <2>1, <2>2, ReachesPath
  <2>4. lev[p[4]] = 4
    BY <1>1, <2>3, PathReaches
  <2> HIDE DEF p, q
  <2>5. <<p[4], v[4]>> # k
    BY <2>4
  <2>6. <<p[4], v[4]>> \in DOMAIN e <=> <<p[4], v[4]>> \in DOMAIN f
    BY <2>5 DEF Linked
  <2>7. <<p[4], v[4]>> \in DOMAIN e => \A l \in 1 .. 4 : f[<<p[l], v[l]>>] = e[<<p[l], v[l]>>]
    BY <2>1 DEF Linked, Reaches
  <2>8. \A l \in 1 .. 4 : q[l] = p[l]
    BY <2>3
  <2> QED BY <2>6, <2>7, <2>8, WalkSame DEF p, q
<1>2. CASE p[4] = NULL
  <2>1. Walk(e, v) = NoTranslation
    BY <1>0, <1>2, WalkNull
  <2>2. CASE q[4] = NULL
    BY <2>1, <2>2, WalkNull
  <2>3. CASE q[4] # NULL /\ <<q[4], v[4]>> \notin DOMAIN f
    BY <2>1, <2>3 DEF Walk
  <2>4. CASE q[4] # NULL /\ <<q[4], v[4]>> \in DOMAIN f
    <3>1. Reaches(f, v, q) /\ q[1] = top_level
      BY <2>4, PathReaches, PathSteps
    <3>2. Reaches(e, v, q)
      <4> HIDE DEF q
      <4>1. k # <<q[1], v[1]>> /\ k # <<q[2], v[2]>> /\ k # <<q[3], v[3]>>
        BY <2>4, <3>1 DEF Reaches, Linked
      <4> QED BY <3>1, <4>1 DEF Reaches, Linked
    <3>3. p[4] = q[4]
      BY <3>1, <3>2, ReachesPath
    <3> QED BY <1>2, <2>4, <3>3
  <2> QED BY <2>2, <2>3, <2>4
<1> QED BY <1>1, <1>2

\* Writing or clearing an entry of a page table leaves every path, and every
\* translation that does not end in that entry.
LEMMA LeafPath ==
  ASSUME NEW e, NEW f, NEW T, NEW lev, NEW k,
         TreeOf(e, T, lev), SameBut(e, f, k), k[1] \in T, lev[k[1]] = 4, NEW v
  PROVE  Path(f, v) = Path(e, v)
<1> DEFINE p == Path(e, v)  q == Path(f, v)
<1>0. \A t, i : t \in T /\ lev[t] # 4 => get_next_level(f, t, i) = get_next_level(e, t, i)
  <2> TAKE t, i
  <2> HAVE t \in T /\ lev[t] # 4
  <2>1. <<t, i>> # k
    OBVIOUS
  <2> QED BY <2>1 DEF get_next_level, SameBut
<1>1. \A t, i : t \notin T => get_next_level(f, t, i) = NULL /\ get_next_level(e, t, i) = NULL
  BY TreeLeaf DEF get_next_level, TreeOf
<1>2. \A t, i : t \in T /\ lev[t] # 4 /\ get_next_level(e, t, i) # NULL =>
         get_next_level(e, t, i) \in T /\ lev[get_next_level(e, t, i)] = lev[t] + 1
  BY DEF get_next_level, TreeOf
<1>3. /\ p[1] = top_level /\ p[2] = get_next_level(e, p[1], v[1])
      /\ p[3] = get_next_level(e, p[2], v[2]) /\ p[4] = get_next_level(e, p[3], v[3])
      /\ q[1] = top_level /\ q[2] = get_next_level(f, q[1], v[1])
      /\ q[3] = get_next_level(f, q[2], v[2]) /\ q[4] = get_next_level(f, q[3], v[3])
      /\ p = <<p[1], p[2], p[3], p[4]>> /\ q = <<q[1], q[2], q[3], q[4]>>
  BY DEF Path
<1> HIDE DEF p, q
<1>4. NULL \notin T /\ (top_level \in T => lev[top_level] = 1)
  BY DEF TreeOf
<1>5. q[1] = p[1] /\ (p[1] \in T => lev[p[1]] = 1)
  BY <1>3, <1>4
<1>6. q[2] = p[2] /\ (p[2] \in T => lev[p[2]] = 2)
  BY <1>0, <1>1, <1>2, <1>3, <1>4, <1>5
<1>7. q[3] = p[3] /\ (p[3] \in T => lev[p[3]] = 3)
  BY <1>0, <1>1, <1>2, <1>3, <1>4, <1>6
<1>8. q[4] = p[4]
  BY <1>0, <1>1, <1>2, <1>3, <1>4, <1>7
<1> QED BY <1>3, <1>5, <1>6, <1>7, <1>8 DEF p, q

\* A page whose path does not end at the entry is translated as before.
LEMMA LeafElsewhere ==
  ASSUME NEW e, NEW f, NEW T, NEW lev, NEW k,
         TreeOf(e, T, lev), SameBut(e, f, k), k[1] \in T, lev[k[1]] = 4, NEW v,
         <<Path(e, v)[4], v[4]>> # k
  PROVE  Walk(f, v) = Walk(e, v)
<1> DEFINE p == Path(e, v)
<1>1. Path(f, v) = p
  BY LeafPath
<1>2. <<p[4], v[4]>> \in DOMAIN e <=> <<p[4], v[4]>> \in DOMAIN f
  BY DEF SameBut
<1>3. CASE p[4] = NULL
  BY <1>1, <1>3, WalkNull, TreeLeaf
<1>4. CASE p[4] # NULL
  <2>1. Reaches(e, v, p) /\ lev[p[1]] = 1 /\ lev[p[2]] = 2 /\ lev[p[3]] = 3
    BY <1>4, PathReaches
  <2> HIDE DEF p
  <2>2. <<p[1], v[1]>> # k /\ <<p[2], v[2]>> # k /\ <<p[3], v[3]>> # k /\ <<p[4], v[4]>> # k
    BY <2>1 DEF p
  <2>3. <<p[4], v[4]>> \in DOMAIN e => \A l \in 1 .. 4 : f[<<p[l], v[l]>>] = e[<<p[l], v[l]>>]
    BY <2>1, <2>2 DEF Reaches, SameBut
  <2> QED BY <1>1, <1>2, <2>3, WalkSame DEF p
<1> QED BY <1>3, <1>4

\* Writing the entry of a page gives that page the translation asked for, and
\* changes no other; nobody asks for USER, and every table is linked writable.
LEMMA MapLeaf ==
  ASSUME NEW e, NEW T, NEW lev, TreeOf(e, T, lev), NEW v \in AllVirt, NEW t, NEW p, NEW flags,
         Path(e, v)[4] = t, t # NULL, "U" \notin flags
  PROVE  LET f == SetEntry(e, t, v[4], [addr |-> p, flags |-> flags])
         IN  /\ TreeOf(f, T, lev)
             /\ Walk(f, v) = [addr |-> p, flags |-> flags]
             /\ \A u \in AllVirt \ {v} : Walk(f, u) = Walk(e, u)
             /\ \A k \in DOMAIN e : k \in DOMAIN f /\ (lev[k[1]] # 4 => f[k] = e[k])
<1> DEFINE f == SetEntry(e, t, v[4], [addr |-> p, flags |-> flags])
           k == <<t, v[4]>>
           q == Path(e, v)
<1>1. /\ Reaches(e, v, q) /\ lev[q[1]] = 1 /\ lev[q[2]] = 2 /\ lev[q[3]] = 3
      /\ q[1] \in T /\ q[2] \in T /\ q[3] \in T /\ t \in T /\ lev[t] = 4 /\ q[4] = t
  BY PathReaches
<1> HIDE DEF q
<1>2. /\ DOMAIN f = DOMAIN e \cup {k} /\ f[k] = [addr |-> p, flags |-> flags]
      /\ \A l \in DOMAIN e \ {k} : f[l] = e[l]
  BY DEF SetEntry
<1> HIDE DEF f
<1>3. SameBut(e, f, k) /\ k[1] = t
  BY <1>2 DEF SameBut
<1>4. TreeOf(f, T, lev)
  BY <1>1, <1>3, TreeLeaf
<1>5. Walk(f, v) = [addr |-> p, flags |-> flags]
  <2>1. Path(f, v) = q
    BY <1>1, <1>3, LeafPath DEF q
  <2>2. \A l \in 1 .. 3 : "W" \in f[<<q[l], v[l]>>].flags
    <3>1. \A l \in 1 .. 3 : <<q[l], v[l]>> \in DOMAIN e /\ lev[q[l]] # 4
      BY <1>1 DEF Reaches
    <3>2. \A l \in 1 .. 3 : <<q[l], v[l]>> # k
      BY <1>1, <3>1
    <3> QED BY <1>2, <3>1, <3>2 DEF TreeOf
  <2>3. {x \in flags : x \in {"W", "U"} => \A l \in 1 .. 3 : x \in f[<<q[l], v[l]>>].flags} = flags
    BY <2>2
  <2>4. f[<<q[4], v[4]>>] = [addr |-> p, flags |-> flags] /\ <<q[4], v[4]>> \in DOMAIN f
    BY <1>1, <1>2
  <2>5. f[<<q[4], v[4]>>].addr = p /\ f[<<q[4], v[4]>>].flags = flags
    BY <2>4
  <2> QED BY <2>1, <2>3, <2>4, <2>5 DEF Walk
<1>6. \A u \in AllVirt \ {v} : Walk(f, u) = Walk(e, u)
  <2> TAKE u \in AllVirt \ {v}
  <2>1. <<Path(e, u)[4], u[4]>> # k
    <3> SUFFICES ASSUME <<Path(e, u)[4], u[4]>> = k PROVE FALSE
      OBVIOUS
    <3>1. Path(e, u)[4] = t /\ u[4] = v[4]
      OBVIOUS
    <3> QED BY <3>1, OnePage
  <2> QED BY <1>1, <1>3, <2>1, LeafElsewhere
<1>7. \A l \in DOMAIN e : l \in DOMAIN f /\ (lev[l[1]] # 4 => f[l] = e[l])
  BY <1>1, <1>2
<1> QED BY <1>4, <1>5, <1>6, <1>7 DEF f

\* Clearing it removes the translation of that page, and no other.
LEMMA ClearLeaf ==
  ASSUME NEW e, NEW T, NEW lev, TreeOf(e, T, lev), NEW v \in AllVirt, Path(e, v)[4] # NULL
  PROVE  LET f == Without(e, {<<Path(e, v)[4], v[4]>>})
         IN  /\ TreeOf(f, T, lev)
             /\ \A u : Path(f, u) = Path(e, u)
             /\ Walk(f, v) = NoTranslation
             /\ \A u \in AllVirt \ {v} : Walk(f, u) = Walk(e, u)
<1> DEFINE t == Path(e, v)[4]
           k == <<t, v[4]>>
           f == Without(e, {k})
<1>1. t \in T /\ lev[t] = 4 /\ t # NULL
  BY PathReaches
<1> HIDE DEF t
<1>2. DOMAIN f = DOMAIN e \ {k} /\ \A l \in DOMAIN e \ {k} : f[l] = e[l]
  BY DEF Without, Restrict
<1> HIDE DEF f
<1>3. SameBut(e, f, k) /\ k[1] = t
  BY <1>2 DEF SameBut
<1>4. TreeOf(f, T, lev)
  BY <1>1, <1>3, TreeLeaf
<1>5. \A u : Path(f, u) = Path(e, u)
  BY <1>1, <1>3, LeafPath
<1>6. Walk(f, v) = NoTranslation
  <2>1. <<Path(f, v)[4], v[4]>> \notin DOMAIN f
    BY <1>2, <1>5 DEF t
  <2> QED BY <2>1 DEF Walk
<1>7. \A u \in AllVirt \ {v} : Walk(f, u) = Walk(e, u)
  <2> TAKE u \in AllVirt \ {v}
  <2>1. <<Path(e, u)[4], u[4]>> # k
    <3> SUFFICES ASSUME <<Path(e, u)[4], u[4]>> = k PROVE FALSE
      OBVIOUS
    <3>1. Path(e, u)[4] = t /\ u[4] = v[4]
      OBVIOUS
    <3> QED BY <1>1, <3>1, OnePage DEF t
  <2> QED BY <1>1, <1>3, <2>1, LeafElsewhere
<1> QED BY <1>4, <1>5, <1>6, <1>7 DEF f, t

-----------------------------------------------------------------------------
(* The descent of map_page, one level at a time.                           *)

IsWalk(w) ==
  w = [e |-> w.e, free |-> w.free, table |-> w.table, budget |-> w.budget, pc |-> w.pc]

\* The kernel has stopped, in a panic or in the handler of a fault.
Stopped == {"panic", "fault"}

\* The tables of w are a tree of the frames taken, and w has reached level l.
At(w, l) ==
  /\ IsWalk(w) /\ w.pc \in Stopped \cup {pc}
  /\ w.free \subseteq Frames
  /\ \E lev : /\ TreeOf(w.e, Frames \ w.free, lev)
              /\ w.table # NULL => w.table \in Frames \ w.free /\ lev[w.table] = l

\* x has the entries of w, and every page the translation it has in w.
Grown(w, x) ==
  /\ DOMAIN w.e \subseteq DOMAIN x.e
  /\ \A k \in DOMAIN w.e : x.e[k] = w.e[k]
  /\ \A v : Walk(x.e, v) = Walk(w.e, v)

\* A step of the walk through entry index, to the table it links.
Through(w, index, x) ==
  x.table # NULL => <<w.table, index>> \in DOMAIN x.e /\ x.e[<<w.table, index>>].addr = x.table

\* One level further down, the tables are a tree and nothing is translated otherwise.
LEMMA StepDown ==
  ASSUME NEW w, NEW l \in 1 .. 3, NEW index, NEW flags, At(w, l),
         flags = {} \/ "W" \in flags
  PROVE  LET x == get_or_allocate_next_level(w, index, flags)
         IN  At(x, l + 1) /\ Grown(w, x) /\ Through(w, index, x)
<1> DEFINE x == get_or_allocate_next_level(w, index, flags)
           T == Frames \ w.free
           k == <<w.table, index>>
<1> SUFFICES At(x, l + 1) /\ Grown(w, x) /\ Through(w, index, x)
  OBVIOUS
<1>1. PICK lev : /\ TreeOf(w.e, T, lev)
                 /\ w.table # NULL => w.table \in T /\ lev[w.table] = l
  BY DEF At
<1>2. ASSUME NEW y, IsWalk(y), y.pc \in Stopped \cup {pc}, y.e = w.e, y.free = w.free, y.table = NULL
      PROVE  At(y, l + 1) /\ Grown(w, y) /\ Through(w, index, y)
  BY <1>1, <1>2 DEF At, Grown, Through
<1>a. IsWalk(w) /\ w.pc \in Stopped \cup {pc}
  BY DEF At
<1>b. ASSUME NEW how \in Stopped, x = Stops(w, how)
      PROVE  At(x, l + 1) /\ Grown(w, x) /\ Through(w, index, x)
  <2>1. x.e = w.e /\ x.free = w.free /\ x.table = NULL /\ x.pc = how /\ IsWalk(x)
    BY <1>a, <1>b DEF IsWalk, Stops
  <2> HIDE DEF x
  <2> QED BY <1>2, <1>b, <2>1
<1>3. CASE w.table = NULL
  <2>1. x = w
    BY <1>3 DEF get_or_allocate_next_level
  <2> QED BY <1>2, <1>3, <1>a, <2>1
<1>c. CASE w.table # NULL /\ ~Readable(w.table)
  <2>1. x = Stops(w, "fault")
    BY <1>c DEF get_or_allocate_next_level
  <2> QED BY <1>b, <2>1 DEF Stopped
<1>4. CASE w.table # NULL /\ Readable(w.table) /\ k \in DOMAIN w.e
  <2>1. x = [w EXCEPT !.table = w.e[k].addr]
    BY <1>4 DEF get_or_allocate_next_level
  <2>2. x.e = w.e /\ x.free = w.free /\ x.table = w.e[k].addr /\ x.pc = w.pc /\ IsWalk(x)
    BY <1>a, <2>1 DEF IsWalk
  <2>3. x.table \in T /\ lev[x.table] = l + 1
    BY <1>1, <1>4, <2>2 DEF TreeOf
  <2> HIDE DEF x
  <2> QED BY <1>1, <1>4, <1>a, <2>2, <2>3 DEF At, Grown, Through
<1>5. CASE w.table # NULL /\ Readable(w.table) /\ k \notin DOMAIN w.e
  <2> DEFINE c == Pick(w.free)
             entry == [addr |-> c, flags |-> IF flags = {} THEN {"W"} ELSE flags]
             f == SetEntry(Zeroed(w.e, c), w.table, index, entry)
  <2>1. x = Linking(w, index, c, entry, w.free \ {c})
    BY <1>5 DEF get_or_allocate_next_level, allocate_next_level
  <2>2. CASE w.budget = 0 /\ Writable(NULL)
    <3>1. x = [w EXCEPT !.table = NULL]
      BY <2>1, <2>2 DEF Linking
    <3>2. x.e = w.e /\ x.free = w.free /\ x.table = NULL /\ x.pc = w.pc /\ IsWalk(x)
      BY <1>a, <3>1 DEF IsWalk
    <3> HIDE DEF x
    <3> QED BY <1>2, <1>a, <3>2
  <2>3. CASE x = Stops(w, "fault") \/ x = Stops(w, "panic")
    <3> HIDE DEF x
    <3> QED BY <1>b, <2>3 DEF Stopped
  <2>4. CASE w.budget # 0 /\ w.free # {} /\ Writable(c) /\ Writable(w.table)
    <3>1. x = [e |-> f, free |-> w.free \ {c}, table |-> c, budget |-> w.budget - 1,
               pc |-> w.pc]
      BY <2>1, <2>4 DEF Linking
    <3>2. x.e = f /\ x.free = w.free \ {c} /\ x.table = c /\ x.pc = w.pc /\ IsWalk(x)
      BY <3>1 DEF IsWalk
    <3> HIDE DEF x
    <3>3. c \in w.free /\ w.free \subseteq Frames /\ c # NULL
      BY <2>4, VmmAssumption DEF At
    <3>4. c \notin T /\ Frames \ x.free = T \cup {c}
      BY <3>2, <3>3
    <3> HIDE DEF c
    <3>5. \A m \in DOMAIN w.e : m[1] # c
      BY <1>1, <3>4 DEF TreeOf
    <3>6. DOMAIN f = DOMAIN w.e \cup {k} /\ f[k] = entry /\ (\A m \in DOMAIN w.e : f[m] = w.e[m])
      <4>1. Zeroed(w.e, c) = [m \in DOMAIN w.e |-> w.e[m]]
        BY <3>5 DEF Zeroed, Restrict
      <4> QED BY <4>1, <1>5 DEF SetEntry
    <3> HIDE DEF f
    <3>7. f[k].addr = c /\ "W" \in f[k].flags
      BY <3>6
    <3>8. Linked(w.e, f, k, c)
      BY <1>1, <1>5, <3>4, <3>5, <3>6, <3>7 DEF Linked
    <3> DEFINE new == [t \in T \cup {c} |-> IF t = c THEN lev[k[1]] + 1 ELSE lev[t]]
    <3>9. k[1] = w.table /\ w.table \in T /\ lev[k[1]] = l
      BY <1>1, <1>5
    <3> HIDE DEF k, T
    <3>10. TreeOf(f, T \cup {c}, new)
      BY <1>1, <3>3, <3>4, <3>7, <3>8, <3>9, TreeLink
    <3>11. new[c] = l + 1 /\ new[k[1]] # 4
      BY <3>4, <3>9
    <3> HIDE DEF new
    <3>12. \A v : Walk(f, v) = Walk(w.e, v)
      BY <3>8, <3>10, <3>11, WalkLink
    <3>13. At(x, l + 1)
      BY <1>a, <3>2, <3>3, <3>4, <3>10, <3>11 DEF At, T
    <3>14. Grown(w, x)
      BY <3>2, <3>6, <3>12 DEF Grown
    <3>15. Through(w, index, x)
      BY <3>2, <3>6, <3>7 DEF Through, k
    <3> QED BY <3>13, <3>14, <3>15
  <2> QED BY <2>1, <2>2, <2>3, <2>4 DEF Linking
<1> QED BY <1>3, <1>4, <1>5, <1>c

\* The frames taken from the allocator form the tree.
Tree == free \subseteq Frames /\ \E lev : TreeOf(entries, Frames \ free, lev)

\* The tree after a step that keeps the PML4.
LEMMA TreeNext ==
  ASSUME top_level' = top_level, free' \subseteq Frames, NEW lev, TreeOf(entries', Frames \ free', lev)
  PROVE  Tree'
<1>1. TreeOf(entries, Frames \ free, lev)'
  BY DEF TreeOf
<1> QED BY <1>1 DEF Tree

\* The descent of map_page keeps what the tables hold, keeps every translation, and
\* reaches the page table of v unless memory runs out.
LEMMA DescendReaches ==
  ASSUME Tree, top_level # NULL, NEW v, NEW flags, NEW budget
  PROVE  LET w == Descend(v, flags, budget)
         IN  At(w, 4) /\ Grown(Start(budget), w) /\ (w.table # NULL => Path(w.e, v)[4] = w.table)
<1> DEFINE alloc_flags == {"W"} \cup (flags \cap {"U"})
           w0 == Start(budget)
           w1 == get_or_allocate_next_level(w0, v[1], alloc_flags)
           w2 == get_or_allocate_next_level(w1, v[2], alloc_flags)
           w3 == get_or_allocate_next_level(w2, v[3], alloc_flags)
           t == <<top_level, w1.table, w2.table, w3.table>>
           x == Descend(v, flags, budget)
<1>0. x = w3 \/ x = Stops(w3, "fault")
  BY DEF Descend
<1>1. "W" \in alloc_flags
  OBVIOUS
<1>2. At(w0, 1) /\ w0.table = top_level
  <2>1. w0.e = entries /\ w0.free = free /\ w0.table = top_level /\ w0.pc = pc /\ IsWalk(w0)
    BY DEF Start, IsWalk
  <2> HIDE DEF w0
  <2>2. PICK lev : TreeOf(entries, Frames \ free, lev)
    BY DEF Tree
  <2>3. top_level \in Frames \ free /\ lev[top_level] = 1
    BY <2>2 DEF TreeOf
  <2> QED BY <2>1, <2>2, <2>3 DEF At, Tree
<1> HIDE DEF alloc_flags, w0, x
<1>3. At(w1, 2) /\ Grown(w0, w1) /\ Through(w0, v[1], w1)
  BY <1>1, <1>2, StepDown
<1> HIDE DEF w1
<1>4. At(w2, 3) /\ Grown(w1, w2) /\ Through(w1, v[2], w2)
  BY <1>1, <1>3, StepDown
<1> HIDE DEF w2
<1>5. At(w3, 4) /\ Grown(w2, w3) /\ Through(w2, v[3], w3)
  BY <1>1, <1>4, StepDown
<1> HIDE DEF w3
<1>6. Grown(w0, w3)
  BY <1>3, <1>4, <1>5 DEF Grown
<1>7. ASSUME w3.table # NULL
      PROVE  Path(w3.e, v)[4] = w3.table
  <2>1. <<w2.table, v[3]>> \in DOMAIN w3.e /\ w3.e[<<w2.table, v[3]>>].addr = w3.table
    BY <1>5, <1>7 DEF Through
  <2>2. w2.table # NULL
    BY <1>5, <2>1 DEF At, TreeOf
  <2>3. <<w1.table, v[2]>> \in DOMAIN w2.e /\ w2.e[<<w1.table, v[2]>>].addr = w2.table
    BY <1>4, <2>2 DEF Through
  <2>4. w1.table # NULL
    BY <1>4, <2>3 DEF At, TreeOf
  <2>5. <<w0.table, v[1]>> \in DOMAIN w1.e /\ w1.e[<<w0.table, v[1]>>].addr = w1.table
    BY <1>3, <2>4 DEF Through
  <2>6. Reaches(w3.e, v, t)
    BY <1>2, <1>4, <1>5, <2>1, <2>3, <2>5 DEF Reaches, Grown
  <2>7. t[1] = top_level /\ t[4] = w3.table
    OBVIOUS
  <2> HIDE DEF t
  <2> QED BY <2>6, <2>7, ReachesPath
<1>8. CASE x = w3
  BY <1>5, <1>6, <1>7, <1>8 DEF w0, x
<1>9. CASE x = Stops(w3, "fault")
  <2>1. x.e = w3.e /\ x.free = w3.free /\ x.table = NULL /\ x.pc = "fault" /\ IsWalk(x)
    BY <1>5, <1>9 DEF At, IsWalk, Stops
  <2>2. At(x, 4)
    BY <1>5, <2>1 DEF At, Stopped
  <2>3. Grown(w0, x)
    BY <1>6, <2>1 DEF Grown
  <2> QED BY <2>1, <2>2, <2>3 DEF w0, x
<1> QED BY <1>0, <1>8, <1>9

\* What a call of map_page does to the tables: either the translation of v, and no
\* other, is set and flushed, or the walk failed and no translation changed.
Maps(v, p, flags) ==
  /\ Walk(entries', v) = [addr |-> p, flags |-> flags]
  /\ \A u \in AllVirt \ {v} : Walk(entries', u) = Walk(entries, u)
  /\ tlb' = Flushed(v)

Keeps == (\A u : Walk(entries', u) = Walk(entries, u)) /\ tlb' = tlb

\* The entries of the PML4 are kept.
KeepsTop ==
  \A k \in DOMAIN entries : k[1] = top_level => k \in DOMAIN entries' /\ entries'[k] = entries[k]

\* map_page as a whole: the page is mapped, or a table could not be allocated.
LEMMA MapStep ==
  ASSUME Tree, top_level # NULL, NEW v \in AllVirt, NEW p, NEW flags, NEW budget,
         "U" \notin flags, NEW w, w = Descend(v, flags, budget),
         free' = w.free, top_level' = top_level,
         (w.table # NULL /\ Mapped(w, v, p, flags)) \/ (w.table = NULL /\ MapFails(w))
  PROVE  /\ Tree' /\ KeepsTop /\ w.pc \in Stopped \cup {pc}
         /\ (w.table # NULL /\ Maps(v, p, flags)) \/ (w.table = NULL /\ Keeps)
<1>1. At(w, 4) /\ Grown(Start(budget), w) /\ (w.table # NULL => Path(w.e, v)[4] = w.table)
  BY DescendReaches
<1>2. Start(budget).e = entries
  BY DEF Start
<1>3. PICK lev : TreeOf(w.e, Frames \ w.free, lev)
  BY <1>1 DEF At
<1>4. \A k \in DOMAIN entries : k \in DOMAIN w.e /\ w.e[k] = entries[k]
  BY <1>1, <1>2 DEF Grown
<1>5. \A u : Walk(w.e, u) = Walk(entries, u)
  BY <1>1, <1>2 DEF Grown
<1>6. CASE w.table = NULL /\ MapFails(w)
  <2>1. entries' = w.e /\ tlb' = tlb
    BY <1>6 DEF MapFails
  <2>2. Tree'
    BY <1>1, <1>3, <2>1, TreeNext DEF At
  <2>3. KeepsTop
    BY <1>4, <2>1 DEF KeepsTop
  <2>4. Keeps
    BY <1>5, <2>1 DEF Keeps
  <2> QED BY <1>1, <1>6, <2>2, <2>3, <2>4 DEF At
<1>7. CASE w.table # NULL /\ Mapped(w, v, p, flags)
  <2>1. entries' = SetEntry(w.e, w.table, v[4], [addr |-> p, flags |-> flags]) /\ tlb' = Flushed(v)
    BY <1>7 DEF Mapped
  <2>2. /\ TreeOf(entries', Frames \ w.free, lev)
        /\ Walk(entries', v) = [addr |-> p, flags |-> flags]
        /\ \A u \in AllVirt \ {v} : Walk(entries', u) = Walk(w.e, u)
        /\ \A k \in DOMAIN w.e : k \in DOMAIN entries' /\ (lev[k[1]] # 4 => entries'[k] = w.e[k])
    BY <1>1, <1>3, <1>7, <2>1, MapLeaf
  <2>3. Tree'
    <3>1. TreeOf(entries', Frames \ free', lev)
      BY <2>2
    <3>2. w.free \subseteq Frames
      BY <1>1 DEF At
    <3> QED BY <3>1, <3>2, TreeNext
  <2>4. KeepsTop
    <3>1. \A k \in DOMAIN entries : k[1] = top_level => lev[k[1]] = 1
      BY <1>3, <1>4 DEF TreeOf
    <3> QED BY <1>4, <2>2, <3>1 DEF KeepsTop
  <2>5. Maps(v, p, flags)
    BY <1>5, <2>1, <2>2 DEF Maps
  <2> QED BY <1>1, <1>7, <2>3, <2>4, <2>5 DEF At
<1> QED BY <1>6, <1>7

-----------------------------------------------------------------------------
(* unmap_page.                                                             *)

\* e is f without entry k, that linked table c: a tree again, with every translation.
Unlinked(f, T, lev, k, c, e) ==
  /\ \E new : TreeOf(e, T \ {c}, new) /\ \A t \in T \ {c} : new[t] = lev[t]
  /\ \A v : Walk(e, v) = Walk(f, v)
  /\ \A l \in DOMAIN f \ {k} : l \in DOMAIN e /\ e[l] = f[l]

\* Clearing the entry of an empty table.
LEMMA UnlinkEmpty ==
  ASSUME NEW f, NEW T, NEW lev, TreeOf(f, T, lev), NEW k, k \in DOMAIN f, NEW c,
         lev[k[1]] # 4, f[k].addr = c, is_table_empty(f, c), NEW e, e = Without(f, {k})
  PROVE  Unlinked(f, T, lev, k, c, e)
<1>1. DOMAIN e = DOMAIN f \ {k} /\ \A l \in DOMAIN f \ {k} : e[l] = f[l]
  BY DEF Without, Restrict
<1>2. Linked(e, f, k, c)
  BY <1>1 DEF Linked, is_table_empty
<1>3. TreeOf(e, T \ {c}, [t \in T \ {c} |-> lev[t]])
  BY <1>2, TreeUnlink
<1>4. \A v : Walk(e, v) = Walk(f, v)
  BY <1>2, WalkLink
<1>5. \E new : TreeOf(e, T \ {c}, new) /\ \A t \in T \ {c} : new[t] = lev[t]
  <2> WITNESS [t \in T \ {c} |-> lev[t]]
  <2> QED BY <1>3
<1> QED BY <1>1, <1>4, <1>5 DEF Unlinked

\* unmap_page removes the translation of v and no other, frees the tables this
\* leaves empty and no other, and spares the upper half of the PML4.
LEMMA ReclaimTree ==
  ASSUME Tree, NEW v \in AllVirt, Walk(entries, v) # NoTranslation
  PROVE  LET r == Reclaim(v)
         IN  /\ r.freed \subseteq Frames \ free
             /\ \E lev : TreeOf(r.e, (Frames \ free) \ r.freed, lev)
             /\ Walk(r.e, v) = NoTranslation
             /\ \A u \in AllVirt \ {v} : Walk(r.e, u) = Walk(entries, u)
             /\ \A i \in UpperHalf : <<top_level, i>> \in DOMAIN entries =>
                  <<top_level, i>> \in DOMAIN r.e /\ r.e[<<top_level, i>>] = entries[<<top_level, i>>]
<1> DEFINE T == Frames \ free
           q == Path(entries, v)
           k3 == <<q[3], v[3]>>
           k2 == <<q[2], v[2]>>
           k1 == <<q[1], v[1]>>
           noPage == Without(entries, {<<q[4], v[4]>>})
           noPt == Without(noPage, {k3})
           noPd == Without(noPt, {k2})
           noPdpt == Without(noPd, {k1})
           r == Reclaim(v)
           Good(e, freed) ==
             /\ freed \subseteq T
             /\ \E lev : TreeOf(e, T \ freed, lev)
             /\ Walk(e, v) = NoTranslation
             /\ \A u \in AllVirt \ {v} : Walk(e, u) = Walk(entries, u)
             /\ \A i \in UpperHalf : <<top_level, i>> \in DOMAIN entries =>
                  <<top_level, i>> \in DOMAIN e /\ e[<<top_level, i>>] = entries[<<top_level, i>>]
<1> SUFFICES Good(r.e, r.freed)
  OBVIOUS
<1>1. PICK lev : TreeOf(entries, T, lev)
  BY DEF Tree
<1>2. q[4] # NULL
  BY <1>1, WalkNull
<1>3. /\ Reaches(entries, v, q) /\ q[1] = top_level
      /\ q[1] \in T /\ q[2] \in T /\ q[3] \in T /\ q[4] \in T
      /\ lev[q[1]] = 1 /\ lev[q[2]] = 2 /\ lev[q[3]] = 3 /\ lev[q[4]] = 4
  BY <1>1, <1>2, PathReaches, PathSteps
<1>4. /\ TreeOf(noPage, T, lev) /\ Walk(noPage, v) = NoTranslation
      /\ \A u \in AllVirt \ {v} : Walk(noPage, u) = Walk(entries, u)
  BY <1>1, <1>2, ClearLeaf
<1>5. LET keepsPt == ~is_table_empty(noPage, q[4]) \/ ~Writable(q[3])
          keepsPd == ~is_table_empty(noPt, q[3]) \/ ~Writable(q[2])
          keepsPdpt == ~DropsPdpt(noPd, v) \/ ~Writable(q[1])
      IN  /\ keepsPt => r.e = noPage /\ r.freed = {}
          /\ ~keepsPt /\ keepsPd => r.e = noPt /\ r.freed = {q[4]}
          /\ ~keepsPt /\ ~keepsPd /\ keepsPdpt => r.e = noPd /\ r.freed = {q[4], q[3]}
          /\ ~keepsPt /\ ~keepsPd /\ ~keepsPdpt => r.e = noPdpt /\ r.freed = {q[4], q[3], q[2]}
  BY DEF Reclaim, Left
<1>6. DropsPdpt(noPd, v) <=> is_table_empty(noPd, q[2]) /\ v[1] \notin UpperHalf
  BY DEF DropsPdpt
<1> HIDE DEF q, r, T
<1>7. \A k \in DOMAIN entries : k # <<q[4], v[4]>> => k \in DOMAIN noPage /\ noPage[k] = entries[k]
  BY DEF Without, Restrict
<1>8. Good(noPage, {})
  <2>1. \A i : <<top_level, i>> # <<q[4], v[4]>>
    BY <1>3
  <2>2. T \ {} = T
    OBVIOUS
  <2> HIDE DEF noPage
  <2> QED BY <1>4, <1>7, <2>1, <2>2
<1>9. CASE ~is_table_empty(noPage, q[4]) \/ ~Writable(q[3])
  <2>1. r.e = noPage /\ r.freed = {}
    BY <1>5, <1>9
  <2> QED BY <1>8, <2>1
<1>10. CASE is_table_empty(noPage, q[4]) /\ Writable(q[3])
  <2> DEFINE T3 == T \ {q[4]}
  <2>1. k3 \in DOMAIN noPage /\ noPage[k3].addr = q[4] /\ k3[1] = q[3] /\ lev[k3[1]] # 4
    BY <1>3, <1>7 DEF Reaches
  <2> HIDE DEF noPage, Good, k1, k2, k3
  <2>2. PICK lev3 :
        /\ TreeOf(noPt, T3, lev3) /\ (\A t \in T3 : lev3[t] = lev[t])
        /\ \A u : Walk(noPt, u) = Walk(noPage, u)
        /\ \A l \in DOMAIN noPage \ {k3} : l \in DOMAIN noPt /\ noPt[l] = noPage[l]
    <3>1. TreeOf(noPage, T, lev)
      BY <1>4
    <3>2. noPt = Without(noPage, {k3})
      OBVIOUS
    <3> HIDE DEF noPt
    <3>3. Unlinked(noPage, T, lev, k3, q[4], noPt)
      BY <1>10, <2>1, <3>1, <3>2, UnlinkEmpty
    <3> QED BY <3>3 DEF Unlinked
  <2>3. lev3[q[1]] = 1 /\ lev3[q[2]] = 2 /\ lev3[q[3]] = 3 /\ q[1] \in T3 /\ q[2] \in T3 /\ q[3] \in T3
    BY <1>3, <2>2
  <2> HIDE DEF noPt, T3
  <2>4. Good(noPt, {q[4]})
    <3>1. \A i : <<top_level, i>> # k3
      BY <1>3 DEF k3
    <3> QED BY <1>3, <1>8, <2>2, <3>1 DEF Good, T3
  <2>5. CASE ~is_table_empty(noPt, q[3]) \/ ~Writable(q[2])
    <3>1. r.e = noPt /\ r.freed = {q[4]}
      BY <1>5, <1>10, <2>5
    <3> QED BY <2>4, <3>1
  <2>6. CASE is_table_empty(noPt, q[3]) /\ Writable(q[2])
    <3> DEFINE T2 == T3 \ {q[3]}
    <3>1. k2 \in DOMAIN noPt /\ noPt[k2].addr = q[3] /\ k2[1] = q[2] /\ lev3[k2[1]] # 4
      <4>1. k2 # k3 /\ k2 # <<q[4], v[4]>> /\ k2[1] = q[2]
        BY <1>3 DEF k2, k3
      <4>2. k2 \in DOMAIN entries /\ entries[k2].addr = q[3]
        BY <1>3 DEF Reaches, k2
      <4> QED BY <1>7, <2>2, <2>3, <4>1, <4>2
    <3>2. PICK lev2 :
          /\ TreeOf(noPd, T2, lev2) /\ (\A t \in T2 : lev2[t] = lev3[t])
          /\ \A u : Walk(noPd, u) = Walk(noPt, u)
          /\ \A l \in DOMAIN noPt \ {k2} : l \in DOMAIN noPd /\ noPd[l] = noPt[l]
      <4>1. TreeOf(noPt, T3, lev3)
        BY <2>2
      <4>2. noPd = Without(noPt, {k2})
        OBVIOUS
      <4> HIDE DEF noPd
      <4>3. Unlinked(noPt, T3, lev3, k2, q[3], noPd)
        BY <2>6, <3>1, <4>1, <4>2, UnlinkEmpty
      <4> QED BY <4>3 DEF Unlinked
    <3>3. lev2[q[1]] = 1 /\ lev2[q[2]] = 2 /\ q[1] \in T2 /\ q[2] \in T2
      BY <1>3, <2>3, <3>2
    <3> HIDE DEF noPd
    <3>4. Good(noPd, {q[4], q[3]})
      <4>1. \A i : <<top_level, i>> # k2
        BY <1>3 DEF k2
      <4>2. T \ {q[4], q[3]} = T2
        BY DEF T3
      <4> QED BY <1>3, <2>4, <3>2, <4>1, <4>2 DEF Good
    <3> HIDE DEF T2
    <3>5. CASE ~DropsPdpt(noPd, v) \/ ~Writable(q[1])
      <4>1. r.e = noPd /\ r.freed = {q[4], q[3]}
        BY <1>5, <1>10, <2>6, <3>5
      <4> QED BY <3>4, <4>1
    <3>6. CASE DropsPdpt(noPd, v) /\ Writable(q[1])
      <4> DEFINE T1 == T2 \ {q[2]}
      <4>1. k1 \in DOMAIN noPd /\ noPd[k1].addr = q[2] /\ k1[1] = q[1] /\ lev2[k1[1]] # 4
        <5>1. k1 # k2 /\ k1 # k3 /\ k1 # <<q[4], v[4]>> /\ k1[1] = q[1]
          BY <1>3 DEF k1, k2, k3
        <5>2. k1 \in DOMAIN entries /\ entries[k1].addr = q[2]
          BY <1>3 DEF Reaches, k1
        <5> QED BY <1>7, <2>2, <3>2, <3>3, <5>1, <5>2
      <4>2. PICK lev1 :
            /\ TreeOf(noPdpt, T1, lev1)
            /\ \A u : Walk(noPdpt, u) = Walk(noPd, u)
            /\ \A l \in DOMAIN noPd \ {k1} : l \in DOMAIN noPdpt /\ noPdpt[l] = noPd[l]
        <5>1. is_table_empty(noPd, q[2]) /\ TreeOf(noPd, T2, lev2)
          BY <1>6, <3>2, <3>6
        <5>2. noPdpt = Without(noPd, {k1})
          OBVIOUS
        <5> HIDE DEF noPdpt
        <5>3. Unlinked(noPd, T2, lev2, k1, q[2], noPdpt)
          BY <4>1, <5>1, <5>2, UnlinkEmpty
        <5> QED BY <5>3 DEF Unlinked
      <4> HIDE DEF noPdpt
      <4>3. Good(noPdpt, {q[4], q[3], q[2]})
        <5>1. \A i \in UpperHalf : <<top_level, i>> # k1
          BY <1>6, <3>6 DEF k1
        <5>2. T \ {q[4], q[3], q[2]} = T1
          BY DEF T2, T3
        <5> QED BY <1>3, <3>4, <4>2, <5>1, <5>2 DEF Good
      <4>4. r.e = noPdpt /\ r.freed = {q[4], q[3], q[2]}
        BY <1>5, <1>10, <2>6, <3>6
      <4> QED BY <4>3, <4>4
    <3> QED BY <3>5, <3>6
  <2> QED BY <2>5, <2>6
<1> QED BY <1>9, <1>10

-----------------------------------------------------------------------------
(* The inductive invariant.                                                *)

\* Page i of the kernel image is mapped once its turn has passed.
KernelMapped ==
  \A i \in 1 .. Len(KernelPages) :
    (pc = "kernel" /\ i <= n) \/ pc \in {"hhdm", "framebuffer", "run"} =>
      Walk(entries, KernelPages[i].virt)
        = [addr |-> KernelPages[i].phys, flags |-> SectionFlags(KernelPages[i].section)]

\* The translation of frame f at HIGHER_HALF: itself, writable unless an ACPI table is
\* there.
Found(f, translation) ==
  translation.addr = f /\ (f \notin AcpiFrames => "W" \in translation.flags)

\* So is each page of the direct map.
HhdmMapped ==
  \A i \in 1 .. Len(HhdmFrames) :
    (pc = "hhdm" /\ i <= n) \/ pc \in {"framebuffer", "run"} =>
      Found(HhdmFrames[i], Walk(entries, Hhdm(HhdmFrames[i])))

\* The PML4 exists from its allocation on, and nothing does before.
TopLevel ==
  /\ pc = "pml4" => DOMAIN entries = {} /\ free = Frames /\ top_level = NULL
  /\ pc \in {"upper", "kernel", "hhdm", "framebuffer", "run"} => top_level # NULL

Inv ==
  /\ Tree
  /\ n \in Nat
  /\ TopLevel
  /\ DOMAIN tlb \subseteq AllVirt
  /\ TlbCoherent
  /\ KernelMapped
  /\ HhdmMapped

\* A translation after a step that keeps the PML4.
LEMMA WalkNext ==
  ASSUME top_level' = top_level, NEW u
  PROVE  Walk(entries, u)' = Walk(entries', u)
<1>1. Path(entries, u)' = Path(entries', u)
  BY DEF Path
<1> QED BY <1>1 DEF Walk

\* What a step that sets or removes the translation of v, and flushes it, or that keeps
\* every translation, does to the processor's translations.
LEMMA TlbFlushed ==
  ASSUME TlbCoherent, DOMAIN tlb \subseteq AllVirt, top_level' = top_level, NEW v,
         \A u \in AllVirt \ {v} : Walk(entries', u) = Walk(entries, u), tlb' = Flushed(v)
  PROVE  TlbCoherent' /\ DOMAIN tlb' \subseteq AllVirt
<1>1. DOMAIN tlb' = DOMAIN tlb \ {v} /\ \A u \in DOMAIN tlb' : tlb'[u] = tlb[u]
  BY DEF Flushed, Restrict
<1>2. \A u \in DOMAIN tlb' : tlb'[u] = Walk(entries, u)'
  BY <1>1, WalkNext DEF TlbCoherent
<1> QED BY <1>1, <1>2 DEF TlbCoherent

\* Translations that did not change stay right in the TLB.
LEMMA TlbKept ==
  ASSUME TlbCoherent, DOMAIN tlb \subseteq AllVirt, top_level' = top_level, Keeps
  PROVE  TlbCoherent' /\ DOMAIN tlb' \subseteq AllVirt
<1>1. \A u \in DOMAIN tlb' : tlb'[u] = Walk(entries, u)'
  BY WalkNext DEF TlbCoherent, Keeps
<1> QED BY <1>1 DEF TlbCoherent, Keeps

\* At boot no frame is a table.
LEMMA InvInit == Init => Inv
<1> SUFFICES ASSUME Init PROVE Inv
  OBVIOUS
<1>1. DOMAIN entries = {} /\ DOMAIN tlb = {} /\ free = Frames /\ top_level = NULL /\ n = 0
  BY DEF Init
<1>2. Tree
  <2> DEFINE lev == [t \in {} |-> 1]
  <2>1. TreeOf(entries, {}, lev)
    BY <1>1 DEF TreeOf
  <2>2. Frames \ free = {}
    BY <1>1
  <2> HIDE DEF lev
  <2> QED BY <1>1, <2>1, <2>2 DEF Tree
<1>3. pc = "pml4"
  BY DEF Init
<1> QED BY <1>1, <1>2, <1>3 DEF Inv, TopLevel, TlbCoherent, KernelMapped, HhdmMapped

-----------------------------------------------------------------------------
(* The steps.                                                              *)

\* The upper-half entries of the PML4 stay.
UpperKept ==
  \A i \in UpperHalf :
    <<top_level, i>> \in DOMAIN entries =>
      <<top_level, i>> \in DOMAIN entries' /\ entries'[<<top_level, i>>] = entries[<<top_level, i>>]

\* One page at most gets another translation, or none.
OnePageChanges ==
  \/ \A u \in AllVirt : Walk(entries, u)' = Walk(entries, u)
  \/ \E v \in AllVirt :
       /\ \A u \in AllVirt \ {v} : Walk(entries, u)' = Walk(entries, u)
       /\ \/ Walk(entries, v)' = NoTranslation
          \/ Walk(entries, v)'.addr \in AllPhys /\ Walk(entries, v)'.flags \in AllFlags

StepGoal == Inv' /\ UpperKept /\ OnePageChanges

\* The pages the kernel maps are pages of the address space.
LEMMA Pages ==
  /\ \A i \in 1 .. Len(KernelPages) : KernelPages[i].virt \in AllVirt /\ KernelPages[i].virt \in KernelVirt
  /\ \A i \in 1 .. Len(HhdmFrames) : HhdmFrames[i] \in DirectFrames
  /\ \A i \in 1 .. Len(FramebufferFrames) : FramebufferFrames[i] \in DirectFrames
  /\ \A f \in AcpiFrames \cup ApicFrames : f \in DirectFrames
  /\ \A f \in DirectFrames : Hhdm(f) \in DirectVirt /\ Hhdm(f) \in AllVirt /\ f \in AllPhys
  /\ CallerVirt \subseteq AllVirt
BY DEF AllVirt, AllPhys, KernelVirt, DirectVirt, DirectFrames

\* The rights of the sections: none has USER.
LEMMA Sections ==
  ASSUME NEW s
  PROVE  "U" \notin SectionFlags(s) /\ SectionFlags(s) \in AllFlags
BY DEF SectionFlags, AllFlags

\* What a step may do to page v without harm to the image or the direct map: anything
\* to a page of a caller; a page at HIGHER_HALF gets its own frame, and stays writable.
Harmless(v) ==
  \/ v \in CallerVirt
  \/ Walk(entries', v) = Walk(entries, v)
  \/ \E f \in DirectFrames : v = Hhdm(f) /\ Found(f, Walk(entries', v))

\* Then what is mapped of the image and of the direct map stays so.
LEMMA PagesKept ==
  ASSUME KernelMapped, HhdmMapped, top_level' = top_level, pc' = pc,
         n' = n \/ pc \in {"upper", "framebuffer", "run"},
         NEW v, \A u \in AllVirt \ {v} : Walk(entries', u) = Walk(entries, u), Harmless(v)
  PROVE  KernelMapped' /\ HhdmMapped'
<1>1. \A i \in 1 .. Len(KernelPages) :
        Walk(entries, KernelPages[i].virt)' = Walk(entries, KernelPages[i].virt)
  <2> TAKE i \in 1 .. Len(KernelPages)
  <2>1. v # KernelPages[i].virt \/ Walk(entries', v) = Walk(entries, v)
    BY Pages, PagesAssumption DEF Harmless
  <2> QED BY <2>1, Pages, WalkNext
<1>2. ASSUME NEW i \in 1 .. Len(HhdmFrames),
             Found(HhdmFrames[i], Walk(entries, Hhdm(HhdmFrames[i])))
      PROVE  Found(HhdmFrames[i], Walk(entries, Hhdm(HhdmFrames[i])))'
  <2>1. HhdmFrames[i] \in DirectFrames /\ Hhdm(HhdmFrames[i]) \in AllVirt
        /\ Hhdm(HhdmFrames[i]) \in DirectVirt
    BY Pages
  <2>2. CASE Walk(entries', Hhdm(HhdmFrames[i])) = Walk(entries, Hhdm(HhdmFrames[i]))
    BY <1>2, <2>2, WalkNext DEF Found
  <2>3. CASE Walk(entries', Hhdm(HhdmFrames[i])) # Walk(entries, Hhdm(HhdmFrames[i]))
    <3>1. v = Hhdm(HhdmFrames[i]) /\ v \notin CallerVirt
      BY <2>1, <2>3, PagesAssumption
    <3>2. PICK f \in DirectFrames : v = Hhdm(f) /\ Found(f, Walk(entries', v))
      BY <2>3, <3>1 DEF Harmless
    <3>3. f = HhdmFrames[i]
      BY <2>1, <3>1, <3>2, PagesAssumption
    <3> QED BY <3>1, <3>2, <3>3, WalkNext DEF Found
  <2> QED BY <2>2, <2>3
<1>3. KernelMapped'
  BY <1>1 DEF KernelMapped
<1>4. HhdmMapped'
  <2> SUFFICES ASSUME NEW i \in 1 .. Len(HhdmFrames),
                      (pc' = "hhdm" /\ i <= n') \/ pc' \in {"framebuffer", "run"}
               PROVE  Found(HhdmFrames[i], Walk(entries, Hhdm(HhdmFrames[i])))'
    BY DEF HhdmMapped
  <2>1. (pc = "hhdm" /\ i <= n) \/ pc \in {"framebuffer", "run"}
    OBVIOUS
  <2> QED BY <1>2, <2>1 DEF HhdmMapped
<1> QED BY <1>3, <1>4

\* A step of no effect.
LEMMA StutterStep == ASSUME Inv, UNCHANGED vars PROVE StepGoal
<1>1. /\ pc' = pc /\ n' = n /\ free' = free /\ top_level' = top_level
      /\ entries' = entries /\ tlb' = tlb
  BY DEF vars
<1>2. \A u : Walk(entries, u)' = Walk(entries, u)
  BY <1>1, WalkNext
<1>3. Tree'
  BY <1>1 DEF Inv, Tree, TreeOf
<1>4. TlbCoherent' /\ DOMAIN tlb' \subseteq AllVirt
  BY <1>1, TlbKept DEF Inv, Keeps
<1>5. KernelMapped'
  BY <1>1, <1>2 DEF Inv, KernelMapped
<1>6. HhdmMapped'
  BY <1>1, <1>2 DEF Inv, HhdmMapped, Found
<1>7. Inv'
  BY <1>1, <1>3, <1>4, <1>5, <1>6 DEF Inv, TopLevel
<1> QED BY <1>1, <1>2, <1>7 DEF StepGoal, UpperKept, OnePageChanges

\* setup_vmm takes a frame for the PML4.
LEMMA AllocatePml4Step == ASSUME Inv, AllocatePml4 PROVE StepGoal
<1>1. pc = "pml4" /\ n' = n /\ entries' = entries /\ tlb' = tlb
  BY DEF AllocatePml4
<1>2. DOMAIN entries = {} /\ free = Frames /\ top_level = NULL
  BY <1>1 DEF Inv, TopLevel
<1>3. \A u : Walk(entries, u)' = NoTranslation /\ Walk(entries, u) = NoTranslation
  BY <1>1, <1>2 DEF Walk
<1>4. TlbCoherent' /\ DOMAIN tlb' \subseteq AllVirt
  BY <1>1, <1>3 DEF Inv, TlbCoherent
<1>5. Tree' /\ pc' \in {"upper", "panic"} /\ (pc' = "upper" => top_level' # NULL)
  <2>1. CASE free # {} /\ pc' = "upper" /\ top_level' = Pick(free) /\ free' = free \ {Pick(free)}
    <3>0. PICK c : c = Pick(free)
      OBVIOUS
    <3> DEFINE lev == [t \in {c} |-> 1]
    <3>1. c \in Frames /\ c # NULL
      BY <1>2, <2>1, <3>0, VmmAssumption
    <3>2. Frames \ free' = {c} /\ free' \subseteq Frames /\ top_level' = c
      BY <1>2, <2>1, <3>0, <3>1
    <3>3. TreeOf(entries, {c}, lev)'
      BY <1>1, <1>2, <3>1, <3>2 DEF TreeOf
    <3> HIDE DEF lev
    <3>4. (\E l : TreeOf(entries, Frames \ free, l))'
      BY <3>2, <3>3
    <3> QED BY <2>1, <3>1, <3>2, <3>4 DEF Tree
  <2>2. CASE pc' = "panic" /\ UNCHANGED <<top_level, free>>
    BY <1>1, <2>2 DEF Inv, Tree, TreeOf
  <2> QED BY <2>1, <2>2 DEF AllocatePml4
<1>6. Inv'
  BY <1>1, <1>4, <1>5 DEF Inv, TopLevel, KernelMapped, HhdmMapped
<1> QED BY <1>2, <1>3, <1>6 DEF StepGoal, UpperKept, OnePageChanges

\* setup_vmm goes on to its next loop.
LEMMA NextLoopStep == ASSUME Inv, NextLoop PROVE StepGoal
<1>1. /\ free' = free /\ top_level' = top_level /\ entries' = entries /\ tlb' = tlb
      /\ n' = 0 /\ n = LoopLength
  BY DEF NextLoop
<1>2. \/ pc = "upper" /\ pc' = "kernel"
      \/ pc = "kernel" /\ pc' = "hhdm" /\ n = Len(KernelPages)
      \/ pc = "hhdm" /\ pc' = "framebuffer" /\ n = Len(HhdmFrames)
      \/ pc = "framebuffer" /\ pc' = "run"
  BY DEF NextLoop, LoopLength
<1>3. \A u : Walk(entries, u)' = Walk(entries, u)
  BY <1>1, WalkNext
<1>4. Tree'
  BY <1>1 DEF Inv, Tree, TreeOf
<1>5. TlbCoherent' /\ DOMAIN tlb' \subseteq AllVirt
  BY <1>1, TlbKept DEF Inv, Keeps
<1>6. KernelMapped'
  BY <1>1, <1>2, <1>3 DEF Inv, KernelMapped
<1>7. HhdmMapped'
  BY <1>1, <1>2, <1>3 DEF Inv, HhdmMapped, Found
<1>8. TopLevel'
  BY <1>1, <1>2 DEF Inv, TopLevel
<1>9. Inv'
  BY <1>1, <1>4, <1>5, <1>6, <1>7, <1>8 DEF Inv
<1> QED BY <1>1, <1>3, <1>9 DEF StepGoal, UpperKept, OnePageChanges

\* setup_vmm allocates the tables of the upper half.
LEMMA AllocateUpperStep == ASSUME Inv, AllocateUpper PROVE StepGoal
<1>1. pc = "upper" /\ n' = n + 1 /\ top_level' = top_level /\ tlb' = tlb
  BY DEF AllocateUpper
<1>2. PICK i \in UpperHalf, budget \in {0, 1} :
        LET w == get_or_allocate_next_level(Start(budget), i, {})
        IN  entries' = w.e /\ free' = w.free /\ pc' = w.pc
  BY DEF AllocateUpper
<1> DEFINE w0 == Start(budget)
           w == get_or_allocate_next_level(w0, i, {})
<1>3. At(w0, 1) /\ w0.e = entries
  <2>1. w0.e = entries /\ w0.free = free /\ w0.table = top_level /\ w0.pc = pc /\ IsWalk(w0)
    BY DEF Start, IsWalk
  <2> HIDE DEF w0
  <2>2. PICK lev : TreeOf(entries, Frames \ free, lev)
    BY DEF Inv, Tree
  <2>3. top_level # NULL
    BY <1>1 DEF Inv, TopLevel
  <2>4. top_level \in Frames \ free /\ lev[top_level] = 1
    BY <2>2, <2>3 DEF TreeOf
  <2> QED BY <2>1, <2>2, <2>4 DEF At, Inv, Tree
<1> HIDE DEF w0
<1>4. At(w, 2) /\ Grown(w0, w)
  BY <1>3, StepDown
<1>5. entries' = w.e /\ free' = w.free /\ pc' \in Stopped \cup {pc}
  BY <1>2, <1>4 DEF w0, At
<1> HIDE DEF w
<1>6. Keeps
  BY <1>1, <1>3, <1>4, <1>5 DEF Keeps, Grown
<1>7. \A u : Walk(entries, u)' = Walk(entries, u)
  BY <1>1, <1>6, WalkNext DEF Keeps
<1>8. Tree'
  <2>1. PICK lev : TreeOf(w.e, Frames \ w.free, lev)
    BY <1>4 DEF At
  <2>2. w.free \subseteq Frames
    BY <1>4 DEF At
  <2>3. TreeOf(entries', Frames \ free', lev)
    BY <1>5, <2>1
  <2> QED BY <1>1, <1>5, <2>2, <2>3, TreeNext
<1>9. TlbCoherent' /\ DOMAIN tlb' \subseteq AllVirt
  BY <1>1, <1>6, TlbKept DEF Inv
<1>10. Inv'
  BY <1>1, <1>5, <1>8, <1>9 DEF Inv, TopLevel, KernelMapped, HhdmMapped, Stopped
<1>11. UpperKept
  BY <1>3, <1>4, <1>5 DEF UpperKept, Grown
<1> QED BY <1>7, <1>10, <1>11 DEF StepGoal, OnePageChanges

\* One page of setup_vmm, whatever loop it is in.
LEMMA BootMapStep ==
  ASSUME Inv, pc \in {"kernel", "hhdm", "framebuffer"}, NEW v \in AllVirt, NEW p, NEW flags,
         "U" \notin flags, NEW required \in BOOLEAN, BootMap(v, p, flags, required)
  PROVE  /\ Tree' /\ n' = n + 1 /\ top_level' = top_level /\ top_level # NULL /\ UpperKept
         /\ TlbCoherent' /\ DOMAIN tlb' \subseteq AllVirt
         /\ \/ Maps(v, p, flags) /\ pc' = pc
            \/ Keeps /\ (pc' \in Stopped \/ (pc' = pc /\ ~required))
<1>1. PICK budget \in 0 .. 3 :
        LET w == Descend(v, flags, budget)
        IN  /\ free' = w.free
            /\ n' = n + 1
            /\ \/ w.table # NULL /\ Mapped(w, v, p, flags) /\ UNCHANGED pc
               \/ w.table = NULL /\ MapFails(w) /\ pc' = OnMapFailure(w, required)
            /\ UNCHANGED top_level
  BY DEF BootMap
<1>2. PICK w : w = Descend(v, flags, budget)
  OBVIOUS
<1>3. /\ free' = w.free /\ n' = n + 1 /\ top_level' = top_level
      /\ \/ w.table # NULL /\ Mapped(w, v, p, flags) /\ pc' = pc
         \/ w.table = NULL /\ MapFails(w) /\ pc' = OnMapFailure(w, required)
  BY <1>1, <1>2
<1>4. top_level # NULL /\ Tree /\ TlbCoherent /\ DOMAIN tlb \subseteq AllVirt
  BY DEF Inv, TopLevel
<1>5. (w.table # NULL /\ Mapped(w, v, p, flags)) \/ (w.table = NULL /\ MapFails(w))
  BY <1>3
<1>6. /\ Tree' /\ KeepsTop /\ w.pc \in Stopped \cup {pc}
      /\ (w.table # NULL /\ Maps(v, p, flags)) \/ (w.table = NULL /\ Keeps)
  BY <1>2, <1>3, <1>4, <1>5, MapStep
<1>7. UpperKept
  BY <1>6 DEF UpperKept, KeepsTop
<1>8. TlbCoherent' /\ DOMAIN tlb' \subseteq AllVirt
  BY <1>3, <1>4, <1>6, TlbFlushed, TlbKept DEF Maps
<1>9. OnMapFailure(w, required) \in Stopped \/ (OnMapFailure(w, required) = pc /\ ~required)
  BY <1>6 DEF OnMapFailure, Stopped
<1> QED BY <1>3, <1>4, <1>6, <1>7, <1>8, <1>9

\* What a step that maps or fails to map page v shows outside.
LEMMA MapVisible ==
  ASSUME top_level' = top_level, NEW v \in AllVirt, NEW p \in AllPhys, NEW flags \in AllFlags,
         Maps(v, p, flags) \/ Keeps
  PROVE  OnePageChanges
<1>1. CASE Keeps
  BY <1>1, WalkNext DEF Keeps, OnePageChanges
<1>2. CASE Maps(v, p, flags)
  <2>1. Walk(entries, v)' = [addr |-> p, flags |-> flags]
    BY <1>2, WalkNext DEF Maps
  <2>2. Walk(entries, v)'.addr = p /\ Walk(entries, v)'.flags = flags
    BY <2>1
  <2>3. \A u \in AllVirt \ {v} : Walk(entries, u)' = Walk(entries, u)
    BY <1>2, WalkNext DEF Maps
  <2> QED BY <2>2, <2>3 DEF OnePageChanges
<1> QED BY <1>1, <1>2

\* Mapping a frame at HIGHER_HALF does no harm: it was there, or is now, and stays
\* writable where no ACPI table is.
LEMMA DirectHarmless ==
  ASSUME NEW f \in DirectFrames, NEW flags, "W" \in flags \/ f \in AcpiFrames,
         Maps(Hhdm(f), f, flags) \/ Keeps
  PROVE  Harmless(Hhdm(f))
<1>1. CASE Keeps
  BY <1>1 DEF Keeps, Harmless
<1>2. CASE Maps(Hhdm(f), f, flags)
  <2>1. Walk(entries', Hhdm(f)) = [addr |-> f, flags |-> flags]
    BY <1>2 DEF Maps
  <2>2. Found(f, Walk(entries', Hhdm(f)))
    BY <2>1 DEF Found
  <2> QED BY <2>2 DEF Harmless
<1> QED BY <1>1, <1>2

\* setup_vmm maps a page of the kernel image.
LEMMA MapKernelPageStep == ASSUME Inv, MapKernelPage PROVE StepGoal
<1> DEFINE page == KernelPages[n + 1]
           v == page.virt
           flags == SectionFlags(page.section)
<1>1. pc = "kernel" /\ n < Len(KernelPages) /\ BootMap(v, page.phys, flags, TRUE)
  BY DEF MapKernelPage
<1>2. n + 1 \in 1 .. Len(KernelPages) /\ n \in Nat
  BY <1>1, VmmAssumption DEF Inv
<1>3. v \in AllVirt /\ v \in KernelVirt /\ page.phys \in AllPhys
  BY <1>2, Pages DEF AllPhys
<1>4. "U" \notin flags /\ flags \in AllFlags
  BY Sections
<1>5. KernelMapped
  BY DEF Inv
<1> HIDE DEF v, flags, page
<1>6. /\ Tree' /\ n' = n + 1 /\ top_level' = top_level /\ top_level # NULL /\ UpperKept
      /\ TlbCoherent' /\ DOMAIN tlb' \subseteq AllVirt
      /\ (Maps(v, page.phys, flags) /\ pc' = pc) \/ (Keeps /\ pc' \in Stopped)
  BY <1>1, <1>3, <1>4, BootMapStep
<1>7. OnePageChanges
  BY <1>3, <1>4, <1>6, MapVisible
<1>8. ASSUME Maps(v, page.phys, flags), pc' = pc
      PROVE  KernelMapped'
  <2>1. ASSUME NEW i \in 1 .. Len(KernelPages), i <= n + 1
        PROVE  Walk(entries, KernelPages[i].virt)'
                 = [addr |-> KernelPages[i].phys, flags |-> SectionFlags(KernelPages[i].section)]
    <3>1. CASE i = n + 1
      <4>1. Walk(entries', v) = [addr |-> page.phys, flags |-> flags]
        BY <1>8 DEF Maps
      <4>2. KernelPages[i].virt = v /\ KernelPages[i].phys = page.phys
            /\ SectionFlags(KernelPages[i].section) = flags
        BY <3>1 DEF v, page, flags
      <4> QED BY <1>6, <4>1, <4>2, WalkNext
    <3>2. CASE i <= n
      <4>1. KernelPages[i].virt # v
        BY <1>2, <3>2, PagesAssumption DEF v, page
      <4>2. Walk(entries', KernelPages[i].virt) = Walk(entries, KernelPages[i].virt)
        BY <1>8, <4>1, Pages DEF Maps
      <4>3. Walk(entries, KernelPages[i].virt)
              = [addr |-> KernelPages[i].phys, flags |-> SectionFlags(KernelPages[i].section)]
        BY <1>1, <1>5, <3>2 DEF KernelMapped
      <4> QED BY <1>6, <4>2, <4>3, WalkNext
    <3> QED BY <1>2, <2>1, <3>1, <3>2
  <2> QED BY <1>1, <1>6, <1>8, <2>1 DEF KernelMapped
<1>9. KernelMapped'
  BY <1>6, <1>8 DEF KernelMapped, Stopped
<1>10. HhdmMapped'
  BY <1>1, <1>6 DEF HhdmMapped, Stopped
<1>11. Inv'
  BY <1>1, <1>2, <1>6, <1>9, <1>10 DEF Inv, TopLevel, Stopped
<1> QED BY <1>6, <1>7, <1>11 DEF StepGoal

\* setup_vmm maps a page of the direct map.
LEMMA MapHhdmPageStep == ASSUME Inv, MapHhdmPage PROVE StepGoal
<1> DEFINE frame == HhdmFrames[n + 1]
           v == Hhdm(frame)
<1>1. pc = "hhdm" /\ n < Len(HhdmFrames) /\ BootMap(v, frame, {"W"}, TRUE)
  BY DEF MapHhdmPage
<1>2. n + 1 \in 1 .. Len(HhdmFrames) /\ n \in Nat
  BY <1>1, VmmAssumption DEF Inv
<1>3. v \in AllVirt /\ v \in DirectVirt /\ frame \in AllPhys /\ frame \in DirectFrames
  BY <1>2, Pages
<1>4. "U" \notin {"W"} /\ {"W"} \in AllFlags
  BY DEF AllFlags
<1>5. KernelMapped /\ HhdmMapped
  BY DEF Inv
<1> HIDE DEF v, frame
<1>6. /\ Tree' /\ n' = n + 1 /\ top_level' = top_level /\ top_level # NULL /\ UpperKept
      /\ TlbCoherent' /\ DOMAIN tlb' \subseteq AllVirt
      /\ (Maps(v, frame, {"W"}) /\ pc' = pc) \/ (Keeps /\ pc' \in Stopped)
  BY <1>1, <1>3, <1>4, BootMapStep
<1>7. OnePageChanges
  BY <1>3, <1>4, <1>6, MapVisible
<1>8. ASSUME Maps(v, frame, {"W"}), pc' = pc
      PROVE  KernelMapped' /\ HhdmMapped'
  <2>1. ASSUME NEW i \in 1 .. Len(KernelPages)
        PROVE  Walk(entries, KernelPages[i].virt)' = Walk(entries, KernelPages[i].virt)
    <3>1. KernelPages[i].virt \in AllVirt \ {v}
      BY <1>3, Pages, PagesAssumption
    <3> QED BY <1>6, <1>8, <3>1, WalkNext DEF Maps
  <2>2. ASSUME NEW i \in 1 .. Len(HhdmFrames), i <= n + 1
        PROVE  Found(HhdmFrames[i], Walk(entries, Hhdm(HhdmFrames[i])))'
    <3>1. CASE Hhdm(HhdmFrames[i]) = v
      <4>1. frame = HhdmFrames[i]
        BY <1>3, <3>1, Pages, PagesAssumption DEF v
      <4>2. Walk(entries', v) = [addr |-> frame, flags |-> {"W"}]
        BY <1>8 DEF Maps
      <4>3. Found(frame, Walk(entries', v))
        BY <4>2 DEF Found
      <4> QED BY <1>6, <3>1, <4>1, <4>3, WalkNext DEF Found
    <3>2. CASE Hhdm(HhdmFrames[i]) # v
      <4>1. i <= n
        BY <1>2, <2>2, <3>2 DEF v, frame
      <4>2. Found(HhdmFrames[i], Walk(entries, Hhdm(HhdmFrames[i])))
        BY <1>1, <1>5, <2>2, <4>1 DEF HhdmMapped
      <4>3. Walk(entries', Hhdm(HhdmFrames[i])) = Walk(entries, Hhdm(HhdmFrames[i]))
        BY <1>8, <3>2, Pages DEF Maps
      <4> QED BY <1>6, <4>2, <4>3, WalkNext DEF Found
    <3> QED BY <3>1, <3>2
  <2>3. KernelMapped'
    BY <1>1, <1>5, <1>8, <2>1 DEF KernelMapped
  <2>4. HhdmMapped'
    BY <1>1, <1>6, <1>8, <2>2 DEF HhdmMapped
  <2> QED BY <2>3, <2>4
<1>9. KernelMapped' /\ HhdmMapped'
  BY <1>6, <1>8 DEF KernelMapped, HhdmMapped, Stopped
<1>10. Inv'
  BY <1>1, <1>2, <1>6, <1>9 DEF Inv, TopLevel, Stopped
<1> QED BY <1>6, <1>7, <1>10 DEF StepGoal

\* setup_vmm maps a page of the framebuffer.
LEMMA MapFramebufferPageStep == ASSUME Inv, MapFramebufferPage PROVE StepGoal
<1> DEFINE frame == FramebufferFrames[n + 1]
           v == Hhdm(frame)
           flags == {"W", "PCD", "PAT"}
<1>1. pc = "framebuffer" /\ n < Len(FramebufferFrames) /\ BootMap(v, frame, flags, FALSE)
  BY DEF MapFramebufferPage
<1>2. n + 1 \in 1 .. Len(FramebufferFrames) /\ n \in Nat
  BY <1>1, VmmAssumption DEF Inv
<1>3. v \in AllVirt /\ frame \in DirectFrames /\ frame \in AllPhys
  BY <1>2, Pages
<1>4. "U" \notin flags /\ "W" \in flags /\ flags \in AllFlags
  BY DEF AllFlags
<1>5. KernelMapped /\ HhdmMapped
  BY DEF Inv
<1> HIDE DEF v, frame, flags
<1>6. /\ Tree' /\ n' = n + 1 /\ top_level' = top_level /\ top_level # NULL /\ UpperKept
      /\ TlbCoherent' /\ DOMAIN tlb' \subseteq AllVirt
      /\ (Maps(v, frame, flags) /\ pc' = pc) \/ (Keeps /\ pc' \in Stopped \cup {pc})
  BY <1>1, <1>3, <1>4, BootMapStep
<1>7. OnePageChanges
  BY <1>3, <1>4, <1>6, MapVisible
<1>8. ASSUME pc' = pc PROVE KernelMapped' /\ HhdmMapped'
  <2>1. \A u \in AllVirt \ {v} : Walk(entries', u) = Walk(entries, u)
    BY <1>6 DEF Maps, Keeps
  <2>2. Harmless(v)
    BY <1>3, <1>4, <1>6, DirectHarmless DEF v
  <2> QED BY <1>1, <1>5, <1>6, <1>8, <2>1, <2>2, PagesKept
<1>9. KernelMapped' /\ HhdmMapped'
  BY <1>6, <1>8 DEF KernelMapped, HhdmMapped, Stopped
<1>10. Inv'
  BY <1>1, <1>2, <1>6, <1>9 DEF Inv, TopLevel, Stopped
<1> QED BY <1>6, <1>7, <1>10 DEF StepGoal

\* map_page, in the running kernel.
LEMMA MapPageMaps ==
  ASSUME Inv, NEW v \in AllVirt, NEW p, NEW flags, "U" \notin flags, map_page(v, p, flags)
  PROVE  /\ pc = "run" /\ pc' \in Stopped \cup {"run"} /\ n' = n /\ top_level' = top_level
         /\ top_level # NULL /\ Tree' /\ UpperKept /\ (Maps(v, p, flags) \/ Keeps)
<1>1. PICK budget \in 0 .. 3 :
        LET w == Descend(v, flags, budget)
        IN  /\ pc = "run"
            /\ free' = w.free
            /\ pc' = w.pc
            /\ \/ w.table # NULL /\ Mapped(w, v, p, flags)
               \/ w.table = NULL /\ MapFails(w)
            /\ UNCHANGED <<n, top_level>>
  BY DEF map_page
<1>2. PICK w : w = Descend(v, flags, budget)
  OBVIOUS
<1>3. /\ pc = "run" /\ free' = w.free /\ pc' = w.pc /\ n' = n /\ top_level' = top_level
      /\ (w.table # NULL /\ Mapped(w, v, p, flags)) \/ (w.table = NULL /\ MapFails(w))
  BY <1>1, <1>2
<1>4. top_level # NULL /\ Tree
  BY <1>3 DEF Inv, TopLevel
<1>5. /\ Tree' /\ KeepsTop /\ w.pc \in Stopped \cup {pc}
      /\ (w.table # NULL /\ Maps(v, p, flags)) \/ (w.table = NULL /\ Keeps)
  BY <1>2, <1>3, <1>4, MapStep
<1> QED BY <1>3, <1>4, <1>5 DEF UpperKept, KeepsTop

\* A caller maps a page, of its own or at HIGHER_HALF.
LEMMA MapPageStep ==
  ASSUME Inv, NEW v \in AllVirt, NEW p \in AllPhys, NEW flags \in AllFlags, "U" \notin flags,
         map_page(v, p, flags), (Maps(v, p, flags) \/ Keeps) => Harmless(v)
  PROVE  StepGoal
<1>1. /\ pc = "run" /\ pc' \in Stopped \cup {"run"} /\ n' = n /\ top_level' = top_level
      /\ top_level # NULL /\ Tree' /\ UpperKept /\ (Maps(v, p, flags) \/ Keeps)
  BY MapPageMaps
<1>2. OnePageChanges
  BY <1>1, MapVisible
<1>3. TlbCoherent' /\ DOMAIN tlb' \subseteq AllVirt
  BY <1>1, TlbFlushed, TlbKept DEF Inv, Maps
<1>4. KernelMapped' /\ HhdmMapped'
  <2>1. CASE pc' \in Stopped
    BY <2>1 DEF KernelMapped, HhdmMapped, Stopped
  <2>2. CASE pc' = "run"
    <3>1. \A u \in AllVirt \ {v} : Walk(entries', u) = Walk(entries, u)
      BY <1>1 DEF Maps, Keeps
    <3>2. KernelMapped /\ HhdmMapped /\ Harmless(v)
      BY <1>1 DEF Inv
    <3> QED BY <1>1, <2>2, <3>1, <3>2, PagesKept
  <2> QED BY <1>1, <2>1, <2>2
<1>5. Inv'
  BY <1>1, <1>3, <1>4 DEF Inv, TopLevel, Stopped
<1> QED BY <1>1, <1>2, <1>5 DEF StepGoal

\* The heap maps a page, or an ACPI table or an APIC is mapped at HIGHER_HALF.
LEMMA CallersStep ==
  ASSUME Inv,
         \/ \E v \in CallerVirt, p \in CallerPhys, f \in CallerFlags : map_page(v, p, f)
         \/ MapAcpiTable
         \/ MapApic
  PROVE  StepGoal
<1>1. ASSUME NEW v \in CallerVirt, NEW p \in CallerPhys, NEW f \in CallerFlags, map_page(v, p, f)
      PROVE  StepGoal
  <2>1. v \in AllVirt /\ p \in AllPhys /\ f \in AllFlags /\ "U" \notin f /\ Harmless(v)
    BY Pages, NoUserPages DEF AllPhys, AllFlags, Harmless
  <2> QED BY <1>1, <2>1, MapPageStep
<1>2. CASE MapAcpiTable
  <2>1. PICK f \in AcpiFrames : map_page(Hhdm(f), f, AcpiFlags)
    BY <1>2 DEF MapAcpiTable
  <2>2. f \in DirectFrames /\ Hhdm(f) \in AllVirt /\ f \in AllPhys /\ AcpiFlags \in AllFlags
        /\ "U" \notin AcpiFlags
    BY Pages DEF AllFlags, AcpiFlags
  <2>3. Maps(Hhdm(f), f, AcpiFlags) \/ Keeps => Harmless(Hhdm(f))
    BY <2>2, DirectHarmless
  <2> QED BY <2>1, <2>2, <2>3, MapPageStep
<1>3. CASE MapApic
  <2>1. PICK f \in ApicFrames : map_page(Hhdm(f), f, ApicFlags)
    BY <1>3 DEF MapApic
  <2>2. f \in DirectFrames /\ Hhdm(f) \in AllVirt /\ f \in AllPhys /\ ApicFlags \in AllFlags
        /\ "U" \notin ApicFlags /\ "W" \in ApicFlags
    BY Pages DEF AllFlags, ApicFlags
  <2>3. Maps(Hhdm(f), f, ApicFlags) \/ Keeps => Harmless(Hhdm(f))
    BY <2>2, DirectHarmless
  <2> QED BY <2>1, <2>2, <2>3, MapPageStep
<1> QED BY <1>1, <1>2, <1>3

\* A caller unmaps a page.
LEMMA UnmapPageStep ==
  ASSUME Inv, NEW v \in CallerVirt, pc = "run", pc' \in {"fault", pc}, n' = n,
         top_level' = top_level, Walk(entries, v) # NoTranslation,
         entries' = Reclaim(v).e, free' = free \cup Reclaim(v).freed, tlb' = Flushed(v)
  PROVE  StepGoal
<1>1. /\ pc = "run" /\ Walk(entries, v) # NoTranslation
      /\ entries' = Reclaim(v).e /\ free' = free \cup Reclaim(v).freed /\ tlb' = Flushed(v)
      /\ pc' \in {"fault", pc} /\ n' = n /\ top_level' = top_level
  OBVIOUS
<1>2. v \in AllVirt /\ Tree /\ KernelMapped /\ HhdmMapped /\ TlbCoherent /\ DOMAIN tlb \subseteq AllVirt
  BY Pages DEF Inv
<1>3. PICK r : r = Reclaim(v)
  OBVIOUS
<1>4. /\ r.freed \subseteq Frames \ free
      /\ \E lev : TreeOf(r.e, (Frames \ free) \ r.freed, lev)
      /\ Walk(r.e, v) = NoTranslation
      /\ \A u \in AllVirt \ {v} : Walk(r.e, u) = Walk(entries, u)
      /\ \A i \in UpperHalf : <<top_level, i>> \in DOMAIN entries =>
           <<top_level, i>> \in DOMAIN r.e /\ r.e[<<top_level, i>>] = entries[<<top_level, i>>]
  BY <1>1, <1>2, <1>3, ReclaimTree
<1>5. entries' = r.e /\ free' = free \cup r.freed
  BY <1>1, <1>3
<1>6. Tree'
  <2>1. PICK lev : TreeOf(r.e, (Frames \ free) \ r.freed, lev)
    BY <1>4
  <2>2. Frames \ free' = (Frames \ free) \ r.freed /\ free' \subseteq Frames
    BY <1>2, <1>4, <1>5 DEF Tree
  <2>3. TreeOf(entries', Frames \ free', lev)
    BY <1>5, <2>1, <2>2
  <2> QED BY <1>1, <2>2, <2>3, TreeNext
<1>7. \A u \in AllVirt \ {v} : Walk(entries', u) = Walk(entries, u)
  BY <1>4, <1>5
<1>8. TlbCoherent' /\ DOMAIN tlb' \subseteq AllVirt
  BY <1>1, <1>2, <1>7, TlbFlushed
<1>9. KernelMapped' /\ HhdmMapped'
  <2>1. CASE pc' = "fault"
    BY <2>1 DEF KernelMapped, HhdmMapped
  <2>2. CASE pc' = pc
    <3>1. Harmless(v)
      BY DEF Harmless
    <3> QED BY <1>1, <1>2, <1>7, <2>2, <3>1, PagesKept
  <2> QED BY <1>1, <2>1, <2>2
<1>10. UpperKept
  BY <1>4, <1>5 DEF UpperKept
<1>11. OnePageChanges
  <2>1. Walk(entries, v)' = NoTranslation
    BY <1>1, <1>4, <1>5, WalkNext
  <2>2. \A u \in AllVirt \ {v} : Walk(entries, u)' = Walk(entries, u)
    BY <1>1, <1>7, WalkNext
  <2> QED BY <1>2, <2>1, <2>2 DEF OnePageChanges
<1>12. Inv'
  BY <1>1, <1>6, <1>8, <1>9 DEF Inv, TopLevel
<1> QED BY <1>10, <1>11, <1>12 DEF StepGoal

\* The kernel faults before it changed anything.
LEMMA FaultStep ==
  ASSUME Inv, pc' = "fault", UNCHANGED <<n, free, top_level, entries, tlb>>
  PROVE  StepGoal
<1>1. n' = n /\ free' = free /\ top_level' = top_level /\ entries' = entries /\ tlb' = tlb
  OBVIOUS
<1>2. \A u : Walk(entries, u)' = Walk(entries, u)
  BY <1>1, WalkNext
<1>3. Tree'
  BY <1>1 DEF Inv, Tree, TreeOf
<1>4. TlbCoherent' /\ DOMAIN tlb' \subseteq AllVirt
  BY <1>1, TlbKept DEF Inv, Keeps
<1>5. Inv'
  BY <1>1, <1>3, <1>4 DEF Inv, TopLevel, KernelMapped, HhdmMapped
<1> QED BY <1>1, <1>2, <1>5 DEF StepGoal, UpperKept, OnePageChanges

\* The processor caches a translation.
LEMMA AccessStep == ASSUME Inv, NEW v \in AllVirt, Access(v) PROVE StepGoal
<1>1. /\ pc' = pc /\ n' = n /\ free' = free /\ top_level' = top_level /\ entries' = entries
      /\ tlb' = [u \in DOMAIN tlb \cup {v} |-> IF u = v THEN Walk(entries, v) ELSE tlb[u]]
  BY DEF Access
<1>2. \A u : Walk(entries, u)' = Walk(entries, u)
  BY <1>1, WalkNext
<1>3. Tree'
  BY <1>1 DEF Inv, Tree, TreeOf
<1>4. DOMAIN tlb' \subseteq AllVirt
  BY <1>1 DEF Inv
<1>5. TlbCoherent'
  BY <1>1, <1>2 DEF Inv, TlbCoherent
<1>6. KernelMapped'
  BY <1>1, <1>2 DEF Inv, KernelMapped
<1>7. HhdmMapped'
  BY <1>1, <1>2 DEF Inv, HhdmMapped, Found
<1>8. Inv'
  BY <1>1, <1>3, <1>4, <1>5, <1>6, <1>7 DEF Inv, TopLevel
<1> QED BY <1>1, <1>2, <1>8 DEF StepGoal, UpperKept, OnePageChanges

\* Every step keeps the invariant, and one page's translation changes at most.
LEMMA StepHolds == Inv /\ [Next]_vars => StepGoal
<1> SUFFICES ASSUME Inv, [Next]_vars PROVE StepGoal
  OBVIOUS
<1>1. CASE AllocatePml4
  BY <1>1, AllocatePml4Step
<1>2. CASE AllocateUpper
  BY <1>2, AllocateUpperStep
<1>3. CASE NextLoop
  BY <1>3, NextLoopStep
<1>4. CASE MapKernelPage
  BY <1>4, MapKernelPageStep
<1>5. CASE MapHhdmPage
  BY <1>5, MapHhdmPageStep
<1>6. CASE MapFramebufferPage
  BY <1>6, MapFramebufferPageStep
<1>7. CASE \/ \E v \in CallerVirt, p \in CallerPhys, f \in CallerFlags : map_page(v, p, f)
           \/ MapAcpiTable
           \/ MapApic
  BY <1>7, CallersStep
<1>8. ASSUME NEW v \in CallerVirt, unmap_page(v)
      PROVE  StepGoal
  <2>1. pc = "run" /\ n' = n /\ top_level' = top_level
    BY <1>8 DEF unmap_page
  <2>2. CASE pc' = "fault" /\ UNCHANGED <<entries, free, tlb>>
    BY <2>1, <2>2, FaultStep
  <2>3. CASE /\ Walk(entries, v) # NoTranslation
             /\ entries' = Reclaim(v).e /\ free' = free \cup Reclaim(v).freed /\ tlb' = Flushed(v)
             /\ pc' \in {"fault", pc}
    BY <2>1, <2>3, UnmapPageStep
  <2> QED BY <1>8, <2>2, <2>3 DEF unmap_page
<1>9. ASSUME NEW v \in CallerVirt \cup {Hhdm(f) : f \in AcpiFrames}, Access(v)
      PROVE  StepGoal
  <2>1. v \in AllVirt
    BY Pages
  <2> QED BY <1>9, <2>1, AccessStep
<1>10. CASE UNCHANGED vars
  BY <1>10, StutterStep
<1> QED BY <1>1, <1>2, <1>3, <1>4, <1>5, <1>6, <1>7, <1>8, <1>9, <1>10 DEF Next, hcf

-----------------------------------------------------------------------------
(* The tables by level.                                                    *)

\* The tables the properties find from the PML4 down are the frames of each level.
LEMMA Levels ==
  ASSUME NEW lev, TreeOf(entries, Frames \ free, lev)
  PROVE  LET L(l) == {t \in Frames \ free : lev[t] = l}
         IN  Pml4s = L(1) /\ Pdpts = L(2) /\ Pds = L(3) /\ Pts = L(4)
<1> DEFINE T == Frames \ free
           L(l) == {t \in T : lev[t] = l}
<1>1. ASSUME NEW l \in 1 .. 3, NEW S, S = L(l)
      PROVE  Children(S) = L(l + 1)
  <2>1. ASSUME NEW k \in DOMAIN entries, k[1] \in S
        PROVE  entries[k].addr \in L(l + 1)
    BY <1>1, <2>1 DEF TreeOf
  <2>2. ASSUME NEW t \in L(l + 1)
        PROVE  \E k \in DOMAIN entries : k[1] \in S /\ entries[k].addr = t
    <3>1. t \in T /\ lev[t] = l + 1 /\ lev[t] # 1
      OBVIOUS
    <3>2. PICK k \in DOMAIN entries : lev[k[1]] # 4 /\ entries[k].addr = t
      BY <3>1 DEF TreeOf
    <3>3. k[1] \in T /\ lev[k[1]] \in 1 .. 4 /\ lev[t] = lev[k[1]] + 1
      BY <3>2 DEF TreeOf
    <3>4. lev[k[1]] = l
      BY <3>1, <3>3
    <3> QED BY <1>1, <3>2, <3>3, <3>4
  <2> HIDE DEF L
  <2> QED BY <2>1, <2>2 DEF Children
<1>2. Pml4s = L(1)
  BY DEF Pml4s, TreeOf
<1> HIDE DEF L
<1>3. Pdpts = L(2)
  BY <1>1, <1>2 DEF Pdpts
<1>4. Pds = L(3)
  BY <1>1, <1>3 DEF Pds
<1>5. Pts = L(4)
  BY <1>1, <1>4 DEF Pts
<1> QED BY <1>2, <1>3, <1>4, <1>5 DEF L

\* The invariant has the tree and the accounting in it.
LEMMA InvTree == Inv => TablesFormTree /\ TablesAccounted
<1> SUFFICES ASSUME Inv PROVE TablesFormTree /\ TablesAccounted
  OBVIOUS
<1> DEFINE T == Frames \ free
<1>1. PICK lev : TreeOf(entries, T, lev)
  BY DEF Inv, Tree
<1>2. /\ Pml4s = {t \in T : lev[t] = 1} /\ Pdpts = {t \in T : lev[t] = 2}
      /\ Pds = {t \in T : lev[t] = 3} /\ Pts = {t \in T : lev[t] = 4}
  BY <1>1, Levels
<1>3. \A t \in T : lev[t] \in 1 .. 4
  BY <1>1 DEF TreeOf
<1>4. TablesAccounted
  BY <1>2, <1>3 DEF TablesAccounted, Tables
<1>5. \A k \in DOMAIN entries : k[1] \in T /\ (k[1] \notin Pts => lev[k[1]] # 4)
  BY <1>1, <1>2 DEF TreeOf
<1>6. \A k, l \in {k \in DOMAIN entries : k[1] \notin Pts} :
        entries[k].addr = entries[l].addr => k = l
  BY <1>1, <1>5 DEF TreeOf
<1>7. /\ Pml4s \cap Pdpts = {} /\ (Pml4s \cup Pdpts) \cap Pds = {}
      /\ (Pml4s \cup Pdpts \cup Pds) \cap Pts = {}
  BY <1>2
<1> QED BY <1>4, <1>6, <1>7 DEF TablesFormTree

\* Pages setup_vmm mapped are translated after the switch.
LEMMA InvReachable == Inv => KernelReachable
<1> SUFFICES ASSUME Inv, pc = "run" PROVE
       /\ \A i \in 1 .. Len(HhdmFrames) :
            HhdmFrames[i] \in Tables => Found(HhdmFrames[i], Walk(entries, Hhdm(HhdmFrames[i])))
       /\ \A i \in 1 .. Len(KernelPages) :
            Walk(entries, KernelPages[i].virt)
              = [addr |-> KernelPages[i].phys,
                 flags |-> IF KernelPages[i].section = "text" THEN {}
                           ELSE IF KernelPages[i].section = "rodata" THEN {"NX"} ELSE {"W", "NX"}]
  BY DEF KernelReachable, Found
<1>1. \A i \in 1 .. Len(HhdmFrames) : Found(HhdmFrames[i], Walk(entries, Hhdm(HhdmFrames[i])))
  BY DEF Inv, HhdmMapped
<1>2. ASSUME NEW i \in 1 .. Len(KernelPages)
      PROVE  Walk(entries, KernelPages[i].virt)
              = [addr |-> KernelPages[i].phys,
                 flags |-> IF KernelPages[i].section = "text" THEN {}
                           ELSE IF KernelPages[i].section = "rodata" THEN {"NX"} ELSE {"W", "NX"}]
  <2>1. Walk(entries, KernelPages[i].virt)
          = [addr |-> KernelPages[i].phys, flags |-> SectionFlags(KernelPages[i].section)]
    BY DEF Inv, KernelMapped
  <2> QED BY <2>1 DEF SectionFlags
<1> QED BY <1>1, <1>2

-----------------------------------------------------------------------------
(* The theorems.                                                           *)

\* The invariant holds in every state.
THEOREM Invariance == Spec => []Inv
<1>1. Init => Inv
  BY InvInit
<1>2. Inv /\ [Next]_vars => Inv'
  BY StepHolds DEF StepGoal
<1> QED BY <1>1, <1>2, PTL DEF Spec

\* The tables map_page and unmap_page link form a tree, whatever they are called with
\* and wherever a call fails.
THEOREM TreeAlways == Spec => []TablesFormTree
<1>1. Inv => TablesFormTree
  BY InvTree
<1> QED BY <1>1, Invariance, PTL

\* The frames taken from the allocator are the linked tables: no table leaks, and none
\* is used after unmap_page freed it.
THEOREM AccountedAlways == Spec => []TablesAccounted
<1>1. Inv => TablesAccounted
  BY InvTree
<1> QED BY <1>1, Invariance, PTL

\* On its own tables the kernel finds its image, with the rights of its sections, and
\* through the direct map every table that lies in a free chunk, to be written unless an
\* ACPI table was mapped over it.
THEOREM ReachableAlways == Spec => []KernelReachable
<1>1. Inv => KernelReachable
  BY InvReachable
<1> QED BY <1>1, Invariance, PTL

\* The processor never holds a translation the tables do not give.
THEOREM CoherentAlways == Spec => []TlbCoherent
<1>1. Inv => TlbCoherent
  BY DEF Inv
<1> QED BY <1>1, Invariance, PTL

\* No step changes an upper-half entry of the PML4 once it is there.
THEOREM UpperHalfKept == Spec => UpperHalfStable
<1>1. Inv /\ [Next]_vars => UpperKept
  BY StepHolds DEF StepGoal
<1>2. UpperKept => [\A i \in UpperHalf :
        <<top_level, i>> \in DOMAIN entries =>
          /\ <<top_level, i>> \in DOMAIN entries'
          /\ entries'[<<top_level, i>>] = entries[<<top_level, i>>]]_vars
  BY DEF UpperKept
<1> QED BY <1>1, <1>2, Invariance, PTL DEF Spec, UpperHalfStable

\* map_page gives the page what was asked for, or fails and changes nothing for it.
THEOREM Honoured == Spec => MapPageHonoured
<1>1. Inv => [\A v \in CallerVirt, p \in CallerPhys, f \in CallerFlags :
        map_page(v, p, f) =>
          Walk(entries', v) \in {[addr |-> p, flags |-> f], Walk(entries, v)}]_vars
  <2> SUFFICES ASSUME Inv, NEW v \in CallerVirt, NEW p \in CallerPhys, NEW f \in CallerFlags,
                      map_page(v, p, f)
               PROVE  Walk(entries', v) \in {[addr |-> p, flags |-> f], Walk(entries, v)}
    OBVIOUS
  <2>1. Maps(v, p, f) \/ Keeps
    BY Pages, NoUserPages, MapPageMaps
  <2> QED BY <2>1 DEF Maps, Keeps
<1> QED BY <1>1, Invariance, PTL DEF Spec, MapPageHonoured

\* The page tables implement the address space: initially nothing is mapped, and every
\* step changes the translation of one page or of none.
THEOREM Implements == Spec => ImplementsAddressSpace
<1> DEFINE tr == [v \in AllVirt |-> Walk(entries, v)]
<1>1. Init => Abs!Init
  <2> SUFFICES ASSUME Init PROVE tr = [v \in AllVirt |-> NoTranslation]
    BY DEF Abs!Init
  <2>1. DOMAIN entries = {}
    BY DEF Init
  <2>2. \A v : Walk(entries, v) = NoTranslation
    BY <2>1 DEF Walk
  <2> QED BY <2>2
<1>2. Inv /\ [Next]_vars => [Abs!Next]_tr
  <2> SUFFICES ASSUME Inv, [Next]_vars PROVE Abs!Next \/ tr' = tr
    OBVIOUS
  <2>1. OnePageChanges
    BY StepHolds DEF StepGoal
  <2>2. ASSUME \A u \in AllVirt : Walk(entries, u)' = Walk(entries, u)
        PROVE  tr' = tr
    BY <2>2
  <2>3. ASSUME NEW v \in AllVirt, Walk(entries, v)' # Walk(entries, v),
               \A u \in AllVirt \ {v} : Walk(entries, u)' = Walk(entries, u),
               \/ Walk(entries, v)' = NoTranslation
               \/ Walk(entries, v)'.addr \in AllPhys /\ Walk(entries, v)'.flags \in AllFlags
        PROVE  Abs!Next
    <3> DEFINE changed == {u \in AllVirt : tr'[u] # tr[u]}
    <3>1. \A u \in AllVirt : tr[u] = Walk(entries, u) /\ tr'[u] = Walk(entries, u)'
      OBVIOUS
    <3>2. changed = {v}
      BY <2>3, <3>1
    <3>3. tr'[v] = NoTranslation \/ Abs!IsTranslation(tr'[v])
      BY <2>3, <3>1 DEF Abs!IsTranslation
    <3> HIDE DEF tr
    <3>4. \E u \in changed : changed = {u} /\ (tr'[u] = NoTranslation \/ Abs!IsTranslation(tr'[u]))
      BY <3>2, <3>3
    <3> QED BY <3>4 DEF Abs!Next, tr
  <2> QED BY <2>1, <2>2, <2>3 DEF OnePageChanges
<1> QED BY <1>1, <1>2, Invariance, PTL DEF Spec, ImplementsAddressSpace, Abs!Spec
=============================================================================
