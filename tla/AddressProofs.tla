--------------------------- MODULE AddressProofs ---------------------------
(***************************************************************************)
(* Proofs about addresses, for every size of the tables.                   *)
(*                                                                         *)
(* The address translation table (AddrMap), with every hash and all sets   *)
(* of addresses: the binary searches and the scans of the code do what a   *)
(* plain search would, the table and its index stay consistent, and the    *)
(* table implements the set of address pairs.                              *)
(*                                                                         *)
(* The addresses that parents give to their children (TreeJoin), for every *)
(* number of devices and every tree that fits in 16 bits: no two devices   *)
(* get the same one, and the blocks of the routers are nested.             *)
(*                                                                         *)
(* Induction over a recursion is by the least number for which a claim     *)
(* fails (LeastOf).                                                        *)
(***************************************************************************)
EXTENDS AddrMap, TreeJoin, FiniteSetTheorems, SequenceTheorems, WellFoundedInduction, TLAPS

-----------------------------------------------------------------------------
(* The inductive invariant, as a predicate of a table, since the operations *)
(* compose: zb_address_update() deletes, moves and inserts in one step.     *)

Tables == [addr_map : [Refs -> Entry], short_sorted : [Refs -> Refs \cup {NoRef}],
           n_sorted_elements : 0 .. TableSize, n_elements : 0 .. TableSize]

UsedOf(a) == {r \in Refs : a.addr_map[r].used}
ShortOf(a, r) == a.addr_map[r].addr
IeeeOf(a, r) == a.addr_map[r].ieee_addr

\* The entries that belong in the index.
Known(a) == {r \in UsedOf(a) : ShortOf(a, r) # NoShort}

\* The index of a lists the entries S, in ascending order of their addresses.
Indexed(a, S) ==
    LET n == a.n_sorted_elements IN
    /\ \A k \in 0 .. n - 1 : a.short_sorted[k] \in S
    /\ \A r \in S : \E k \in 0 .. n - 1 : a.short_sorted[k] = r
    /\ \A j, k \in 0 .. n - 1 : j < k => ShortAt(a, j) < ShortAt(a, k)

\* A used entry has an address, and shares none with another one.
Distinct(a) ==
    /\ \A r \in UsedOf(a) : /\ ShortOf(a, r) \in Shorts \cup {NoShort}
                            /\ ShortOf(a, r) # NoShort \/ IeeeOf(a, r) # NoIeee
    /\ \A q, r \in UsedOf(a) : q # r =>
         /\ ShortOf(a, q) = ShortOf(a, r) => ShortOf(a, q) = NoShort
         /\ IeeeOf(a, q) = IeeeOf(a, r) => IeeeOf(a, q) = NoIeee

Sound(a) ==
    /\ a \in Tables
    /\ Indexed(a, Known(a))
    /\ Distinct(a)
    /\ a.n_elements = Cardinality(UsedOf(a))

AddrInv ==
    /\ Sound(addr)
    /\ deletes \in 0 .. MaxDeletes /\ aborted \in BOOLEAN

-----------------------------------------------------------------------------
(* The searches.                                                            *)

\* A set of numbers that is not empty has a least one.
LEMMA LeastOf ==
  ASSUME NEW S, S \subseteq Nat, S # {}
  PROVE  \E x \in S : \A y \in S : x <= y
<1> DEFINE R == {ss \in Nat \X Nat : ss[1] < ss[2]}
<1>0. IsWellFoundedOn(R, Nat)
  BY NatLessThanWellFounded DEF OpToRel
<1> HIDE DEF R
<1>1. PICK x \in S : \A y \in S : ~(<<y, x>> \in R)
  BY <1>0, WFMin
<1>2. \A y \in S : ~(y < x)
  BY <1>1 DEF R
<1> QED
  BY <1>2

\* The size of the table, and its references.
LEMMA Sizes ==
  /\ TableSize \in Nat \ {0} /\ NoRef = TableSize /\ NoRef \notin Refs
  /\ Refs \subseteq Nat /\ 0 \in Refs
  /\ IsFiniteSet(Refs) /\ Cardinality(Refs) = TableSize
<1>1. TableSize \in Nat \ {0}
  BY AddrAssumption
<1>2. NoRef = TableSize /\ NoRef \notin Refs /\ Refs \subseteq Nat /\ 0 \in Refs
  BY <1>1 DEF NoRef, Refs
<1>3. IsFiniteSet(Refs) /\ Cardinality(Refs) = TableSize
  <2>1. 0 \in Int /\ TableSize - 1 \in Int
        /\ (IF 0 > TableSize - 1 THEN 0 ELSE TableSize - 1 - 0 + 1) = TableSize
    BY <1>1
  <2> QED
    BY <2>1, FS_Interval DEF Refs
<1> QED
  BY <1>1, <1>2, <1>3

\* A number below twice the size wraps to what is left of it.
LEMMA Wraps ==
  ASSUME NEW T \in Nat \ {0}, NEW x \in 0 .. T - 1
  PROVE  x % T = x /\ (T + x) % T = x
<1>1. x % T = x
  OBVIOUS
<1>2. (T + x) % T = x
  OBVIOUS
<1> QED
  BY <1>1, <1>2

\* The open hash looks at every entry, wherever it starts.
LEMMA ProbeFinds ==
  ASSUME NEW h \in Refs, NEW wanted \in SUBSET Refs
  PROVE  /\ wanted # {} => Probe(h, wanted) \in wanted
         /\ wanted = {} => Probe(h, wanted) = NoRef
<1> DEFINE hits == {k \in Refs : (h + k) % TableSize \in wanted}
<1> DEFINE first == CHOOSE k \in hits : \A j \in hits : k <= j
<1>1. Probe(h, wanted) = IF hits = {} THEN NoRef ELSE (h + first) % TableSize
  BY DEF Probe
<1>2. TableSize \in Nat \ {0} /\ h \in 0 .. TableSize - 1 /\ Refs = 0 .. TableSize - 1
  BY Sizes DEF Refs
<1>3. ASSUME NEW r \in wanted
      PROVE  hits # {}
  <2>1. r \in 0 .. TableSize - 1
    BY <1>2
  <2>2. CASE r >= h
    <3>1. r - h \in 0 .. TableSize - 1 /\ h + (r - h) = r /\ r % TableSize = r
      BY <1>2, <2>1, <2>2, Wraps
    <3>2. r - h \in hits
      BY <1>2, <3>1
    <3> QED
      BY <3>2
  <2>3. CASE r < h
    <3>1. TableSize + r - h \in 0 .. TableSize - 1 /\ h + (TableSize + r - h) = TableSize + r
      BY <1>2, <2>1, <2>3
    <3>2. (TableSize + r) % TableSize = r
      BY <1>2, <2>1, Wraps
    <3>3. TableSize + r - h \in hits
      BY <1>2, <3>1, <3>2
    <3> QED
      BY <3>3
  <2> QED
    BY <1>2, <2>1, <2>2, <2>3
<1>4. ASSUME hits # {}
      PROVE  (h + first) % TableSize \in wanted
  <2>1. hits \subseteq Nat
    BY <1>2
  <2> HIDE DEF hits
  <2>2. first \in hits
    BY <1>4, <2>1, LeastOf
  <2> QED
    BY <2>2 DEF hits
<1>5. wanted = {} => hits = {}
  OBVIOUS
<1> HIDE DEF hits, first
<1> QED
  BY <1>1, <1>3, <1>4, <1>5

\* One step of a binary search for the end of the positions G, between the
\* bounds b.
Middle(b) == b[1] + (b[2] - b[1]) \div 2
Halved(G, s, b) ==
    IF b[1] >= b[2] THEN b[1]
    ELSE IF Middle(b) \in G THEN s[<<Middle(b) + 1, b[2]>>] ELSE s[<<b[1], Middle(b)>>]
Places == 0 .. TableSize
Bounds == Places \X Places

\* The middle of a range lies in it, and both halves are shorter.
LEMMA MiddleBetween ==
  ASSUME NEW l \in Places, NEW r \in Places, l < r
  PROVE  /\ Middle(<<l, r>>) \in Places /\ Middle(<<l, r>>) + 1 \in Places
         /\ l <= Middle(<<l, r>>) /\ Middle(<<l, r>>) < r
<1>1. l \in Nat /\ r \in Nat /\ r <= TableSize /\ TableSize \in Nat
  BY Sizes DEF Places
<1>2. (r - l) \div 2 \in Nat /\ (r - l) \div 2 < r - l
  BY <1>1
<1>3. Middle(<<l, r>>) = l + (r - l) \div 2
  BY DEF Middle
<1> QED
  BY <1>1, <1>2, <1>3 DEF Places

\* The recursion of the binary search has a solution: the bounds come closer.
LEMMA SearchExists ==
  ASSUME NEW G
  PROVE  \E s : s = [b \in Bounds |-> Halved(G, s, b)]
<1> DEFINE Solves(s, m) ==
             \A l, r \in Places : r - l <= m => s[<<l, r>>] = Halved(G, s, <<l, r>>)
<1> DEFINE Fails == {m \in Nat : ~\E s \in [Bounds -> Places] : Solves(s, m)}
<1>0. TableSize \in Nat /\ Places \subseteq Nat
  BY Sizes DEF Places
<1>a. \A b \in Bounds : b = <<b[1], b[2]>> /\ b[1] \in Places /\ b[2] \in Places
  BY DEF Bounds
<1>b. \A l, r \in Places : <<l, r>> \in Bounds
  BY DEF Bounds
<1>1. 0 \notin Fails
  <2> DEFINE s0 == [b \in Bounds |-> b[1]]
  <2>1. s0 \in [Bounds -> Places]
    BY <1>a
  <2>2. ASSUME NEW l \in Places, NEW r \in Places, r - l <= 0
        PROVE  s0[<<l, r>>] = Halved(G, s0, <<l, r>>)
    <3>1. l >= r
      BY <1>0, <2>2
    <3>2. s0[<<l, r>>] = l
      BY <1>b
    <3> HIDE DEF s0
    <3> QED
      BY <3>1, <3>2 DEF Halved
  <2> HIDE DEF s0
  <2> QED
    BY <2>1, <2>2
<1>2. ASSUME NEW m \in Nat, m \notin Fails
      PROVE  m + 1 \notin Fails
  <2>1. PICK s \in [Bounds -> Places] : Solves(s, m)
    BY <1>2
  <2> DEFINE t == [b \in Bounds |-> IF b[2] - b[1] <= m THEN s[b] ELSE Halved(G, s, b)]
  <2>2. \A l, r \in Places :
          t[<<l, r>>] = IF r - l <= m THEN s[<<l, r>>] ELSE Halved(G, s, <<l, r>>)
    BY <1>b
  <2>3. t \in [Bounds -> Places]
    <3>1. ASSUME NEW l \in Places, NEW r \in Places
          PROVE  Halved(G, s, <<l, r>>) \in Places
      <4>1. CASE l >= r
        BY <4>1 DEF Halved
      <4>2. CASE l < r
        <5>1. PICK i : i = Middle(<<l, r>>)
          OBVIOUS
        <5>2. i \in Places /\ i + 1 \in Places
          BY <4>2, <5>1, MiddleBetween
        <5>3. s[<<i + 1, r>>] \in Places /\ s[<<l, i>>] \in Places
          BY <1>b, <5>2
        <5> QED
          BY <4>2, <5>1, <5>3, <1>0 DEF Halved
      <4> QED
        BY <4>1, <4>2, <1>0
    <3>2. \A b \in Bounds : Halved(G, s, b) \in Places
      BY <1>a, <3>1
    <3> QED
      BY <3>2
  <2> HIDE DEF t
  <2>4. ASSUME NEW l \in Places, NEW r \in Places, r - l <= m + 1
        PROVE  t[<<l, r>>] = Halved(G, t, <<l, r>>)
    <3>1. t[<<l, r>>] = Halved(G, s, <<l, r>>)
      <4>1. CASE r - l <= m
        BY <2>1, <2>2, <4>1
      <4>2. CASE ~(r - l <= m)
        BY <2>2, <4>2
      <4> QED
        BY <4>1, <4>2
    <3>2. CASE l >= r
      BY <3>1, <3>2 DEF Halved
    <3>3. CASE l < r
      <4>0. PICK i : i = Middle(<<l, r>>)
        OBVIOUS
      <4>1. i \in Places /\ i + 1 \in Places /\ l <= i /\ i < r
        BY <3>3, <4>0, MiddleBetween
      <4>2. r - (i + 1) <= m /\ i - l <= m
        BY <1>0, <2>4, <4>1
      <4>3. t[<<i + 1, r>>] = s[<<i + 1, r>>] /\ t[<<l, i>>] = s[<<l, i>>]
        BY <2>2, <4>1, <4>2
      <4> QED
        BY <3>1, <3>3, <4>0, <4>3 DEF Halved
    <3> QED
      BY <3>2, <3>3, <1>0
  <2>5. Solves(t, m + 1)
    BY <2>4
  <2> QED
    BY <2>3, <2>5
<1>3. Fails = {}
  <2> SUFFICES ASSUME Fails # {}
               PROVE  FALSE
    OBVIOUS
  <2>1. Fails \subseteq Nat
    OBVIOUS
  <2> HIDE DEF Fails
  <2>2. PICK m \in Fails : \A k \in Fails : m <= k
    BY <2>1, LeastOf
  <2>3. m \in Nat /\ m # 0
    BY <1>1, <2>1, <2>2
  <2>4. m - 1 \in Nat /\ m - 1 \notin Fails /\ (m - 1) + 1 = m
    BY <2>2, <2>3
  <2> QED
    BY <1>2, <2>2, <2>4
<1>4. PICK s \in [Bounds -> Places] : Solves(s, TableSize)
  <2>1. TableSize \notin Fails
    BY <1>3
  <2> QED
    BY <1>0, <2>1
<1>5. \A l, r \in Places : r - l <= TableSize
  BY <1>0 DEF Places
<1>6. \A l, r \in Places : s[<<l, r>>] = Halved(G, s, <<l, r>>)
  BY <1>4, <1>5
<1>7. \A b \in Bounds : s[b] = Halved(G, s, b)
  BY <1>6, <1>a
<1>8. s = [b \in Bounds |-> Halved(G, s, b)]
  BY <1>7
<1> QED
  BY <1>8

\* What it finds, when a position of G has no other one before it: the end of
\* G below n.
LEMMA SearchFinds ==
  ASSUME NEW G, NEW n \in Places,
         \A j, k \in 0 .. n - 1 : j < k /\ k \in G => j \in G,
         NEW s, \A l, r \in Places : s[<<l, r>>] = Halved(G, s, <<l, r>>)
  PROVE  s[<<0, n>>] \in 0 .. n /\ \A k \in 0 .. n - 1 : k < s[<<0, n>>] <=> k \in G
<1> DEFINE Right(x) == x \in 0 .. n /\ \A k \in 0 .. n - 1 : k < x <=> k \in G
<1> DEFINE From(l, r) == /\ l \in 0 .. n /\ r \in 0 .. n /\ l <= r
                         /\ \A k \in 0 .. n - 1 : (k < l => k \in G) /\ (k >= r => k \notin G)
<1> DEFINE Fails == {m \in Nat : \E l, r \in 0 .. n : From(l, r) /\ r - l = m /\ ~Right(s[<<l, r>>])}
<1>0. n \in Nat /\ TableSize \in Nat /\ 0 .. n \subseteq Places /\ \A l \in 0 .. n : l \in Nat /\ l \in Places
  BY Sizes DEF Places
<1>1. Fails = {}
  <2> SUFFICES ASSUME Fails # {}
               PROVE  FALSE
    OBVIOUS
  <2>1. Fails \subseteq Nat
    OBVIOUS
  <2>2. PICK m \in Fails : \A j \in Fails : m <= j
    <3> HIDE DEF Fails
    <3> QED
      BY <2>1, LeastOf
  <2>3. PICK l \in 0 .. n, r \in 0 .. n : From(l, r) /\ r - l = m /\ ~Right(s[<<l, r>>])
    BY <2>2
  <2>4. m \in Nat /\ l <= r
    BY <2>1, <2>2, <2>3
  <2>5. l \in Places /\ r \in Places /\ l \in Nat /\ r \in Nat
    BY <1>0
  <2>6. s[<<l, r>>] = Halved(G, s, <<l, r>>)
    BY <2>5
  <2>7. ASSUME NEW u \in 0 .. n, NEW v \in 0 .. n, From(u, v), v - u < m
        PROVE  Right(s[<<u, v>>])
    <3>1. v - u \in Nat
      BY <1>0, <2>7
    <3>2. v - u \notin Fails
      <4> HIDE DEF Fails, Right, From
      <4> QED
        BY <2>2, <2>4, <2>7, <3>1
    <3> HIDE DEF Right, From
    <3> QED
      BY <2>7, <3>1, <3>2
  <2>8. CASE l = r
    <3>1. s[<<l, r>>] = l
      BY <2>5, <2>6, <2>8 DEF Halved
    <3>2. Right(l)
      BY <1>0, <2>3, <2>5, <2>8
    <3> QED
      BY <2>3, <3>1, <3>2
  <2>9. CASE l < r
    <3>0. PICK i : i = Middle(<<l, r>>)
      OBVIOUS
    <3>1. i \in Places /\ l <= i /\ i < r /\ i \in 0 .. n - 1 /\ i \in 0 .. n /\ i + 1 \in 0 .. n /\ i \in Nat
      <4>1. i \in Places /\ l <= i /\ i < r
        BY <2>5, <2>9, <3>0, MiddleBetween
      <4>2. r <= n
        BY <1>0
      <4> QED
        BY <1>0, <2>5, <4>1, <4>2
    <3>2. CASE i \in G
      <4>1. s[<<l, r>>] = s[<<i + 1, r>>]
        BY <2>5, <2>6, <2>9, <3>0, <3>2 DEF Halved
      <4>2. ASSUME NEW k \in 0 .. n - 1, k < i + 1
            PROVE  k \in G
        <5>1. k = i \/ k < i
          BY <3>1, <4>2
        <5> QED
          BY <3>1, <3>2, <5>1
      <4>3. From(i + 1, r)
        BY <2>3, <2>5, <3>1, <4>2
      <4>4. Right(s[<<i + 1, r>>])
        <5>1. r - (i + 1) < m
          BY <2>3, <2>5, <3>1
        <5> HIDE DEF Right, From
        <5> QED
          BY <2>7, <3>1, <4>3, <5>1
      <4> QED
        BY <2>3, <4>1, <4>4
    <3>3. CASE i \notin G
      <4>1. s[<<l, r>>] = s[<<l, i>>]
        BY <2>5, <2>6, <2>9, <3>0, <3>3 DEF Halved
      <4>2. ASSUME NEW k \in 0 .. n - 1, k >= i
            PROVE  k \notin G
        <5>1. k = i \/ i < k
          BY <3>1, <4>2
        <5> QED
          BY <3>1, <3>3, <5>1
      <4>3. From(l, i)
        BY <2>3, <2>5, <3>1, <4>2
      <4>4. Right(s[<<l, i>>])
        <5>1. i - l < m
          BY <2>3, <2>5, <3>1
        <5> HIDE DEF Right, From
        <5> QED
          BY <2>7, <3>1, <4>3, <5>1
      <4> QED
        BY <2>3, <4>1, <4>4
    <3> QED
      BY <3>2, <3>3
  <2> QED
    BY <2>4, <2>5, <2>8, <2>9
<1>2. From(0, n) /\ 0 \in 0 .. n /\ n \in 0 .. n /\ n - 0 = n
  BY <1>0
<1>3. Right(s[<<0, n>>])
  <2>1. n \notin Fails
    BY <1>1
  <2> HIDE DEF Right, From
  <2> QED
    BY <1>0, <1>2, <2>1
<1> QED
  BY <1>3

\* The addresses of the index are ascending.
Ascending(a) ==
    /\ a.n_sorted_elements \in Places
    /\ \A k \in 0 .. a.n_sorted_elements - 1 : ShortAt(a, k) \in Nat
    /\ \A j, k \in 0 .. a.n_sorted_elements - 1 : j < k => ShortAt(a, j) < ShortAt(a, k)

\* The search of short_search(): how many addresses are less.
LEMMA LowerBoundFinds ==
  ASSUME NEW a, Ascending(a), NEW x \in Nat
  PROVE  /\ LowerBound(a, x) \in 0 .. a.n_sorted_elements
         /\ \A k \in 0 .. a.n_sorted_elements - 1 : k < LowerBound(a, x) <=> x > ShortAt(a, k)
<1> DEFINE G == {k \in Places : x > ShortAt(a, k)}
<1> DEFINE Body(f, b) ==
             IF b[1] >= b[2] THEN b[1]
             ELSE IF x > ShortAt(a, Middle(b)) THEN f[<<Middle(b) + 1, b[2]>>] ELSE f[<<b[1], Middle(b)>>]
<1> DEFINE s == CHOOSE f : f = [b \in Bounds |-> Body(f, b)]
<1> DEFINE n == a.n_sorted_elements
<1>0. n \in Places /\ n \in Nat /\ \A k \in 0 .. n - 1 : k \in Places /\ k \in Nat
  BY Sizes DEF Ascending, Places
<1>1. LowerBound(a, x) = s[<<0, n>>]
  BY DEF LowerBound, Bounds, Places, Middle
<1>2. \A f : \A b \in Bounds : Body(f, b) = Halved(G, f, b)
  <2> TAKE f
  <2> TAKE b \in Bounds
  <2>1. b = <<b[1], b[2]>> /\ b[1] \in Places /\ b[2] \in Places /\ b[1] \in Nat /\ b[2] \in Nat
    BY Sizes DEF Bounds, Places
  <2>2. CASE b[1] >= b[2]
    BY <2>2 DEF Halved
  <2>3. CASE b[1] < b[2]
    <3>1. Middle(b) \in Places
      BY <2>1, <2>3, MiddleBetween
    <3>2. Middle(b) \in G <=> x > ShortAt(a, Middle(b))
      BY <3>1
    <3> HIDE DEF G
    <3> QED
      BY <3>2 DEF Halved
  <2> QED
    BY <2>1, <2>2, <2>3
<1>3. s = [b \in Bounds |-> Body(s, b)]
  <2>1. PICK f : f = [b \in Bounds |-> Halved(G, f, b)]
    BY SearchExists
  <2>2. f = [b \in Bounds |-> Body(f, b)]
    <3> HIDE DEF Body, G
    <3> QED
      BY <1>2, <2>1
  <2> HIDE DEF Body
  <2> QED
    BY <2>2
<1>4. \A l, r \in Places : s[<<l, r>>] = Halved(G, s, <<l, r>>)
  <2> HIDE DEF s
  <2>1. PICK f : f = s
    OBVIOUS
  <2>2. \A b \in Bounds : f[b] = Body(f, b)
    <3> HIDE DEF Body
    <3> QED
      BY <1>3, <2>1
  <2>3. \A b \in Bounds : f[b] = Halved(G, f, b)
    <3> HIDE DEF Body, G
    <3> QED
      BY <1>2, <2>2
  <2>4. \A l, r \in Places : <<l, r>> \in Bounds
    BY DEF Bounds
  <2> HIDE DEF Body, G
  <2> QED
    BY <2>1, <2>3, <2>4
<1>5. \A j, k \in 0 .. n - 1 : j < k /\ k \in G => j \in G
  BY <1>0 DEF Ascending
<1>6. s[<<0, n>>] \in 0 .. n /\ \A k \in 0 .. n - 1 : k < s[<<0, n>>] <=> k \in G
  <2> HIDE DEF s, G, n
  <2> QED
    BY <1>0, <1>4, <1>5, SearchFinds
<1>7. \A k \in 0 .. n - 1 : k \in G <=> x > ShortAt(a, k)
  BY <1>0
<1> HIDE DEF s, G
<1> QED
  BY <1>1, <1>6, <1>7

\* The search of add_short_sorted(): how many addresses are not more.
LEMMA UpperBoundFinds ==
  ASSUME NEW a, Ascending(a), NEW x \in Nat
  PROVE  /\ UpperBound(a, x) \in 0 .. a.n_sorted_elements
         /\ \A k \in 0 .. a.n_sorted_elements - 1 : k < UpperBound(a, x) <=> x >= ShortAt(a, k)
<1> DEFINE G == {k \in Places : x >= ShortAt(a, k)}
<1> DEFINE Body(f, b) ==
             IF b[1] >= b[2] THEN b[1]
             ELSE IF x >= ShortAt(a, Middle(b)) THEN f[<<Middle(b) + 1, b[2]>>] ELSE f[<<b[1], Middle(b)>>]
<1> DEFINE s == CHOOSE f : f = [b \in Bounds |-> Body(f, b)]
<1> DEFINE n == a.n_sorted_elements
<1>0. n \in Places /\ n \in Nat /\ \A k \in 0 .. n - 1 : k \in Places /\ k \in Nat
  BY Sizes DEF Ascending, Places
<1>1. UpperBound(a, x) = s[<<0, n>>]
  BY DEF UpperBound, Bounds, Places, Middle
<1>2. \A f : \A b \in Bounds : Body(f, b) = Halved(G, f, b)
  <2> TAKE f
  <2> TAKE b \in Bounds
  <2>1. b = <<b[1], b[2]>> /\ b[1] \in Places /\ b[2] \in Places /\ b[1] \in Nat /\ b[2] \in Nat
    BY Sizes DEF Bounds, Places
  <2>2. CASE b[1] >= b[2]
    BY <2>2 DEF Halved
  <2>3. CASE b[1] < b[2]
    <3>1. Middle(b) \in Places
      BY <2>1, <2>3, MiddleBetween
    <3>2. Middle(b) \in G <=> x >= ShortAt(a, Middle(b))
      BY <3>1
    <3> HIDE DEF G
    <3> QED
      BY <3>2 DEF Halved
  <2> QED
    BY <2>1, <2>2, <2>3
<1>3. s = [b \in Bounds |-> Body(s, b)]
  <2>1. PICK f : f = [b \in Bounds |-> Halved(G, f, b)]
    BY SearchExists
  <2>2. f = [b \in Bounds |-> Body(f, b)]
    <3> HIDE DEF Body, G
    <3> QED
      BY <1>2, <2>1
  <2> HIDE DEF Body
  <2> QED
    BY <2>2
<1>4. \A l, r \in Places : s[<<l, r>>] = Halved(G, s, <<l, r>>)
  <2> HIDE DEF s
  <2>1. PICK f : f = s
    OBVIOUS
  <2>2. \A b \in Bounds : f[b] = Body(f, b)
    <3> HIDE DEF Body
    <3> QED
      BY <1>3, <2>1
  <2>3. \A b \in Bounds : f[b] = Halved(G, f, b)
    <3> HIDE DEF Body, G
    <3> QED
      BY <1>2, <2>2
  <2>4. \A l, r \in Places : <<l, r>> \in Bounds
    BY DEF Bounds
  <2> HIDE DEF Body, G
  <2> QED
    BY <2>1, <2>3, <2>4
<1>5. \A j, k \in 0 .. n - 1 : j < k /\ k \in G => j \in G
  BY <1>0 DEF Ascending
<1>6. s[<<0, n>>] \in 0 .. n /\ \A k \in 0 .. n - 1 : k < s[<<0, n>>] <=> k \in G
  <2> HIDE DEF s, G, n
  <2> QED
    BY <1>0, <1>4, <1>5, SearchFinds
<1>7. \A k \in 0 .. n - 1 : k \in G <=> x >= ShortAt(a, k)
  BY <1>0
<1> HIDE DEF s, G
<1> QED
  BY <1>1, <1>6, <1>7

\* short_search() finds the entry of the index that has the address, if one has.
LEMMA ShortFinds ==
  ASSUME NEW a, Ascending(a), NEW x \in Nat
  PROVE  /\ short_search(a, x) = NoRef \/ \E k \in 0 .. a.n_sorted_elements - 1 :
                                             short_search(a, x) = a.short_sorted[k] /\ ShortAt(a, k) = x
         /\ \A k \in 0 .. a.n_sorted_elements - 1 : ShortAt(a, k) = x => short_search(a, x) = a.short_sorted[k]
<1> DEFINE n == a.n_sorted_elements
<1> DEFINE l == IF n > 1 THEN LowerBound(a, x) ELSE 0
<1>0. n \in Nat
  BY Sizes DEF Ascending, Places
<1>1. short_search(a, x) = IF l < n /\ ShortAt(a, l) = x THEN a.short_sorted[l] ELSE NoRef
  BY DEF short_search
<1>2. l \in 0 .. n
  BY <1>0, LowerBoundFinds
<1>3. ASSUME NEW k \in 0 .. n - 1, ShortAt(a, k) = x
      PROVE  l = k
  <2>1. CASE n > 1
    <3>1. /\ l \in 0 .. n
          /\ \A j \in 0 .. n - 1 : j < l <=> x > ShortAt(a, j)
      BY <2>1, LowerBoundFinds
    <3>2. ~(k < l)
      BY <1>3, <3>1
    <3>3. ASSUME l < k
          PROVE  FALSE
      <4>1. l \in 0 .. n - 1 /\ ~(l < l)
        BY <1>0, <3>1, <3>3
      <4>2. ~(x > ShortAt(a, l)) /\ ShortAt(a, l) \in Nat
        BY <3>1, <4>1 DEF Ascending
      <4>3. ShortAt(a, l) < ShortAt(a, k)
        BY <3>3, <4>1 DEF Ascending
      <4> QED
        BY <1>3, <4>2, <4>3
    <3> HIDE DEF l
    <3> QED
      BY <1>0, <3>1, <3>2, <3>3
  <2>2. CASE ~(n > 1)
    BY <1>0, <2>2
  <2> QED
    BY <2>1, <2>2
<1> HIDE DEF l
<1>4. CASE l < n /\ ShortAt(a, l) = x
  <2>1. l \in 0 .. n - 1
    BY <1>0, <1>2, <1>4
  <2>2. short_search(a, x) = a.short_sorted[l]
    BY <1>1, <1>4
  <2> QED
    BY <1>3, <1>4, <2>1, <2>2
<1>5. CASE ~(l < n /\ ShortAt(a, l) = x)
  <2>1. short_search(a, x) = NoRef
    BY <1>1, <1>5
  <2>2. \A k \in 0 .. n - 1 : ShortAt(a, k) # x
    BY <1>0, <1>3, <1>5
  <2> QED
    BY <2>1, <2>2
<1> QED
  BY <1>4, <1>5

-----------------------------------------------------------------------------
(* Deletions from the index.                                                *)

\* One step of the scan of del_short_sorted().
Scanned(n, ref, s, i) ==
    IF s.a.short_sorted[i - 1] # ref THEN s
    ELSE [a |-> IF i - 1 # n - 1 THEN MoveLeft(s.a, i - 1) ELSE s.a, dec |-> s.dec + 1]

ScannedFrom(a, n, ref, s, i) ==
    IF i = 0 THEN [a |-> a, dec |-> 0] ELSE Scanned(n, ref, s[i - 1], i)

\* The recursion of the scan has a solution.
LEMMA ScanExists ==
  ASSUME NEW a, NEW ref, NEW n \in Nat
  PROVE  \E s : s = [i \in 0 .. n |-> ScannedFrom(a, n, ref, s, i)]
<1> DEFINE Solves(s, m) == \A i \in 0 .. n : i <= m => s[i] = ScannedFrom(a, n, ref, s, i)
<1> DEFINE Fails == {m \in Nat : ~\E s : s = [i \in 0 .. n |-> s[i]] /\ Solves(s, m)}
<1>1. 0 \notin Fails
  <2> DEFINE s0 == [i \in 0 .. n |-> [a |-> a, dec |-> 0]]
  <2>1. s0 = [i \in 0 .. n |-> s0[i]]
    OBVIOUS
  <2>2. \A i \in 0 .. n : i <= 0 => s0[i] = ScannedFrom(a, n, ref, s0, i)
    BY DEF ScannedFrom
  <2> HIDE DEF s0
  <2> QED
    BY <2>1, <2>2
<1>2. ASSUME NEW m \in Nat, m \notin Fails
      PROVE  m + 1 \notin Fails
  <2>1. PICK s : s = [i \in 0 .. n |-> s[i]] /\ Solves(s, m)
    BY <1>2
  <2> DEFINE t == [i \in 0 .. n |-> IF i <= m THEN s[i] ELSE ScannedFrom(a, n, ref, s, i)]
  <2>2. \A i \in 0 .. n : t[i] = IF i <= m THEN s[i] ELSE ScannedFrom(a, n, ref, s, i)
    OBVIOUS
  <2>3. t = [i \in 0 .. n |-> t[i]]
    OBVIOUS
  <2> HIDE DEF t
  <2>4. ASSUME NEW i \in 0 .. n, i <= m + 1
        PROVE  t[i] = ScannedFrom(a, n, ref, t, i)
    <3>1. t[i] = ScannedFrom(a, n, ref, s, i)
      BY <2>1, <2>2
    <3>2. CASE i = 0
      BY <3>1, <3>2 DEF ScannedFrom
    <3>3. CASE i # 0
      <4>1. i - 1 \in 0 .. n /\ i - 1 <= m
        BY <2>4, <3>3
      <4>2. t[i - 1] = s[i - 1]
        BY <2>2, <4>1
      <4> QED
        BY <3>1, <3>3, <4>2 DEF ScannedFrom
    <3> QED
      BY <3>2, <3>3
  <2>5. Solves(t, m + 1)
    BY <2>4
  <2> QED
    BY <2>3, <2>5
<1>3. Fails = {}
  <2> SUFFICES ASSUME Fails # {}
               PROVE  FALSE
    OBVIOUS
  <2>1. Fails \subseteq Nat
    OBVIOUS
  <2> HIDE DEF Fails
  <2>2. PICK m \in Fails : \A k \in Fails : m <= k
    BY <2>1, LeastOf
  <2>3. m \in Nat /\ m # 0
    BY <1>1, <2>1, <2>2
  <2>4. m - 1 \in Nat /\ m - 1 \notin Fails /\ (m - 1) + 1 = m
    BY <2>2, <2>3
  <2> QED
    BY <1>2, <2>2, <2>4
<1>4. PICK s : s = [i \in 0 .. n |-> s[i]] /\ Solves(s, n)
  <2>1. n \notin Fails
    BY <1>3
  <2> QED
    BY <2>1
<1>5. \A i \in 0 .. n : s[i] = ScannedFrom(a, n, ref, s, i)
  BY <1>4
<1>6. s = [i \in 0 .. n |-> ScannedFrom(a, n, ref, s, i)]
  BY <1>4, <1>5
<1> QED
  BY <1>6

\* del_short_sorted() is the last step of such a scan.
IsScan(a, ref, s) ==
    LET n == a.n_sorted_elements IN
    /\ \A i \in 0 .. n : s[i] = ScannedFrom(a, n, ref, s, i)
    /\ del_short_sorted(a, ref) = [s[n].a EXCEPT !.n_sorted_elements = @ - s[n].dec]

\* The recursion of the scan is what its definition says, at every position.
LEMMA ScanOf ==
  ASSUME NEW a, NEW ref, a.n_sorted_elements \in Nat
  PROVE  \E s : IsScan(a, ref, s)
<1> DEFINE n == a.n_sorted_elements
<1> DEFINE s == CHOOSE f : f = [i \in 0 .. n |-> ScannedFrom(a, n, ref, f, i)]
<1>1. del_short_sorted(a, ref) = [s[n].a EXCEPT !.n_sorted_elements = @ - s[n].dec]
  BY DEF del_short_sorted, ScannedFrom, Scanned
<1>2. s = [i \in 0 .. n |-> ScannedFrom(a, n, ref, s, i)]
  BY ScanExists
<1> HIDE DEF s
<1>3. PICK f : f = s
  OBVIOUS
<1>4. \A i \in 0 .. n : f[i] = ScannedFrom(a, n, ref, f, i)
  BY <1>2, <1>3
<1>5. IsScan(a, ref, f)
  BY <1>1, <1>3, <1>4 DEF IsScan
<1> QED
  BY <1>5

\* An entry that the index does not list: nothing happens.
LEMMA DeletesNothing ==
  ASSUME NEW a \in Tables, NEW ref,
         \A k \in 0 .. a.n_sorted_elements - 1 : a.short_sorted[k] # ref
  PROVE  del_short_sorted(a, ref) = a
<1>0. a.n_sorted_elements \in Nat
  BY Sizes DEF Tables
<1> DEFINE n == a.n_sorted_elements
<1>a. PICK s : IsScan(a, ref, s)
  BY <1>0, ScanOf
<1>1. /\ \A i \in 0 .. n : s[i] = ScannedFrom(a, n, ref, s, i)
      /\ del_short_sorted(a, ref) = [s[n].a EXCEPT !.n_sorted_elements = @ - s[n].dec]
  BY <1>a DEF IsScan
<1> DEFINE Fails == {i \in 0 .. n : s[i] # [a |-> a, dec |-> 0]}
<1>2. Fails = {}
  <2> SUFFICES ASSUME Fails # {}
               PROVE  FALSE
    OBVIOUS
  <2>1. Fails \subseteq Nat
    BY <1>0
  <2>2. PICK i \in Fails : \A j \in Fails : i <= j
    <3> HIDE DEF Fails
    <3> QED
      BY <2>1, LeastOf
  <2>3. i \in 0 .. n /\ s[i] # [a |-> a, dec |-> 0]
    BY <2>2
  <2>4. i # 0
    BY <1>1, <2>3 DEF ScannedFrom
  <2>5. i - 1 \in 0 .. n - 1 /\ i - 1 \in 0 .. n /\ ~(i <= i - 1)
    BY <1>0, <2>3, <2>4
  <2>6. s[i - 1] = [a |-> a, dec |-> 0]
    BY <2>2, <2>5
  <2>7. s[i] = Scanned(n, ref, s[i - 1], i)
    BY <1>1, <2>3, <2>4 DEF ScannedFrom
  <2> QED
    BY <2>3, <2>5, <2>6, <2>7 DEF Scanned
<1>3. s[n] = [a |-> a, dec |-> 0]
  BY <1>0, <1>2
<1>4. del_short_sorted(a, ref) = [a EXCEPT !.n_sorted_elements = @ - 0]
  BY <1>1, <1>3
<1> QED
  BY <1>0, <1>4 DEF Tables

\* The byte behind the index is not taken for the entry at place p when that
\* is deleted: the entry is the last one, or the byte is another.
CleanAt(a, p) ==
    \/ p = a.n_sorted_elements - 1
    \/ SortedByte(a, a.n_sorted_elements) # a.short_sorted[p]

\* An entry that the index lists at place p: the places behind it move up, if
\* no second one is deleted.
LEMMA DeletesOne ==
  ASSUME NEW a \in Tables, Ascending(a), NEW p \in 0 .. a.n_sorted_elements - 1,
         NEW ref, ref = a.short_sorted[p],
         \/ del_short_sorted(a, ref).n_sorted_elements >= a.n_sorted_elements - 1
         \/ CleanAt(a, p)
  PROVE  /\ CleanAt(a, p)
         /\ del_short_sorted(a, ref) \in Tables
         /\ del_short_sorted(a, ref).addr_map = a.addr_map
         /\ del_short_sorted(a, ref).n_elements = a.n_elements
         /\ del_short_sorted(a, ref).n_sorted_elements = a.n_sorted_elements - 1
         /\ \A k \in 0 .. a.n_sorted_elements - 2 :
              del_short_sorted(a, ref).short_sorted[k] =
                IF k < p THEN a.short_sorted[k] ELSE a.short_sorted[k + 1]
<1> DEFINE n == a.n_sorted_elements
<1>0. /\ n \in Nat /\ n <= TableSize /\ p \in Nat /\ p < n /\ TableSize \in Nat
      /\ Refs = 0 .. TableSize - 1 /\ Refs \cup {NoRef} = 0 .. TableSize
      /\ a.short_sorted \in [Refs -> Refs \cup {NoRef}] /\ a.n_elements \in 0 .. TableSize
  BY Sizes DEF Tables, Refs, NoRef
<1>a. PICK s : IsScan(a, ref, s)
  BY <1>0, ScanOf
<1>1. /\ \A i \in 0 .. n : s[i] = ScannedFrom(a, n, ref, s, i)
      /\ del_short_sorted(a, ref) = [s[n].a EXCEPT !.n_sorted_elements = @ - s[n].dec]
  BY <1>a DEF IsScan
<1>2. \A k \in 0 .. n - 1 : k # p => a.short_sorted[k] # ref
  <2> SUFFICES ASSUME NEW k \in 0 .. n - 1, k # p, a.short_sorted[k] = a.short_sorted[p]
               PROVE  FALSE
    OBVIOUS
  <2>1. ShortAt(a, k) = ShortAt(a, p) /\ ShortAt(a, k) \in Nat
    BY DEF ShortAt, Ascending
  <2>2. k < p \/ p < k
    BY <1>0
  <2>3. ShortAt(a, k) < ShortAt(a, p) \/ ShortAt(a, p) < ShortAt(a, k)
    BY <2>2 DEF Ascending
  <2> QED
    BY <2>1, <2>3
<1> DEFINE M == MoveLeft(a, p)
<1>3. /\ M \in Tables /\ M.addr_map = a.addr_map /\ M.n_elements = a.n_elements
      /\ M.n_sorted_elements = n
      /\ \A k \in 0 .. n - 2 : M.short_sorted[k] = IF k < p THEN a.short_sorted[k] ELSE a.short_sorted[k + 1]
  <2> DEFINE ss == [k \in Refs |-> IF k \in p .. n - 1 THEN SortedByte(a, k + 1) ELSE a.short_sorted[k]]
  <2>1. M = [a EXCEPT !.short_sorted = ss]
    BY DEF MoveLeft
  <2>2. \A k \in Refs : SortedByte(a, k + 1) \in Refs \cup {NoRef}
    BY <1>0 DEF SortedByte
  <2>3. ss \in [Refs -> Refs \cup {NoRef}]
    BY <1>0, <2>2
  <2>4. \A k \in 0 .. n - 2 : ss[k] = IF k < p THEN a.short_sorted[k] ELSE a.short_sorted[k + 1]
    <3> TAKE k \in 0 .. n - 2
    <3>1. k \in Refs /\ k + 1 \in Refs /\ k \in Nat
      BY <1>0
    <3>2. SortedByte(a, k + 1) = a.short_sorted[k + 1]
      BY <3>1 DEF SortedByte
    <3>3. k < p <=> k \notin p .. n - 1
      BY <1>0, <3>1
    <3> QED
      BY <3>1, <3>2, <3>3
  <2> HIDE DEF ss, M
  <2> QED
    BY <2>1, <2>3, <2>4 DEF Tables
<1> HIDE DEF M
<1> DEFINE E == IF p # n - 1 THEN M ELSE a
<1> DEFINE Then(i) == IF i <= p THEN [a |-> a, dec |-> 0] ELSE [a |-> E, dec |-> 1]
<1> DEFINE Fails == {i \in 0 .. n : (i < n \/ p = n - 1) /\ s[i] # Then(i)}
<1>4. Fails = {}
  <2> SUFFICES ASSUME Fails # {}
               PROVE  FALSE
    OBVIOUS
  <2>1. Fails \subseteq Nat
    BY <1>0
  <2>2. PICK i \in Fails : \A j \in Fails : i <= j
    <3> HIDE DEF Fails
    <3> QED
      BY <2>1, LeastOf
  <2>3. i \in 0 .. n /\ (i < n \/ p = n - 1) /\ s[i] # Then(i)
    BY <2>2
  <2>4. i # 0
    <3>1. 0 <= p /\ 0 \in 0 .. n
      BY <1>0
    <3>2. s[0] = [a |-> a, dec |-> 0]
      BY <1>1, <3>1 DEF ScannedFrom
    <3> QED
      BY <2>3, <3>1, <3>2
  <2>5. i - 1 \in 0 .. n - 1 /\ i - 1 \in 0 .. n /\ ~(i <= i - 1) /\ i - 1 < n /\ i \in Nat
    BY <1>0, <2>3, <2>4
  <2>6. s[i - 1] = Then(i - 1)
    <3> HIDE DEF Then
    <3> QED
      BY <2>2, <2>5
  <2>7. s[i] = Scanned(n, ref, s[i - 1], i)
    BY <1>1, <2>3, <2>4 DEF ScannedFrom
  <2>8. CASE i <= p
    <3>1. i - 1 <= p /\ i - 1 # p
      BY <1>0, <2>5, <2>8
    <3>2. s[i - 1] = [a |-> a, dec |-> 0]
      BY <2>6, <3>1
    <3>3. a.short_sorted[i - 1] # ref
      BY <1>2, <2>5, <3>1
    <3> QED
      BY <2>3, <2>7, <2>8, <3>2, <3>3 DEF Scanned
  <2>9. CASE i = p + 1
    <3>1. i - 1 = p /\ ~(i <= p)
      BY <1>0, <2>9
    <3>2. s[i - 1] = [a |-> a, dec |-> 0]
      BY <1>0, <2>6, <3>1
    <3>3. s[i] = [a |-> IF p # n - 1 THEN MoveLeft(a, p) ELSE a, dec |-> 0 + 1]
      BY <2>7, <3>1, <3>2 DEF Scanned
    <3> QED
      BY <2>3, <3>1, <3>3 DEF M
  <2>10. CASE i > p + 1
    <3>1. p # n - 1 /\ i - 1 > p /\ i - 1 \in 0 .. n - 2 /\ ~(i - 1 < p) /\ ~(i <= p) /\ ~(i - 1 <= p)
          /\ (i - 1) + 1 = i /\ i \in 0 .. n - 1 /\ i # p
      BY <1>0, <2>3, <2>5, <2>10
    <3>2. s[i - 1] = [a |-> M, dec |-> 1]
      BY <2>6, <3>1
    <3>3. M.short_sorted[i - 1] = a.short_sorted[i]
      BY <1>3, <3>1
    <3>4. M.short_sorted[i - 1] # ref
      BY <1>2, <3>1, <3>3
    <3>5. s[i] = s[i - 1]
      BY <2>7, <3>2, <3>4 DEF Scanned
    <3> QED
      BY <2>3, <3>1, <3>2, <3>5
  <2> QED
    BY <1>0, <2>5, <2>8, <2>9, <2>10
<1>5. s[n] = [a |-> E, dec |-> 1] /\ CleanAt(a, p)
  <2>1. CASE p = n - 1
    <3>1. n \in 0 .. n /\ ~(n <= p)
      BY <1>0
    <3>2. s[n] = Then(n)
      <4> HIDE DEF Then
      <4> QED
        BY <1>4, <2>1, <3>1
    <3> QED
      BY <2>1, <3>1, <3>2 DEF CleanAt
  <2>2. CASE p # n - 1
    <3>1. n - 1 \in 0 .. n /\ n - 1 < n /\ ~(n - 1 <= p) /\ n # 0 /\ n \in 0 .. n
      BY <1>0, <2>2
    <3>2. s[n - 1] = Then(n - 1)
      <4> HIDE DEF Then
      <4> QED
        BY <1>4, <3>1
    <3>3. s[n - 1] = [a |-> M, dec |-> 1]
      BY <2>2, <3>1, <3>2
    <3>4. s[n] = Scanned(n, ref, s[n - 1], n)
      BY <1>1, <3>1 DEF ScannedFrom
    <3>a. M.short_sorted[n - 1] = SortedByte(a, n)
      <4>1. n - 1 \in Refs /\ n - 1 \in p .. n - 1 /\ (n - 1) + 1 = n
        BY <1>0
      <4> QED
        BY <4>1 DEF M, MoveLeft, Tables
    <3>5. CASE M.short_sorted[n - 1] = ref
      <4>1. s[n] = [a |-> M, dec |-> 1 + 1]
        BY <3>3, <3>4, <3>5 DEF Scanned
      <4>2. del_short_sorted(a, ref) = [M EXCEPT !.n_sorted_elements = @ - 2]
        BY <1>1, <4>1
      <4>3. del_short_sorted(a, ref).n_sorted_elements = n - 2
        BY <1>3, <4>2 DEF Tables
      <4>4. ~CleanAt(a, p)
        BY <2>2, <3>a, <3>5 DEF CleanAt
      <4> QED
        BY <1>0, <4>3, <4>4
    <3>6. CASE M.short_sorted[n - 1] # ref
      BY <2>2, <3>3, <3>4, <3>6, <3>a DEF Scanned, CleanAt
    <3> QED
      BY <3>5, <3>6
  <2> QED
    BY <2>1, <2>2
<1>6. /\ E \in Tables /\ E.addr_map = a.addr_map /\ E.n_elements = a.n_elements /\ E.n_sorted_elements = n
      /\ \A k \in 0 .. n - 2 : E.short_sorted[k] = IF k < p THEN a.short_sorted[k] ELSE a.short_sorted[k + 1]
  <2>1. CASE p = n - 1
    <3>1. \A k \in 0 .. n - 2 : k < p
      BY <1>0, <2>1
    <3> QED
      BY <2>1, <3>1
  <2>2. CASE p # n - 1
    BY <1>3, <2>2
  <2> QED
    BY <2>1, <2>2
<1> HIDE DEF E
<1>7. del_short_sorted(a, ref) = [E EXCEPT !.n_sorted_elements = n - 1]
  BY <1>1, <1>5, <1>6
<1>8. n - 1 \in 0 .. TableSize
  BY <1>0
<1> QED
  BY <1>5, <1>6, <1>7, <1>8 DEF Tables

-----------------------------------------------------------------------------
(* The index as a set.                                                      *)

\* The parts of a table.
LEMMA TableParts ==
  ASSUME NEW a \in Tables
  PROVE  /\ a.addr_map \in [Refs -> Entry] /\ a.short_sorted \in [Refs -> Refs \cup {NoRef}]
         /\ a.n_sorted_elements \in Nat /\ a.n_sorted_elements <= TableSize
         /\ a.n_sorted_elements \in Places
         /\ a.n_elements \in 0 .. TableSize
         /\ \A k \in 0 .. a.n_sorted_elements - 1 : k \in Refs
<1>1. TableSize \in Nat /\ Places = 0 .. TableSize /\ Refs = 0 .. TableSize - 1
  BY Sizes DEF Places, Refs
<1> QED
  BY <1>1 DEF Tables

\* An index of entries that have short addresses is ascending.
LEMMA IndexAscends ==
  ASSUME NEW a \in Tables, NEW S \in SUBSET Refs, Indexed(a, S),
         \A r \in S : ShortOf(a, r) \in Shorts
  PROVE  Ascending(a)
<1>1. \A k \in 0 .. a.n_sorted_elements - 1 : ShortAt(a, k) \in Nat
  BY AddrAssumption DEF Indexed, ShortAt, ShortOf
<1> QED
  BY <1>1, TableParts DEF Ascending, Indexed

\* It has as many places as there are entries in S: a place is free while an
\* entry of the table is not in S.
LEMMA IndexFits ==
  ASSUME NEW a \in Tables, NEW S \in SUBSET Refs, Indexed(a, S),
         \A r \in S : ShortOf(a, r) \in Shorts, NEW ref \in Refs, ref \notin S
  PROVE  a.n_sorted_elements < TableSize
<1> DEFINE n == a.n_sorted_elements
<1> DEFINE f == [k \in 0 .. n - 1 |-> a.short_sorted[k]]
<1>0. n \in Nat
  BY TableParts
<1>1. \A k \in 0 .. n - 1 : f[k] \in Refs \ {ref}
  BY DEF Indexed
<1>2. \A j, k \in 0 .. n - 1 : f[j] = f[k] => j = k
  <2> SUFFICES ASSUME NEW j \in 0 .. n - 1, NEW k \in 0 .. n - 1, f[j] = f[k]
               PROVE  j = k
    OBVIOUS
  <2>1. ShortAt(a, j) = ShortAt(a, k) /\ ShortAt(a, j) \in Nat
    BY IndexAscends DEF ShortAt, Ascending
  <2>2. ~(ShortAt(a, j) < ShortAt(a, k)) /\ ~(ShortAt(a, k) < ShortAt(a, j))
    BY <2>1
  <2>3. ~(j < k) /\ ~(k < j)
    BY <2>2 DEF Indexed
  <2> QED
    BY <1>0, <2>3
<1>3. f \in Injection(0 .. n - 1, Refs \ {ref})
  <2>1. f \in [0 .. n - 1 -> Refs \ {ref}]
    BY <1>1
  <2> HIDE DEF f
  <2> QED
    BY <1>2, <2>1 DEF Injection, IsInjective
<1>4. IsFiniteSet(Refs \ {ref}) /\ Cardinality(Refs \ {ref}) = TableSize - 1
  BY Sizes, FS_RemoveElement
<1>5. Cardinality(0 .. n - 1) = n
  <2>1. 0 \in Int /\ n - 1 \in Int /\ (IF 0 > n - 1 THEN 0 ELSE n - 1 - 0 + 1) = n
    BY <1>0
  <2> QED
    BY <2>1, FS_Interval
<1>6. Cardinality(0 .. n - 1) <= Cardinality(Refs \ {ref})
  <2> HIDE DEF f
  <2> QED
    BY <1>3, <1>4, FS_Injection
<1> QED
  BY <1>0, <1>4, <1>5, <1>6, Sizes

\* Only the addresses of the entries in S and the index itself matter.
LEMMA IndexKept ==
  ASSUME NEW a, NEW b, NEW S, Indexed(a, S),
         b.n_sorted_elements = a.n_sorted_elements, b.short_sorted = a.short_sorted,
         \A r \in S : ShortOf(b, r) = ShortOf(a, r)
  PROVE  Indexed(b, S)
<1>1. \A k \in 0 .. a.n_sorted_elements - 1 : ShortAt(b, k) = ShortAt(a, k)
  BY DEF Indexed, ShortAt, ShortOf
<1> QED
  BY <1>1 DEF Indexed

\* No second entry is taken from the index with ref.
Clean(a, ref) ==
    \A p \in 0 .. a.n_sorted_elements - 1 : a.short_sorted[p] = ref => CleanAt(a, p)

\* del_short_sorted() takes one entry from the index.
LEMMA Unindexed ==
  ASSUME ~DoubleHits, NEW a \in Tables, NEW S \in SUBSET Refs, Indexed(a, S),
         \A r \in S : ShortOf(a, r) \in Shorts, NEW ref, SingleHit(a, ref) \/ Clean(a, ref)
  PROVE  /\ Clean(a, ref)
         /\ del_short_sorted(a, ref) \in Tables
         /\ del_short_sorted(a, ref).addr_map = a.addr_map
         /\ del_short_sorted(a, ref).n_elements = a.n_elements
         /\ Indexed(del_short_sorted(a, ref), S \ {ref})
<1> DEFINE n == a.n_sorted_elements
<1>0. n \in Nat
  BY TableParts
<1>1. Ascending(a)
  BY IndexAscends
<1>2. CASE ref \notin S
  <2>1. \A k \in 0 .. n - 1 : a.short_sorted[k] # ref
    BY <1>2 DEF Indexed
  <2>2. del_short_sorted(a, ref) = a /\ S \ {ref} = S
    BY <1>2, <2>1, DeletesNothing
  <2> QED
    BY <2>1, <2>2 DEF Clean
<1>3. CASE ref \in S
  <2>1. PICK p \in 0 .. n - 1 : a.short_sorted[p] = ref
    BY <1>3 DEF Indexed
  <2>2. PICK d : d = del_short_sorted(a, ref)
    OBVIOUS
  <2>3. d.n_sorted_elements >= n - 1 \/ CleanAt(a, p)
    BY <2>1, <2>2 DEF SingleHit, Clean
  <2>4. /\ CleanAt(a, p)
        /\ d \in Tables /\ d.addr_map = a.addr_map /\ d.n_elements = a.n_elements
        /\ d.n_sorted_elements = n - 1
        /\ \A k \in 0 .. n - 2 :
             d.short_sorted[k] = IF k < p THEN a.short_sorted[k] ELSE a.short_sorted[k + 1]
    BY <1>1, <2>1, <2>2, <2>3, DeletesOne
  <2> DEFINE At(k) == IF k < p THEN k ELSE k + 1
  <2>5. \A k \in 0 .. n - 2 : /\ At(k) \in 0 .. n - 1 /\ At(k) # p
                              /\ d.short_sorted[k] = a.short_sorted[At(k)]
                              /\ ShortAt(d, k) = ShortAt(a, At(k))
    <3> TAKE k \in 0 .. n - 2
    <3>1. At(k) \in 0 .. n - 1 /\ At(k) # p
      BY <1>0
    <3>2. d.short_sorted[k] = a.short_sorted[At(k)]
      BY <2>4
    <3> HIDE DEF At
    <3> QED
      BY <2>4, <3>1, <3>2 DEF ShortAt
  <2>6. \A j, k \in 0 .. n - 2 : j < k => At(j) < At(k)
    BY <1>0
  <2>7. \A k \in 0 .. n - 1 : k # p => \E j \in 0 .. n - 2 : At(j) = k
    <3> SUFFICES ASSUME NEW k \in 0 .. n - 1, k # p
                 PROVE  \E j \in 0 .. n - 2 : At(j) = k
      OBVIOUS
    <3>1. CASE k < p
      <4>1. k \in 0 .. n - 2 /\ At(k) = k
        BY <1>0, <3>1
      <4> QED
        BY <4>1
    <3>2. CASE k > p
      <4>1. k - 1 \in 0 .. n - 2 /\ At(k - 1) = k
        BY <1>0, <3>2
      <4> QED
        BY <4>1
    <3> QED
      BY <1>0, <3>1, <3>2
  <2>8. \A k \in 0 .. n - 1 : k # p => a.short_sorted[k] # ref
    <3> SUFFICES ASSUME NEW k \in 0 .. n - 1, k # p, a.short_sorted[k] = ref
                 PROVE  FALSE
      OBVIOUS
    <3>1. ShortAt(a, k) = ShortAt(a, p) /\ ShortAt(a, k) \in Nat
      BY <1>1, <2>1 DEF ShortAt, Ascending
    <3>2. k < p \/ p < k
      BY <1>0
    <3>3. ShortAt(a, k) < ShortAt(a, p) \/ ShortAt(a, p) < ShortAt(a, k)
      BY <1>1, <3>2 DEF Ascending
    <3> QED
      BY <3>1, <3>3
  <2> HIDE DEF At
  <2>9. Indexed(d, S \ {ref})
    <3>1. d.n_sorted_elements - 1 = n - 2
      BY <1>0, <2>4
    <3>2. \A k \in 0 .. n - 2 : d.short_sorted[k] \in S \ {ref}
      BY <2>5, <2>8 DEF Indexed
    <3>3. \A r \in S \ {ref} : \E k \in 0 .. n - 2 : d.short_sorted[k] = r
      <4> TAKE r \in S \ {ref}
      <4>1. PICK k \in 0 .. n - 1 : a.short_sorted[k] = r
        BY DEF Indexed
      <4>2. k # p
        BY <2>1, <4>1
      <4> QED
        BY <2>5, <2>7, <4>1, <4>2
    <3>4. \A j, k \in 0 .. n - 2 : j < k => ShortAt(d, j) < ShortAt(d, k)
      BY <2>5, <2>6 DEF Indexed
    <3> QED
      BY <3>1, <3>2, <3>3, <3>4 DEF Indexed
  <2>10. Clean(a, ref)
    BY <2>1, <2>4, <2>8 DEF Clean
  <2> QED
    BY <2>2, <2>4, <2>9, <2>10
<1> QED
  BY <1>2, <1>3

\* add_short_sorted() finds the place of an address that the index has not.
PlaceFor(a, short_addr) ==
    LET n == a.n_sorted_elements
        b == IF n > 1 THEN UpperBound(a, short_addr) ELSE 0
    IN IF b < n /\ short_addr > ShortAt(a, b) THEN b + 1 ELSE b

\* It is the position where the new address belongs.
LEMMA PlaceFound ==
  ASSUME NEW a, Ascending(a), NEW x \in Nat,
         \A k \in 0 .. a.n_sorted_elements - 1 : ShortAt(a, k) # x
  PROVE  /\ PlaceFor(a, x) \in 0 .. a.n_sorted_elements
         /\ \A k \in 0 .. a.n_sorted_elements - 1 : k < PlaceFor(a, x) <=> ShortAt(a, k) < x
<1> DEFINE n == a.n_sorted_elements
<1> DEFINE b == IF n > 1 THEN UpperBound(a, x) ELSE 0
<1>0. n \in Nat /\ \A k \in 0 .. n - 1 : ShortAt(a, k) \in Nat
  BY Sizes DEF Ascending, Places
<1>1. PlaceFor(a, x) = IF b < n /\ x > ShortAt(a, b) THEN b + 1 ELSE b
  BY DEF PlaceFor
<1>2. CASE n > 1
  <2>1. b \in 0 .. n /\ \A k \in 0 .. n - 1 : k < b <=> x >= ShortAt(a, k)
    BY <1>2, UpperBoundFinds
  <2> HIDE DEF b
  <2>2. \A k \in 0 .. n - 1 : k < b <=> ShortAt(a, k) < x
    BY <1>0, <2>1
  <2>3. b < n => b \in 0 .. n - 1 /\ ~(b < b)
    BY <1>0, <2>1
  <2>4. ~(b < n /\ x > ShortAt(a, b))
    BY <1>0, <2>2, <2>3
  <2> QED
    BY <1>1, <2>1, <2>2, <2>4
<1>3. CASE n = 1
  <2>1. b = 0 /\ 0 \in 0 .. n - 1 /\ b < n /\ \A k \in 0 .. n - 1 : k = 0
    BY <1>3
  <2>2. ShortAt(a, 0) \in Nat /\ ShortAt(a, 0) # x
    BY <1>0, <2>1
  <2> HIDE DEF b
  <2>3. CASE x > ShortAt(a, 0)
    <3>1. PlaceFor(a, x) = 1
      BY <1>1, <2>1, <2>3
    <3> QED
      BY <1>3, <2>1, <2>2, <2>3, <3>1
  <2>4. CASE ~(x > ShortAt(a, 0))
    <3>1. PlaceFor(a, x) = 0
      BY <1>1, <2>1, <2>4
    <3> QED
      BY <1>3, <2>1, <2>2, <2>4, <3>1
  <2> QED
    BY <2>3, <2>4
<1>4. CASE n = 0
  <2>1. b = 0 /\ ~(b < n) /\ 0 .. n - 1 = {}
    BY <1>4
  <2> QED
    BY <1>0, <1>1, <2>1
<1> QED
  BY <1>0, <1>2, <1>3, <1>4

\* add_short_sorted() puts one entry into the index.
LEMMA IndexedMore ==
  ASSUME NEW a \in Tables, NEW S \in SUBSET Refs, Indexed(a, S),
         \A r \in S : ShortOf(a, r) \in Shorts,
         NEW ref \in Refs, ref \notin S, NEW x \in Shorts, ShortOf(a, ref) = x,
         \A r \in S : ShortOf(a, r) # x
  PROVE  /\ add_short_sorted(a, ref, x) \in Tables
         /\ add_short_sorted(a, ref, x).addr_map = a.addr_map
         /\ add_short_sorted(a, ref, x).n_elements = a.n_elements
         /\ Indexed(add_short_sorted(a, ref, x), S \cup {ref})
<1> DEFINE n == a.n_sorted_elements
<1>0. n \in Nat /\ n < TableSize /\ TableSize \in Nat /\ Refs = 0 .. TableSize - 1
  BY TableParts, IndexFits, Sizes DEF Refs
<1>1. Ascending(a) /\ x \in Nat
  BY IndexAscends, AddrAssumption
<1>2. \A k \in 0 .. n - 1 : ShortAt(a, k) # x /\ ShortAt(a, k) \in Nat
  BY <1>1 DEF Indexed, ShortAt, ShortOf, Ascending
<1>3. PICK l : l = PlaceFor(a, x)
  OBVIOUS
<1>4. l \in 0 .. n /\ \A k \in 0 .. n - 1 : k < l <=> ShortAt(a, k) < x
  BY <1>1, <1>2, <1>3, PlaceFound
<1> DEFINE ss == [p \in Refs |-> IF p = l THEN ref
                                 ELSE IF p \in l + 1 .. n THEN a.short_sorted[p - 1] ELSE a.short_sorted[p]]
<1>5. PICK d : d = add_short_sorted(a, ref, x)
  OBVIOUS
<1>6. d = [a EXCEPT !.short_sorted = ss, !.n_sorted_elements = n + 1]
  BY <1>3, <1>5 DEF add_short_sorted, PlaceFor
<1>7. ss \in [Refs -> Refs \cup {NoRef}]
  <2>1. \A p \in Refs : p \in l + 1 .. n => p - 1 \in Refs
    BY <1>0, <1>4
  <2> QED
    BY <2>1, TableParts
<1> DEFINE From(p) == IF p < l THEN p ELSE p - 1
<1>8. /\ ss[l] = ref
      /\ \A p \in 0 .. n : p # l => From(p) \in 0 .. n - 1 /\ ss[p] = a.short_sorted[From(p)]
  <2>1. l \in Refs
    BY <1>0, <1>4
  <2>2. ASSUME NEW p \in 0 .. n, p # l
        PROVE  From(p) \in 0 .. n - 1 /\ ss[p] = a.short_sorted[From(p)]
    <3>1. p \in Refs /\ From(p) \in 0 .. n - 1
      BY <1>0, <1>4, <2>2
    <3>2. p < l <=> p \notin l + 1 .. n
      BY <1>0, <1>4, <2>2
    <3> QED
      BY <2>2, <3>1, <3>2
  <2> QED
    BY <2>1, <2>2
<1> HIDE DEF ss
<1>9. /\ d \in Tables /\ d.addr_map = a.addr_map /\ d.n_elements = a.n_elements
      /\ d.n_sorted_elements = n + 1 /\ d.short_sorted = ss
  <2>1. n + 1 \in 0 .. TableSize
    BY <1>0
  <2> QED
    BY <1>6, <1>7, <2>1 DEF Tables
<1>10. /\ ShortAt(d, l) = x
       /\ \A p \in 0 .. n : p # l => ShortAt(d, p) = ShortAt(a, From(p))
  <2> HIDE DEF From
  <2> QED
    BY <1>8, <1>9 DEF ShortAt, ShortOf
<1>11. \A p \in 0 .. n : p # l => (p < l <=> From(p) < l) /\ \A q \in 0 .. n : q # l /\ p < q => From(p) < From(q)
  BY <1>0, <1>4
<1>12. \A k \in 0 .. n - 1 : \E p \in 0 .. n : p # l /\ From(p) = k
  <2> SUFFICES ASSUME NEW k \in 0 .. n - 1
               PROVE  \E p \in 0 .. n : p # l /\ From(p) = k
    OBVIOUS
  <2>1. CASE k < l
    <3>1. k \in 0 .. n /\ k # l /\ From(k) = k
      BY <1>0, <1>4, <2>1
    <3> QED
      BY <3>1
  <2>2. CASE k >= l
    <3>1. k + 1 \in 0 .. n /\ k + 1 # l /\ From(k + 1) = k
      BY <1>0, <1>4, <2>2
    <3> QED
      BY <3>1
  <2> QED
    BY <1>0, <1>4, <2>1, <2>2
<1> HIDE DEF From
<1>13. Indexed(d, S \cup {ref})
  <2>0. d.n_sorted_elements - 1 = n /\ l \in 0 .. n
    BY <1>0, <1>4, <1>9
  <2>1. \A p \in 0 .. n : d.short_sorted[p] \in S \cup {ref}
    BY <1>8, <1>9 DEF Indexed
  <2>2. \A r \in S \cup {ref} : \E p \in 0 .. n : d.short_sorted[p] = r
    <3> TAKE r \in S \cup {ref}
    <3>1. CASE r = ref
      BY <1>8, <1>9, <2>0, <3>1
    <3>2. CASE r \in S
      <4>1. PICK k \in 0 .. n - 1 : a.short_sorted[k] = r
        BY <3>2 DEF Indexed
      <4>2. PICK p \in 0 .. n : p # l /\ From(p) = k
        BY <1>12
      <4> QED
        BY <1>8, <1>9, <4>1, <4>2
    <3> QED
      BY <3>1, <3>2
  <2>3. ASSUME NEW p \in 0 .. n, NEW q \in 0 .. n, p < q
        PROVE  ShortAt(d, p) < ShortAt(d, q)
    <3>1. CASE p = l
      <4>1. q # l /\ ~(q < l)
        BY <1>4, <2>3, <3>1
      <4>2. From(q) \in 0 .. n - 1 /\ ~(From(q) < l) /\ ShortAt(d, q) = ShortAt(a, From(q))
        BY <1>8, <1>10, <1>11, <4>1
      <4>3. ~(ShortAt(a, From(q)) < x) /\ ShortAt(a, From(q)) # x /\ ShortAt(a, From(q)) \in Nat
        BY <1>2, <1>4, <4>2
      <4> QED
        BY <1>1, <1>10, <3>1, <4>2, <4>3
    <3>2. CASE q = l
      <4>1. p # l /\ p < l
        BY <1>4, <2>3, <3>2
      <4>2. From(p) \in 0 .. n - 1 /\ From(p) < l /\ ShortAt(d, p) = ShortAt(a, From(p))
        BY <1>8, <1>10, <1>11, <4>1
      <4> QED
        BY <1>4, <1>10, <3>2, <4>2
    <3>3. CASE p # l /\ q # l
      <4>1. From(p) \in 0 .. n - 1 /\ From(q) \in 0 .. n - 1 /\ From(p) < From(q)
        BY <1>8, <1>11, <2>3, <3>3
      <4>2. ShortAt(a, From(p)) < ShortAt(a, From(q))
        BY <1>1, <4>1 DEF Ascending
      <4> QED
        BY <1>10, <3>3, <4>2
    <3> QED
      BY <3>1, <3>2, <3>3
  <2> QED
    BY <2>0, <2>1, <2>2, <2>3 DEF Indexed
<1> QED
  BY <1>5, <1>9, <1>13

-----------------------------------------------------------------------------
(* The operations on the table.                                             *)

\* Table t is table a but for entry r, which is in use or not and has the given
\* addresses.
Becomes(a, t, r, in_use, ieee, short_addr) ==
    /\ \A q \in Refs \ {r} : t.addr_map[q] = a.addr_map[q]
    /\ t.addr_map[r].used = in_use
    /\ IeeeOf(t, r) = ieee /\ ShortOf(t, r) = short_addr

\* No entry but r has one of the two addresses.
Unique(a, r, ieee, short_addr) ==
    \A q \in UsedOf(a) \ {r} : /\ ieee # NoIeee => IeeeOf(a, q) # ieee
                               /\ short_addr # NoShort => ShortOf(a, q) # short_addr

\* The fields of an entry.
LEMMA EntryParts ==
  ASSUME NEW a \in Tables, NEW r \in Refs
  PROVE  /\ a.addr_map[r] \in Entry /\ a.addr_map[r].used \in BOOLEAN
         /\ IeeeOf(a, r) \in Ieees \cup {NoIeee} /\ ShortOf(a, r) \in Shorts \cup {NoShort, 0}
         /\ a.addr_map[r].lock_cnt \in 0 .. LockSize - 1
<1>1. a.addr_map[r] \in Entry
  BY TableParts
<1> QED
  BY <1>1 DEF Entry, IeeeOf, ShortOf

\* The entries of the index have short addresses.
LEMMA KnownShort ==
  ASSUME NEW a, Distinct(a)
  PROVE  /\ Known(a) \subseteq UsedOf(a) /\ UsedOf(a) \in SUBSET Refs /\ Known(a) \in SUBSET Refs
         /\ \A r \in Known(a) : ShortOf(a, r) \in Shorts
BY DEF Distinct, Known, UsedOf

\* Table t has the used entries of table a and r, with distinct addresses.
Joined(a, t, r, s) ==
    /\ Distinct(t) /\ UsedOf(t) = UsedOf(a) \cup {r}
    /\ Known(t) = IF s # NoShort THEN Known(a) \cup {r} ELSE Known(a) \ {r}
    /\ \A q \in UsedOf(a) \ {r} : IeeeOf(t, q) = IeeeOf(a, q) /\ ShortOf(t, q) = ShortOf(a, q)

\* Distinct addresses stay distinct.
LEMMA StaysDistinct ==
  ASSUME NEW a, NEW t, Distinct(a), NEW r \in Refs, NEW i, NEW s \in Shorts \cup {NoShort},
         i # NoIeee \/ s # NoShort, Unique(a, r, i, s),
         Becomes(a, t, r, TRUE, i, s)
  PROVE  Joined(a, t, r, s)
<1>1. \A q \in Refs \ {r} : /\ IeeeOf(t, q) = IeeeOf(a, q) /\ ShortOf(t, q) = ShortOf(a, q)
                            /\ t.addr_map[q].used = a.addr_map[q].used
  BY DEF Becomes, IeeeOf, ShortOf
<1>2. t.addr_map[r].used /\ IeeeOf(t, r) = i /\ ShortOf(t, r) = s
  BY DEF Becomes
<1>3. UsedOf(t) = UsedOf(a) \cup {r}
  BY <1>1, <1>2, Zenon DEF UsedOf
<1>4. Known(t) = IF s # NoShort THEN Known(a) \cup {r} ELSE Known(a) \ {r}
  <2>1. \A q \in Refs \ {r} : q \in Known(t) <=> q \in Known(a)
    BY <1>1, <1>3 DEF Known, UsedOf
  <2>2. r \in Known(t) <=> s # NoShort
    BY <1>2, <1>3 DEF Known
  <2>3. Known(t) \subseteq Refs /\ Known(a) \subseteq Refs
    BY DEF Known, UsedOf
  <2> QED
    BY <2>1, <2>2, <2>3
<1>5. \A q \in UsedOf(a) \ {r} : q \in Refs \ {r}
  BY DEF UsedOf
<1>6. Distinct(t)
  <2>1. ASSUME NEW q \in UsedOf(t)
        PROVE  /\ ShortOf(t, q) \in Shorts \cup {NoShort}
               /\ ShortOf(t, q) # NoShort \/ IeeeOf(t, q) # NoIeee
    BY <1>1, <1>2, <1>3, <1>5 DEF Distinct
  <2>2. ASSUME NEW q \in UsedOf(t), NEW p \in UsedOf(t), q # p
        PROVE  /\ ShortOf(t, q) = ShortOf(t, p) => ShortOf(t, q) = NoShort
               /\ IeeeOf(t, q) = IeeeOf(t, p) => IeeeOf(t, q) = NoIeee
    <3>1. CASE q = r
      BY <1>1, <1>2, <1>3, <1>5, <2>2, <3>1 DEF Unique
    <3>2. CASE p = r
      BY <1>1, <1>2, <1>3, <1>5, <2>2, <3>2 DEF Unique
    <3>3. CASE q # r /\ p # r
      BY <1>1, <1>3, <1>5, <2>2, <3>3 DEF Distinct
    <3> QED
      BY <3>1, <3>2, <3>3
  <2> QED
    BY <2>1, <2>2 DEF Distinct
<1> QED
  BY <1>1, <1>3, <1>4, <1>5, <1>6 DEF Joined

\* A number of used entries, and one more or less.
LEMMA Counted ==
  ASSUME NEW a
  PROVE  /\ Cardinality(UsedOf(a)) \in 0 .. TableSize
         /\ \A r \in Refs \ UsedOf(a) : Cardinality(UsedOf(a) \cup {r}) = Cardinality(UsedOf(a)) + 1
         /\ \A r \in Refs \ UsedOf(a) : Cardinality(UsedOf(a)) + 1 \in 0 .. TableSize
         /\ \A r \in UsedOf(a) : /\ Cardinality(UsedOf(a) \ {r}) = Cardinality(UsedOf(a)) - 1
                                 /\ Cardinality(UsedOf(a)) - 1 \in 0 .. TableSize
<1>0. UsedOf(a) \in SUBSET Refs
  BY DEF UsedOf
<1>1. \A S \in SUBSET Refs : IsFiniteSet(S) /\ Cardinality(S) \in Nat /\ Cardinality(S) <= TableSize
  BY Sizes, FS_Subset, FS_CardinalityType
<1>2. IsFiniteSet(UsedOf(a)) /\ Cardinality(UsedOf(a)) \in 0 .. TableSize
  BY <1>0, <1>1, Sizes
<1>3. \A r \in Refs \ UsedOf(a) : Cardinality(UsedOf(a) \cup {r}) = Cardinality(UsedOf(a)) + 1
  BY <1>2, FS_AddElement
<1>4. \A r \in Refs \ UsedOf(a) : Cardinality(UsedOf(a)) + 1 \in 0 .. TableSize
  <2> TAKE r \in Refs \ UsedOf(a)
  <2>1. UsedOf(a) \cup {r} \in SUBSET Refs
    BY <1>0
  <2>2. Cardinality(UsedOf(a) \cup {r}) \in Nat /\ Cardinality(UsedOf(a) \cup {r}) <= TableSize
    BY <1>1, <2>1
  <2> QED
    BY <1>3, <2>2, Sizes
<1>5. \A r \in UsedOf(a) : Cardinality(UsedOf(a) \ {r}) = Cardinality(UsedOf(a)) - 1
  BY <1>2, FS_RemoveElement
<1>6. \A r \in UsedOf(a) : Cardinality(UsedOf(a)) - 1 \in 0 .. TableSize
  <2> TAKE r \in UsedOf(a)
  <2>1. UsedOf(a) \ {r} \in SUBSET Refs
    BY <1>0
  <2>2. Cardinality(UsedOf(a) \ {r}) \in Nat /\ Cardinality(UsedOf(a) \ {r}) <= TableSize
    BY <1>1, <2>1
  <2> QED
    BY <1>5, <2>2, Sizes
<1> QED
  BY <1>2, <1>3, <1>4, <1>5, <1>6

\* addr_add() uses a free entry for the addresses, or finds none.
LEMMA AddSound ==
  ASSUME NEW a, Sound(a), NEW i \in Ieees \cup {NoIeee}, NEW s \in Shorts \cup {NoShort},
         i # NoIeee \/ s # NoShort, Unique(a, NoRef, i, s)
  PROVE  \/ addr_add(a, i, s) = [a |-> a, ref |-> NoRef]
         \/ /\ addr_add(a, i, s).ref \in Refs \ UsedOf(a)
            /\ Sound(addr_add(a, i, s).a)
            /\ Becomes(a, addr_add(a, i, s).a, addr_add(a, i, s).ref, TRUE, i, s)
<1>0. a \in Tables /\ Indexed(a, Known(a)) /\ Distinct(a) /\ a.n_elements = Cardinality(UsedOf(a))
  BY DEF Sound
<1> DEFINE free == {r \in Refs : ~a.addr_map[r].used}
<1>1. PICK r : r = Probe(IF i = NoIeee THEN 0 ELSE Hash[i], free)
  OBVIOUS
<1> DEFINE b == [a EXCEPT !.addr_map[r].addr = s, !.addr_map[r].ieee_addr = i]
<1> DEFINE c == IF s # NoShort THEN add_short_sorted(b, r, s) ELSE b
<1> DEFINE t == [c EXCEPT !.n_elements = @ + 1, !.addr_map[r].used = TRUE]
<1>2. addr_add(a, i, s) = IF r = NoRef THEN [a |-> a, ref |-> NoRef] ELSE [a |-> t, ref |-> r]
  BY <1>1 DEF addr_add
<1>3. CASE r = NoRef
  BY <1>2, <1>3
<1>4. CASE r # NoRef
  <2>1. r \in Refs /\ ~a.addr_map[r].used /\ r \notin UsedOf(a)
    <3>1. (IF i = NoIeee THEN 0 ELSE Hash[i]) \in Refs
      BY Sizes, AddrAssumption DEF Refs
    <3>2. r \in free
      <4>1. PICK h \in Refs : h = IF i = NoIeee THEN 0 ELSE Hash[i]
        BY <3>1
      <4> HIDE DEF free
      <4>2. free \in SUBSET Refs
        BY DEF free
      <4> QED
        BY <1>1, <1>4, <4>1, <4>2, ProbeFinds
    <3> QED
      BY <3>2 DEF UsedOf
  <2>2. /\ b \in Tables /\ b.n_sorted_elements = a.n_sorted_elements /\ b.short_sorted = a.short_sorted
        /\ b.n_elements = a.n_elements
        /\ b.addr_map[r].ieee_addr = i /\ b.addr_map[r].addr = s
        /\ \A q \in Refs \ {r} : b.addr_map[q] = a.addr_map[q]
    <3> DEFINE e == [[a.addr_map[r] EXCEPT !.addr = s] EXCEPT !.ieee_addr = i]
    <3> DEFINE m == [a.addr_map EXCEPT ![r] = e]
    <3>1. a.addr_map[r] \in Entry /\ a.addr_map \in [Refs -> Entry]
      BY <1>0, <2>1, TableParts
    <3>2. e \in Entry /\ e.ieee_addr = i /\ e.addr = s
      BY <3>1 DEF Entry
    <3>3. b = [a EXCEPT !.addr_map = m]
      BY <1>0, <2>1, <3>1 DEF Tables
    <3> HIDE DEF e
    <3>4. m \in [Refs -> Entry] /\ m[r] = e /\ \A q \in Refs \ {r} : m[q] = a.addr_map[q]
      BY <2>1, <3>1, <3>2
    <3> HIDE DEF m, b
    <3> QED
      BY <1>0, <3>2, <3>3, <3>4 DEF Tables
  <2> HIDE DEF b
  <2>3. PICK K : K = Known(a)
    OBVIOUS
  <2>4. /\ K \in SUBSET Refs /\ r \notin K /\ Indexed(a, K)
        /\ \A q \in K : q \in UsedOf(a) /\ q # r /\ ShortOf(a, q) \in Shorts
    BY <1>0, <2>1, <2>3, KnownShort
  <2>5. \A q \in K : ShortOf(b, q) = ShortOf(a, q)
    BY <2>2, <2>4 DEF ShortOf
  <2>6. Indexed(b, K)
    BY <2>2, <2>4, <2>5, IndexKept
  <2>7. /\ c \in Tables /\ c.addr_map = b.addr_map /\ c.n_elements = a.n_elements
        /\ Indexed(c, IF s # NoShort THEN K \cup {r} ELSE K)
    <3>1. CASE s = NoShort
      BY <2>2, <2>6, <3>1
    <3>2. CASE s # NoShort
      <4>1. s \in Shorts /\ ShortOf(b, r) = s /\ \A q \in K : ShortOf(b, q) \in Shorts
        BY <2>2, <2>4, <2>5, <3>2 DEF ShortOf
      <4>2. \A q \in K : ShortOf(b, q) # s
        <5> SUFFICES ASSUME NEW q \in K
                     PROVE  ShortOf(b, q) # s
          OBVIOUS
        <5>1. q \in UsedOf(a) \ {NoRef}
          BY <2>4, Sizes DEF UsedOf
        <5> QED
          BY <2>5, <3>2, <5>1 DEF Unique
      <4>3. /\ add_short_sorted(b, r, s) \in Tables /\ add_short_sorted(b, r, s).addr_map = b.addr_map
            /\ add_short_sorted(b, r, s).n_elements = b.n_elements
            /\ Indexed(add_short_sorted(b, r, s), K \cup {r})
        BY <2>1, <2>2, <2>4, <2>6, <4>1, <4>2, IndexedMore
      <4> QED
        BY <2>2, <3>2, <4>3
    <3> QED
      BY <3>1, <3>2
  <2> HIDE DEF c
  <2>8. /\ t \in Tables /\ t.n_sorted_elements = c.n_sorted_elements /\ t.short_sorted = c.short_sorted
        /\ t.n_elements = a.n_elements + 1
        /\ t.addr_map[r].used = TRUE
        /\ t.addr_map[r].ieee_addr = i /\ t.addr_map[r].addr = s
        /\ \A q \in Refs \ {r} : t.addr_map[q] = a.addr_map[q]
    <3> DEFINE e == [c.addr_map[r] EXCEPT !.used = TRUE]
    <3> DEFINE m == [c.addr_map EXCEPT ![r] = e]
    <3>0. a.n_elements + 1 \in 0 .. TableSize
      BY <1>0, <2>1, Counted
    <3>1. c.addr_map[r] \in Entry /\ c.addr_map \in [Refs -> Entry]
      BY <2>1, <2>7, TableParts
    <3>2. e \in Entry /\ e.used = TRUE /\ e.ieee_addr = i /\ e.addr = s
      BY <2>2, <2>7, <3>1 DEF Entry
    <3>3. t = [c EXCEPT !.n_elements = a.n_elements + 1, !.addr_map = m]
      BY <2>1, <2>7, <3>1 DEF Tables
    <3> HIDE DEF e
    <3>4. m \in [Refs -> Entry] /\ m[r] = e /\ \A q \in Refs \ {r} : m[q] = a.addr_map[q]
      BY <2>1, <2>2, <2>7, <3>1, <3>2
    <3> HIDE DEF m, t
    <3> QED
      BY <2>7, <3>0, <3>2, <3>3, <3>4 DEF Tables
  <2> HIDE DEF t
  <2>9. Becomes(a, t, r, TRUE, i, s)
    BY <2>8 DEF Becomes, IeeeOf, ShortOf
  <2>10. Unique(a, r, i, s)
    BY <2>1, Sizes DEF Unique, UsedOf
  <2>11. /\ Distinct(t) /\ UsedOf(t) = UsedOf(a) \cup {r}
         /\ Known(t) = IF s # NoShort THEN Known(a) \cup {r} ELSE Known(a) \ {r}
    <3>1. Distinct(a) /\ r \in Refs
      BY <1>0, <2>1
    <3>2. Joined(a, t, r, s)
      BY <3>1, <2>9, <2>10, StaysDistinct, Zenon
    <3> QED
      BY <3>2 DEF Joined
  <2>12. Known(t) = IF s # NoShort THEN K \cup {r} ELSE K
    BY <2>3, <2>4, <2>11
  <2>13. Indexed(t, Known(t))
    <3>1. \A q \in Refs : ShortOf(t, q) = ShortOf(c, q)
      BY <2>2, <2>7, <2>8 DEF ShortOf
    <3>2. Known(t) \subseteq Refs
      BY DEF Known, UsedOf
    <3> QED
      BY <2>7, <2>8, <2>12, <3>1, <3>2, IndexKept
  <2>14. t.n_elements = Cardinality(UsedOf(t))
    BY <1>0, <2>1, <2>8, <2>11, Counted
  <2>15. Sound(t)
    BY <2>8, <2>11, <2>13, <2>14 DEF Sound
  <2>16. addr_add(a, i, s).ref = r /\ addr_add(a, i, s).a = t
    BY <1>2, <1>4
  <2> QED
    BY <2>1, <2>9, <2>15, <2>16
<1> QED
  BY <1>3, <1>4

\* SetPair() gives both addresses to a used entry.
LEMMA PairSound ==
  ASSUME ~DoubleHits, NEW a, Sound(a), NEW r \in UsedOf(a), NEW i \in Ieees, NEW s \in Shorts,
         Unique(a, r, i, s), SetsPairCleanly(a, r, s)
  PROVE  Sound(SetPair(a, r, i, s)) /\ Becomes(a, SetPair(a, r, i, s), r, TRUE, i, s)
<1>0. /\ a \in Tables /\ Indexed(a, Known(a)) /\ Distinct(a) /\ a.n_elements = Cardinality(UsedOf(a))
      /\ r \in Refs /\ a.addr_map[r].used /\ i # NoIeee /\ s # NoShort
  BY AddrAssumption DEF Sound, UsedOf
<1>1. PICK old : old = a.addr_map[r].addr
  OBVIOUS
<1> DEFINE b == [a EXCEPT !.addr_map[r].ieee_addr = i]
<1> DEFINE c == IF old # NoShort THEN del_short_sorted(b, r) ELSE b
<1> DEFINE d == [c EXCEPT !.addr_map[r].addr = s]
<1>2. PICK t : t = SetPair(a, r, i, s)
  OBVIOUS
<1>3. t = IF old = s THEN b ELSE add_short_sorted(d, r, s)
  BY <1>1, <1>2 DEF SetPair
<1>4. PICK K : K = Known(a)
  OBVIOUS
<1>5. /\ K \in SUBSET Refs /\ Indexed(a, K) /\ \A q \in K : q \in UsedOf(a) /\ ShortOf(a, q) \in Shorts
      /\ r \in K <=> old # NoShort
  <2>1. r \in K <=> old # NoShort
    BY <1>1, <1>4 DEF Known, ShortOf
  <2> QED
    BY <1>0, <1>4, <2>1, KnownShort
<1>6. /\ b \in Tables /\ b.n_sorted_elements = a.n_sorted_elements /\ b.short_sorted = a.short_sorted
      /\ b.n_elements = a.n_elements
      /\ b.addr_map[r].ieee_addr = i /\ b.addr_map[r].addr = old /\ b.addr_map[r].used = TRUE
      /\ \A q \in Refs \ {r} : b.addr_map[q] = a.addr_map[q]
  <2> DEFINE e == [a.addr_map[r] EXCEPT !.ieee_addr = i]
  <2> DEFINE m == [a.addr_map EXCEPT ![r] = e]
  <2>1. a.addr_map[r] \in Entry /\ a.addr_map \in [Refs -> Entry]
    BY <1>0, TableParts
  <2>2. e \in Entry /\ e.ieee_addr = i /\ e.addr = old /\ e.used = TRUE
    BY <1>0, <1>1, <2>1 DEF Entry
  <2>3. b = [a EXCEPT !.addr_map = m]
    BY <1>0, <2>1 DEF Tables
  <2> HIDE DEF e
  <2>4. m \in [Refs -> Entry] /\ m[r] = e /\ \A q \in Refs \ {r} : m[q] = a.addr_map[q]
    BY <1>0, <2>1, <2>2
  <2> HIDE DEF m, b
  <2> QED
    BY <1>0, <2>2, <2>3, <2>4 DEF Tables
<1> HIDE DEF b
<1>7. \A q \in Refs : ShortOf(b, q) = ShortOf(a, q)
  BY <1>1, <1>6 DEF ShortOf
<1>8. Indexed(b, K) /\ \A q \in K : ShortOf(b, q) \in Shorts
  <2>1. \A q \in K : ShortOf(b, q) = ShortOf(a, q)
    BY <1>5, <1>7
  <2>2. Indexed(b, K)
    BY <1>5, <1>6, <2>1, IndexKept
  <2> QED
    BY <1>5, <2>1, <2>2
\* What remains to be shown of the result.
<1>9. ASSUME t \in Tables, Indexed(t, K \cup {r}), t.n_elements = a.n_elements,
             t.addr_map[r].used = TRUE, t.addr_map[r].ieee_addr = i, t.addr_map[r].addr = s,
             \A q \in Refs \ {r} : t.addr_map[q] = a.addr_map[q]
      PROVE  Sound(t) /\ Becomes(a, t, r, TRUE, i, s)
  <2>1. Becomes(a, t, r, TRUE, i, s)
    BY <1>9 DEF Becomes, IeeeOf, ShortOf
  <2>2. Joined(a, t, r, s)
    <3>1. Distinct(a) /\ r \in Refs /\ (i # NoIeee \/ s # NoShort)
      BY <1>0
    <3> QED
      BY <2>1, <3>1, StaysDistinct, Zenon
  <2>3. Distinct(t) /\ UsedOf(t) = UsedOf(a) /\ Known(t) = K \cup {r}
    BY <1>0, <1>4, <2>2 DEF Joined
  <2> QED
    BY <1>0, <1>9, <2>1, <2>3 DEF Sound
<1>10. CASE old = s
  <2>1. t = b /\ K \cup {r} = K
    BY <1>0, <1>3, <1>5, <1>10
  <2> QED
    BY <1>2, <1>6, <1>8, <1>9, <1>10, <2>1
<1>11. CASE old # s
  <2>1. /\ c \in Tables /\ c.addr_map = b.addr_map /\ c.n_elements = b.n_elements
        /\ Indexed(c, K \ {r})
    <3>1. CASE old = NoShort
      <4>1. c = b /\ K \ {r} = K
        BY <1>5, <3>1
      <4> QED
        BY <1>6, <1>8, <4>1
    <3>2. CASE old # NoShort
      <4>1. SingleHit(a, r)
        BY <1>1, <1>11, <3>2 DEF SetsPairCleanly
      <4>2. Clean(a, r)
        BY <1>0, <1>5, <4>1, Unindexed
      <4>3. Clean(b, r)
        BY <1>6, <4>2 DEF Clean, CleanAt, SortedByte
      <4>4. /\ del_short_sorted(b, r) \in Tables /\ del_short_sorted(b, r).addr_map = b.addr_map
            /\ del_short_sorted(b, r).n_elements = b.n_elements
            /\ Indexed(del_short_sorted(b, r), K \ {r})
        BY <1>5, <1>6, <1>8, <4>3, Unindexed
      <4> QED
        BY <3>2, <4>4
    <3> QED
      BY <3>1, <3>2
  <2> HIDE DEF c
  <2>2. /\ d \in Tables /\ d.n_sorted_elements = c.n_sorted_elements /\ d.short_sorted = c.short_sorted
        /\ d.n_elements = a.n_elements
        /\ d.addr_map[r].ieee_addr = i /\ d.addr_map[r].addr = s /\ d.addr_map[r].used = TRUE
        /\ \A q \in Refs \ {r} : d.addr_map[q] = a.addr_map[q]
    <3> DEFINE e == [c.addr_map[r] EXCEPT !.addr = s]
    <3> DEFINE m == [c.addr_map EXCEPT ![r] = e]
    <3>1. c.addr_map[r] \in Entry /\ c.addr_map \in [Refs -> Entry]
      BY <1>0, <2>1, TableParts
    <3>2. e \in Entry /\ e.ieee_addr = i /\ e.addr = s /\ e.used = TRUE
      BY <1>6, <2>1, <3>1 DEF Entry
    <3>3. d = [c EXCEPT !.addr_map = m]
      BY <1>0, <2>1, <3>1 DEF Tables
    <3> HIDE DEF e
    <3>4. m \in [Refs -> Entry] /\ m[r] = e /\ \A q \in Refs \ {r} : m[q] = a.addr_map[q]
      BY <1>0, <1>6, <2>1, <3>1, <3>2
    <3> HIDE DEF m, d
    <3> QED
      BY <1>6, <2>1, <3>2, <3>3, <3>4 DEF Tables
  <2> HIDE DEF d
  <2>3. \A q \in K \ {r} : ShortOf(d, q) = ShortOf(a, q) /\ ShortOf(c, q) = ShortOf(a, q)
    BY <1>5, <1>6, <2>1, <2>2 DEF ShortOf
  <2>4. Indexed(d, K \ {r})
    <3>1. \A q \in K \ {r} : ShortOf(d, q) = ShortOf(c, q)
      BY <2>3
    <3> QED
      BY <2>1, <2>2, <3>1, IndexKept
  <2>5. /\ \A q \in K \ {r} : ShortOf(d, q) \in Shorts /\ ShortOf(d, q) # s
        /\ K \ {r} \in SUBSET Refs /\ ShortOf(d, r) = s
    <3>1. \A q \in K \ {r} : ShortOf(a, q) # s
      BY <1>0, <1>5 DEF Unique
    <3> QED
      BY <1>5, <2>2, <2>3, <3>1 DEF ShortOf
  <2>6. /\ add_short_sorted(d, r, s) \in Tables /\ add_short_sorted(d, r, s).addr_map = d.addr_map
        /\ add_short_sorted(d, r, s).n_elements = d.n_elements
        /\ Indexed(add_short_sorted(d, r, s), (K \ {r}) \cup {r})
    <3>1. PICK S : S = K \ {r}
      OBVIOUS
    <3>2. /\ S \in SUBSET Refs /\ r \notin S /\ Indexed(d, S) /\ ShortOf(d, r) = s
          /\ \A q \in S : ShortOf(d, q) \in Shorts
          /\ \A q \in S : ShortOf(d, q) # s
      BY <2>4, <2>5, <3>1
    <3>3. /\ add_short_sorted(d, r, s) \in Tables /\ add_short_sorted(d, r, s).addr_map = d.addr_map
          /\ add_short_sorted(d, r, s).n_elements = d.n_elements
          /\ Indexed(add_short_sorted(d, r, s), S \cup {r})
      BY <1>0, <2>2, <3>2, IndexedMore
    <3> QED
      BY <3>1, <3>3
  <2>7. (K \ {r}) \cup {r} = K \cup {r} /\ t = add_short_sorted(d, r, s)
    BY <1>3, <1>11
  <2> QED
    BY <1>2, <1>9, <2>2, <2>6, <2>7
<1> QED
  BY <1>10, <1>11

\* Table t is table a without entry r.
Without(a, t, r) ==
    /\ UsedOf(t) = UsedOf(a) \ {r}
    /\ \A q \in Refs : /\ IeeeOf(t, q) = IeeeOf(a, q) /\ ShortOf(t, q) = ShortOf(a, q)
                       /\ q # r => t.addr_map[q] = a.addr_map[q]

\* A table without one of its entries is sound.
LEMMA DeleteSound ==
  ASSUME ~DoubleHits, NEW a, Sound(a), NEW r \in UsedOf(a), SingleHit(a, r)
  PROVE  Sound(Delete(a, r)) /\ Without(a, Delete(a, r), r)
<1>0. /\ a \in Tables /\ Indexed(a, Known(a)) /\ Distinct(a) /\ a.n_elements = Cardinality(UsedOf(a))
      /\ r \in Refs /\ a.addr_map[r].used
  BY DEF Sound, UsedOf
<1>1. PICK c : c = del_short_sorted(a, r)
  OBVIOUS
<1>2. PICK t : t = Delete(a, r)
  OBVIOUS
<1>3. t = [c EXCEPT !.addr_map[r].used = FALSE, !.n_elements = @ - 1]
  BY <1>1, <1>2 DEF Delete
<1>4. PICK K : K = Known(a)
  OBVIOUS
<1>5. K \in SUBSET Refs /\ Indexed(a, K) /\ \A q \in K : ShortOf(a, q) \in Shorts
  BY <1>0, <1>4, KnownShort
<1>6. c \in Tables /\ c.addr_map = a.addr_map /\ c.n_elements = a.n_elements /\ Indexed(c, K \ {r})
  BY <1>0, <1>1, <1>5, Unindexed
<1>7. /\ t \in Tables /\ t.n_sorted_elements = c.n_sorted_elements /\ t.short_sorted = c.short_sorted
      /\ t.n_elements = a.n_elements - 1
      /\ t.addr_map[r].used = FALSE
      /\ t.addr_map[r].ieee_addr = a.addr_map[r].ieee_addr /\ t.addr_map[r].addr = a.addr_map[r].addr
      /\ \A q \in Refs \ {r} : t.addr_map[q] = a.addr_map[q]
  <2> DEFINE e == [c.addr_map[r] EXCEPT !.used = FALSE]
  <2> DEFINE m == [c.addr_map EXCEPT ![r] = e]
  <2>0. a.n_elements - 1 \in 0 .. TableSize
    BY <1>0, Counted
  <2>1. c.addr_map[r] \in Entry /\ c.addr_map \in [Refs -> Entry]
    BY <1>0, <1>6, TableParts
  <2>2. e \in Entry /\ e.used = FALSE /\ e.ieee_addr = a.addr_map[r].ieee_addr /\ e.addr = a.addr_map[r].addr
    BY <1>6, <2>1 DEF Entry
  <2>3. t = [c EXCEPT !.addr_map = m, !.n_elements = a.n_elements - 1]
    BY <1>0, <1>3, <1>6, <2>1 DEF Tables
  <2> HIDE DEF e
  <2>4. m \in [Refs -> Entry] /\ m[r] = e /\ \A q \in Refs \ {r} : m[q] = a.addr_map[q]
    BY <1>0, <1>6, <2>1, <2>2
  <2> HIDE DEF m
  <2> QED
    BY <1>6, <2>0, <2>2, <2>3, <2>4 DEF Tables
<1>8. Without(a, t, r)
  <2>1. UsedOf(t) = UsedOf(a) \ {r}
    <3>1. \A q \in Refs \ {r} : t.addr_map[q].used = a.addr_map[q].used
      BY <1>7
    <3>2. ~t.addr_map[r].used
      BY <1>7
    <3> QED
      BY <3>1, <3>2, Zenon DEF UsedOf
  <2> QED
    BY <1>7, <2>1 DEF Without, IeeeOf, ShortOf
<1>9. Known(t) = K \ {r}
  BY <1>4, <1>8 DEF Without, Known, UsedOf
<1>10. Indexed(t, Known(t))
  <2>1. \A q \in K \ {r} : ShortOf(t, q) = ShortOf(c, q)
    BY <1>5, <1>6, <1>8 DEF Without, ShortOf
  <2> QED
    BY <1>6, <1>7, <1>9, <2>1, IndexKept
<1>11. Distinct(t)
  <2>1. \A q \in UsedOf(t) : q \in UsedOf(a) /\ IeeeOf(t, q) = IeeeOf(a, q) /\ ShortOf(t, q) = ShortOf(a, q)
    BY <1>8 DEF Without, UsedOf
  <2> QED
    BY <1>0, <2>1 DEF Distinct
<1>12. t.n_elements = Cardinality(UsedOf(t))
  BY <1>0, <1>7, <1>8, Counted DEF Without
<1>13. Sound(t)
  BY <1>7, <1>10, <1>11, <1>12 DEF Sound
<1> QED
  BY <1>2, <1>8, <1>13

\* Table t is table a with another lock count of entry r.
Relocked(a, t, r, n) == t = [a EXCEPT !.addr_map[r].lock_cnt = n]

\* A lock count changes nothing else.
LEMMA LockSound ==
  ASSUME NEW a, Sound(a), NEW r \in Refs, NEW n \in 0 .. LockSize - 1,
         NEW t, Relocked(a, t, r, n)
  PROVE  /\ Sound(t) /\ UsedOf(t) = UsedOf(a)
         /\ \A q \in Refs : IeeeOf(t, q) = IeeeOf(a, q) /\ ShortOf(t, q) = ShortOf(a, q)
<1>0. a \in Tables /\ Indexed(a, Known(a)) /\ Distinct(a) /\ a.n_elements = Cardinality(UsedOf(a))
  BY DEF Sound
<1>1. /\ t \in Tables /\ t.n_sorted_elements = a.n_sorted_elements /\ t.short_sorted = a.short_sorted
      /\ t.n_elements = a.n_elements
      /\ t.addr_map[r].used = a.addr_map[r].used
      /\ t.addr_map[r].ieee_addr = a.addr_map[r].ieee_addr /\ t.addr_map[r].addr = a.addr_map[r].addr
      /\ \A q \in Refs \ {r} : t.addr_map[q] = a.addr_map[q]
  <2> DEFINE e == [a.addr_map[r] EXCEPT !.lock_cnt = n]
  <2> DEFINE m == [a.addr_map EXCEPT ![r] = e]
  <2>1. a.addr_map[r] \in Entry /\ a.addr_map \in [Refs -> Entry]
    BY <1>0, TableParts
  <2>2. /\ e \in Entry /\ e.used = a.addr_map[r].used
        /\ e.ieee_addr = a.addr_map[r].ieee_addr /\ e.addr = a.addr_map[r].addr
    BY <2>1 DEF Entry
  <2>3. t = [a EXCEPT !.addr_map = m]
    BY <1>0, <2>1 DEF Tables, Relocked
  <2> HIDE DEF e
  <2>4. m \in [Refs -> Entry] /\ m[r] = e /\ \A q \in Refs \ {r} : m[q] = a.addr_map[q]
    BY <2>1, <2>2
  <2> HIDE DEF m
  <2> QED
    BY <1>0, <2>2, <2>3, <2>4 DEF Tables
<1>2. \A q \in Refs : /\ IeeeOf(t, q) = IeeeOf(a, q) /\ ShortOf(t, q) = ShortOf(a, q)
                      /\ t.addr_map[q].used = a.addr_map[q].used
  <2> TAKE q \in Refs
  <2>1. CASE q = r
    BY <1>1, <2>1 DEF IeeeOf, ShortOf
  <2>2. CASE q # r
    BY <1>1, <2>2 DEF IeeeOf, ShortOf
  <2> QED
    BY <2>1, <2>2
<1>3. UsedOf(t) = UsedOf(a)
  BY <1>2, Zenon DEF UsedOf
<1>4. Known(t) = Known(a) /\ UsedOf(a) \subseteq Refs /\ Known(a) \subseteq UsedOf(a)
  BY <1>2, <1>3 DEF Known, UsedOf
<1>5. Indexed(t, Known(t))
  <2>1. PICK K : K = Known(a)
    OBVIOUS
  <2>2. Indexed(a, K) /\ \A q \in K : ShortOf(t, q) = ShortOf(a, q)
    BY <1>0, <1>2, <1>4, <2>1
  <2>3. Indexed(t, K)
    <3>1. t.n_sorted_elements = a.n_sorted_elements /\ t.short_sorted = a.short_sorted
      BY <1>1
    <3> QED
      BY <2>2, <3>1, IndexKept
  <2> QED
    BY <1>4, <2>1, <2>3
<1>6. Distinct(t)
  <2>1. \A q \in UsedOf(t) : q \in UsedOf(a) /\ IeeeOf(t, q) = IeeeOf(a, q) /\ ShortOf(t, q) = ShortOf(a, q)
    BY <1>2, <1>3, <1>4
  <2> QED
    BY <1>0, <2>1 DEF Distinct
<1> QED
  BY <1>0, <1>1, <1>2, <1>3, <1>5, <1>6 DEF Sound

-----------------------------------------------------------------------------
(* What the searches of a sound table return.                               *)

\* short_search() agrees with a plain scan.
LEMMA ShortSearch ==
  ASSUME NEW a, Sound(a), NEW x \in Shorts
  PROVE  \/ short_search(a, x) = NoRef /\ \A q \in UsedOf(a) : ShortOf(a, q) # x
         \/ short_search(a, x) \in UsedOf(a) /\ ShortOf(a, short_search(a, x)) = x
<1>0. a \in Tables /\ Indexed(a, Known(a)) /\ Distinct(a) /\ x \in Nat /\ x # NoShort
  BY AddrAssumption DEF Sound
<1>1. Ascending(a)
  BY <1>0, KnownShort, IndexAscends
<1>2. PICK r : r = short_search(a, x)
  OBVIOUS
<1>3. /\ r = NoRef \/ \E k \in 0 .. a.n_sorted_elements - 1 : r = a.short_sorted[k] /\ ShortAt(a, k) = x
      /\ \A k \in 0 .. a.n_sorted_elements - 1 : ShortAt(a, k) = x => r = a.short_sorted[k]
  BY <1>0, <1>1, <1>2, ShortFinds
<1>4. \A k \in 0 .. a.n_sorted_elements - 1 : /\ a.short_sorted[k] \in UsedOf(a)
                                              /\ ShortAt(a, k) = ShortOf(a, a.short_sorted[k])
  BY <1>0 DEF Indexed, Known, ShortAt, ShortOf
<1>5. \A q \in UsedOf(a) : ShortOf(a, q) = x => \E k \in 0 .. a.n_sorted_elements - 1 : a.short_sorted[k] = q
  BY <1>0 DEF Indexed, Known
<1>6. CASE \E k \in 0 .. a.n_sorted_elements - 1 : r = a.short_sorted[k] /\ ShortAt(a, k) = x
  BY <1>2, <1>4, <1>6
<1>7. CASE r = NoRef
  <2>1. \A k \in 0 .. a.n_sorted_elements - 1 : a.short_sorted[k] # NoRef
    BY <1>4, Sizes DEF UsedOf
  <2>2. \A q \in UsedOf(a) : ShortOf(a, q) # x
    <3> SUFFICES ASSUME NEW q \in UsedOf(a), ShortOf(a, q) = x
                 PROVE  FALSE
      OBVIOUS
    <3>1. PICK k \in 0 .. a.n_sorted_elements - 1 : a.short_sorted[k] = q
      BY <1>5
    <3>2. ShortAt(a, k) = x
      BY <1>4, <3>1
    <3> QED
      BY <1>3, <1>7, <2>1, <3>2
  <2> QED
    BY <1>2, <1>7, <2>2
<1> QED
  BY <1>3, <1>6, <1>7

\* ieee_search() finds an entry if one has the address.
LEMMA IeeeSearch ==
  ASSUME NEW a, NEW i \in Ieees
  PROVE  \/ ieee_search(a, i) = NoRef /\ \A q \in UsedOf(a) : IeeeOf(a, q) # i
         \/ ieee_search(a, i) \in UsedOf(a) /\ IeeeOf(a, ieee_search(a, i)) = i
<1> DEFINE W == {r \in Refs : a.addr_map[r].used /\ a.addr_map[r].ieee_addr = i}
<1>1. PICK h \in Refs : h = Hash[i]
  BY AddrAssumption DEF Refs
<1>2. PICK r : r = ieee_search(a, i)
  OBVIOUS
<1>3. r = Probe(h, W)
  BY <1>1, <1>2 DEF ieee_search
<1>4. W \in SUBSET Refs /\ \A q : q \in W <=> q \in UsedOf(a) /\ IeeeOf(a, q) = i
  BY DEF UsedOf, IeeeOf
<1> HIDE DEF W
<1>5. (W # {} => r \in W) /\ (W = {} => r = NoRef)
  BY <1>3, <1>4, ProbeFinds
<1>6. CASE W = {}
  BY <1>2, <1>4, <1>5, <1>6
<1>7. CASE W # {}
  BY <1>2, <1>4, <1>5, <1>7
<1> QED
  BY <1>6, <1>7

-----------------------------------------------------------------------------
(* The table as a set of pairs.                                             *)

PairsOf(a) == {<<IeeeOf(a, r), ShortOf(a, r)>> : r \in UsedOf(a)}

\* Tables with the same entries but for the locks.
SameAs(a, t) ==
    /\ UsedOf(t) = UsedOf(a)
    /\ \A q \in Refs : IeeeOf(t, q) = IeeeOf(a, q) /\ ShortOf(t, q) = ShortOf(a, q)

\* In table t, entry r has the pair <<i, s>> and no other entry is left that
\* was about i or s; the rest is as in a.
Binds(a, t, r, i, s) ==
    /\ r \in UsedOf(t) /\ IeeeOf(t, r) = i /\ ShortOf(t, r) = s
    /\ r \in UsedOf(a) => IeeeOf(a, r) = i \/ ShortOf(a, r) = s
    /\ \A q \in Refs \ {r} :
         /\ q \in UsedOf(t) <=> (q \in UsedOf(a) /\ IeeeOf(a, q) # i /\ ShortOf(a, q) # s)
         /\ IeeeOf(t, q) = IeeeOf(a, q) /\ ShortOf(t, q) = ShortOf(a, q)

\* They stand for the same pairs.
LEMMA SamePairs ==
  ASSUME NEW a, NEW t, SameAs(a, t)
  PROVE  PairsOf(t) = PairsOf(a)
BY Zenon DEF SameAs, PairsOf, UsedOf

\* That is what Bind() of AddrPairs does to the pairs.
LEMMA BoundPairs ==
  ASSUME NEW a, NEW t, NEW r, NEW i, NEW s, Binds(a, t, r, i, s)
  PROVE  PairsOf(t) = {p \in PairsOf(a) : ~(p[1] = i \/ p[2] = s)} \cup {<<i, s>>}
<1>0. UsedOf(a) \subseteq Refs /\ UsedOf(t) \subseteq Refs
  BY DEF UsedOf
<1>1. ASSUME NEW p \in PairsOf(t)
      PROVE  p \in {x \in PairsOf(a) : ~(x[1] = i \/ x[2] = s)} \cup {<<i, s>>}
  <2>1. PICK q \in UsedOf(t) : p = <<IeeeOf(t, q), ShortOf(t, q)>>
    BY DEF PairsOf
  <2>2. CASE q = r
    BY <2>1, <2>2 DEF Binds
  <2>3. CASE q # r
    <3>1. /\ q \in UsedOf(a) /\ p = <<IeeeOf(a, q), ShortOf(a, q)>>
          /\ IeeeOf(a, q) # i /\ ShortOf(a, q) # s
      BY <1>0, <2>1, <2>3 DEF Binds
    <3>2. p \in PairsOf(a) /\ p[1] # i /\ p[2] # s
      BY <3>1 DEF PairsOf
    <3> QED
      BY <3>2
  <2> QED
    BY <2>2, <2>3
<1>2. <<i, s>> \in PairsOf(t)
  BY DEF Binds, PairsOf
<1>3. ASSUME NEW p \in PairsOf(a), p[1] # i, p[2] # s
      PROVE  p \in PairsOf(t)
  <2>1. PICK q \in UsedOf(a) : p = <<IeeeOf(a, q), ShortOf(a, q)>>
    BY DEF PairsOf
  <2>2. IeeeOf(a, q) # i /\ ShortOf(a, q) # s
    BY <1>3, <2>1
  <2>3. q \in Refs \ {r}
    BY <1>0, <2>2 DEF Binds
  <2>4. q \in UsedOf(t) /\ p = <<IeeeOf(t, q), ShortOf(t, q)>>
    BY <2>1, <2>2, <2>3 DEF Binds
  <2> QED
    BY <2>4 DEF PairsOf
<1> QED
  BY <1>1, <1>2, <1>3

\* A new entry brings its pair.
LEMMA JoinedPairs ==
  ASSUME NEW a, NEW t, NEW r, r \notin UsedOf(a), Joined(a, t, r, ShortOf(t, r))
  PROVE  PairsOf(t) = PairsOf(a) \cup {<<IeeeOf(t, r), ShortOf(t, r)>>}
<1>1. /\ UsedOf(t) = UsedOf(a) \cup {r}
      /\ \A q \in UsedOf(a) : IeeeOf(t, q) = IeeeOf(a, q) /\ ShortOf(t, q) = ShortOf(a, q)
  BY DEF Joined
<1> QED
  BY <1>1 DEF PairsOf

\* An entry takes its pair with it.
LEMMA LostPairs ==
  ASSUME NEW a, Distinct(a), NEW t, NEW r \in UsedOf(a), Without(a, t, r)
  PROVE  PairsOf(t) = PairsOf(a) \ {<<IeeeOf(a, r), ShortOf(a, r)>>}
<1>1. /\ UsedOf(t) = UsedOf(a) \ {r} /\ UsedOf(a) \subseteq Refs
      /\ \A q \in UsedOf(a) : IeeeOf(t, q) = IeeeOf(a, q) /\ ShortOf(t, q) = ShortOf(a, q)
  BY DEF Without, UsedOf
<1>2. \A q \in UsedOf(a) : q # r => <<IeeeOf(a, q), ShortOf(a, q)>> # <<IeeeOf(a, r), ShortOf(a, r)>>
  <2> SUFFICES ASSUME NEW q \in UsedOf(a), q # r,
                      IeeeOf(a, q) = IeeeOf(a, r), ShortOf(a, q) = ShortOf(a, r)
               PROVE  FALSE
    OBVIOUS
  <2> QED
    BY DEF Distinct
<1> QED
  BY <1>1, <1>2 DEF PairsOf

-----------------------------------------------------------------------------
(* The operations.                                                          *)

\* A step of the abstract set of pairs, from P to Q, or none.
PairsStep(P, Q) ==
    \/ Q = P
    \/ \E i \in Ieees : {p \in P : p[1] = i} = {} /\ Q = P \cup {<<i, NoShort>>}
    \/ \E s \in Shorts : {p \in P : p[2] = s} = {} /\ Q = P \cup {<<NoIeee, s>>}
    \/ \E i \in Ieees, s \in Shorts : Q = {p \in P : ~(p[1] = i \/ p[2] = s)} \cup {<<i, s>>}
    \/ \E p \in P : Q = P \ {p}

\* What a step that took table a to table t must have done.
Locked(a) == {q \in UsedOf(a) : a.addr_map[q].lock_cnt > 0}
StepSound(a, t) == Sound(t) /\ PairsStep(PairsOf(a), PairsOf(t)) /\ Locked(a) \subseteq UsedOf(t)

\* The end of an operation changes a lock count or nothing.
LEMMA Finished ==
  ASSUME NEW a, Sound(a), NEW r \in Refs \cup {NoRef}, NEW lock, aborted \in BOOLEAN,
         Finish(a, r, lock)
  PROVE  Sound(addr') /\ SameAs(a, addr') /\ aborted' \in BOOLEAN
<1>1. CASE addr' = a /\ aborted' = aborted
  BY <1>1 DEF SameAs
<1>2. CASE /\ r # NoRef
           /\ addr' = [a EXCEPT !.addr_map[r].lock_cnt = (@ + 1) % LockSize]
           /\ aborted' = (addr'.addr_map[r].lock_cnt = 0)
  <2>1. PICK n : n = (a.addr_map[r].lock_cnt + 1) % LockSize
    OBVIOUS
  <2>2. PICK t : t = addr'
    OBVIOUS
  <2>3. a \in Tables /\ r \in Refs
    BY <1>2 DEF Sound
  <2>4. a.addr_map[r].lock_cnt \in Nat
    BY <2>3, EntryParts, AddrAssumption
  <2>5. n \in 0 .. LockSize - 1
    BY <2>1, <2>4, AddrAssumption
  <2>6. Relocked(a, t, r, n)
    BY <1>2, <2>1, <2>2, <2>3 DEF Relocked, Tables
  <2>7. Sound(t) /\ SameAs(a, t)
    BY <2>3, <2>5, <2>6, LockSound DEF SameAs
  <2>8. aborted' \in BOOLEAN
    BY <1>2
  <2> QED
    BY <2>2, <2>7, <2>8
<1> QED
  BY <1>1, <1>2 DEF Finish

\* An operation that changed nothing but lock counts.
LEMMA NothingNew ==
  ASSUME NEW a, NEW t, Sound(t), SameAs(a, t)
  PROVE  StepSound(a, t)
<1>1. PairsOf(t) = PairsOf(a)
  BY SamePairs
<1>2. Locked(a) \subseteq UsedOf(t)
  BY DEF Locked, SameAs
<1> QED
  BY <1>1, <1>2 DEF StepSound, PairsStep

\* An operation that found nothing and added an entry, if there was room.
LEMMA Added ==
  ASSUME NEW a, Sound(a), NEW i \in Ieees \cup {NoIeee}, NEW s \in Shorts \cup {NoShort},
         i # NoIeee \/ s # NoShort,
         \A q \in UsedOf(a) : IeeeOf(a, q) # i \/ i = NoIeee,
         \A q \in UsedOf(a) : ShortOf(a, q) # s \/ s = NoShort,
         NEW lock, aborted \in BOOLEAN,
         Finish(addr_add(a, i, s).a, addr_add(a, i, s).ref, lock)
  PROVE  StepSound(a, addr') /\ aborted' \in BOOLEAN
<1>1. PICK new : new = addr_add(a, i, s)
  OBVIOUS
<1>2. Unique(a, NoRef, i, s)
  BY DEF Unique
<1>3. PICK u : u = new.a
  OBVIOUS
<1>4. PICK r : r = new.ref
  OBVIOUS
<1>5. Finish(u, r, lock)
  BY <1>1, <1>3, <1>4
<1>6. PICK t : t = addr'
  OBVIOUS
<1>7. CASE new = [a |-> a, ref |-> NoRef]
  <2>1. u = a /\ r = NoRef
    BY <1>3, <1>4, <1>7
  <2>2. Sound(t) /\ SameAs(a, t) /\ aborted' \in BOOLEAN
    BY <1>5, <1>6, <2>1, Finished
  <2> QED
    BY <1>6, <2>2, NothingNew
<1>8. CASE r \in Refs \ UsedOf(a) /\ Sound(u) /\ Becomes(a, u, r, TRUE, i, s)
  <2>1. Sound(t) /\ SameAs(u, t) /\ aborted' \in BOOLEAN
    BY <1>5, <1>6, <1>8, Finished
  <2>2. Joined(a, u, r, s)
    <3>1. \A q \in UsedOf(a) \ {r} : /\ i # NoIeee => IeeeOf(a, q) # i
                                     /\ s # NoShort => ShortOf(a, q) # s
      OBVIOUS
    <3>2. Unique(a, r, i, s) /\ Distinct(a) /\ r \in Refs
      BY <1>8, <3>1 DEF Unique, Sound
    <3> QED
      BY <1>8, <3>2, StaysDistinct, Zenon
  <2>3. IeeeOf(u, r) = i /\ ShortOf(u, r) = s
    BY <1>8 DEF Becomes
  <2>4. PairsOf(t) = PairsOf(a) \cup {<<i, s>>}
    <3>1. PairsOf(u) = PairsOf(a) \cup {<<i, s>>}
      BY <1>8, <2>2, <2>3, JoinedPairs
    <3>2. PairsOf(t) = PairsOf(u)
      BY <2>1, SamePairs
    <3> QED
      BY <3>1, <3>2
  <2>5. /\ i # NoIeee => \A p \in PairsOf(a) : p[1] # i
        /\ s # NoShort => \A p \in PairsOf(a) : p[2] # s
    BY DEF PairsOf
  <2>6. PairsStep(PairsOf(a), PairsOf(t))
    <3> DEFINE P == PairsOf(a)
    <3> DEFINE Q == PairsOf(t)
    <3> HIDE DEF P, Q
    <3>0. Q = P \cup {<<i, s>>} /\ (i # NoIeee => \A p \in P : p[1] # i)
          /\ (s # NoShort => \A p \in P : p[2] # s)
      BY <2>4, <2>5 DEF P, Q
    <3>1. CASE s = NoShort
      <4>1. i \in Ieees /\ {p \in P : p[1] = i} = {} /\ Q = P \cup {<<i, NoShort>>}
        BY <3>0, <3>1
      <4> QED
        BY <4>1 DEF PairsStep, P, Q
    <3>2. CASE i = NoIeee
      <4>1. s \in Shorts /\ {p \in P : p[2] = s} = {} /\ Q = P \cup {<<NoIeee, s>>}
        BY <3>0, <3>2
      <4> QED
        BY <4>1 DEF PairsStep, P, Q
    <3>3. CASE s # NoShort /\ i # NoIeee
      <4>1. i \in Ieees /\ s \in Shorts /\ {p \in P : ~(p[1] = i \/ p[2] = s)} = P
        BY <3>0, <3>3
      <4>2. Q = {p \in P : ~(p[1] = i \/ p[2] = s)} \cup {<<i, s>>}
        BY <3>0, <4>1
      <4> QED
        BY <4>1, <4>2 DEF PairsStep, P, Q
    <3> QED
      BY <3>1, <3>2, <3>3
  <2>7. Locked(a) \subseteq UsedOf(t)
    BY <2>1, <2>2 DEF Locked, Joined, SameAs
  <2> QED
    BY <1>6, <2>1, <2>6, <2>7 DEF StepSound
<1>9. \/ new = [a |-> a, ref |-> NoRef]
      \/ r \in Refs \ UsedOf(a) /\ Sound(u) /\ Becomes(a, u, r, TRUE, i, s)
  BY <1>1, <1>2, <1>3, <1>4, AddSound
<1> QED
  BY <1>7, <1>8, <1>9

\* zb_address_by_ieee() keeps the table sound.
LEMMA ByIeee ==
  ASSUME AddrInv, NEW i \in Ieees, NEW create, NEW lock, zb_address_by_ieee(i, create, lock)
  PROVE  AddrInv' /\ StepSound(addr, addr')
<1>1. PICK a : a = addr
  OBVIOUS
<1>2. PICK r : r = ieee_search(a, i)
  OBVIOUS
<1>3. /\ Sound(a) /\ aborted \in BOOLEAN /\ deletes' = deletes /\ deletes \in 0 .. MaxDeletes
      /\ i # NoIeee /\ NoShort \in Shorts \cup {NoShort} /\ i \in Ieees \cup {NoIeee}
  BY <1>1, AddrAssumption DEF AddrInv, zb_address_by_ieee
<1>4. \/ Finish(a, r, lock)
      \/ r = NoRef /\ Finish(addr_add(a, i, NoShort).a, addr_add(a, i, NoShort).ref, lock)
  BY <1>1, <1>2 DEF zb_address_by_ieee
<1>5. \/ r = NoRef /\ \A q \in UsedOf(a) : IeeeOf(a, q) # i
      \/ r \in UsedOf(a) /\ IeeeOf(a, r) = i
  BY <1>2, IeeeSearch
<1>6. r \in Refs \cup {NoRef}
  BY <1>5 DEF UsedOf
<1>7. StepSound(a, addr') /\ aborted' \in BOOLEAN
  <2>1. CASE Finish(a, r, lock)
    <3>1. PICK t : t = addr'
      OBVIOUS
    <3>2. Sound(t) /\ SameAs(a, t) /\ aborted' \in BOOLEAN
      BY <1>3, <1>6, <2>1, <3>1, Finished
    <3> QED
      BY <3>1, <3>2, NothingNew
  <2>2. CASE r = NoRef /\ Finish(addr_add(a, i, NoShort).a, addr_add(a, i, NoShort).ref, lock)
    <3>1. r \notin UsedOf(a)
      BY <2>2, Sizes DEF UsedOf
    <3>2. PICK s : s = NoShort
      OBVIOUS
    <3>3. /\ s \in Shorts \cup {NoShort} /\ \A q \in UsedOf(a) : IeeeOf(a, q) # i \/ i = NoIeee
          /\ \A q \in UsedOf(a) : ShortOf(a, q) # s \/ s = NoShort
          /\ Finish(addr_add(a, i, s).a, addr_add(a, i, s).ref, lock)
          /\ (i # NoIeee \/ s # NoShort)
      BY <1>3, <1>5, <2>2, <3>1, <3>2
    <3> QED
      BY <1>3, <3>3, Added
  <2> QED
    BY <1>4, <2>1, <2>2
<1> QED
  BY <1>1, <1>3, <1>7 DEF AddrInv, StepSound

\* zb_address_by_short() keeps the table sound.
LEMMA ByShort ==
  ASSUME AddrInv, NEW s \in Shorts, NEW create, NEW lock, zb_address_by_short(s, create, lock)
  PROVE  AddrInv' /\ StepSound(addr, addr')
<1>1. PICK a : a = addr
  OBVIOUS
<1>2. PICK r : r = short_search(a, s)
  OBVIOUS
<1>3. /\ Sound(a) /\ aborted \in BOOLEAN /\ deletes' = deletes /\ deletes \in 0 .. MaxDeletes
      /\ s # NoShort /\ NoIeee \in Ieees \cup {NoIeee} /\ s \in Shorts \cup {NoShort}
  BY <1>1, AddrAssumption DEF AddrInv, zb_address_by_short
<1>4. \/ Finish(a, r, lock)
      \/ r = NoRef /\ Finish(addr_add(a, NoIeee, s).a, addr_add(a, NoIeee, s).ref, lock)
  BY <1>1, <1>2 DEF zb_address_by_short
<1>5. \/ r = NoRef /\ \A q \in UsedOf(a) : ShortOf(a, q) # s
      \/ r \in UsedOf(a) /\ ShortOf(a, r) = s
  BY <1>2, <1>3, ShortSearch
<1>6. r \in Refs \cup {NoRef}
  BY <1>5 DEF UsedOf
<1>7. StepSound(a, addr') /\ aborted' \in BOOLEAN
  <2>1. CASE Finish(a, r, lock)
    <3>1. PICK t : t = addr'
      OBVIOUS
    <3>2. Sound(t) /\ SameAs(a, t) /\ aborted' \in BOOLEAN
      BY <1>3, <1>6, <2>1, <3>1, Finished
    <3> QED
      BY <3>1, <3>2, NothingNew
  <2>2. CASE r = NoRef /\ Finish(addr_add(a, NoIeee, s).a, addr_add(a, NoIeee, s).ref, lock)
    <3>1. r \notin UsedOf(a)
      BY <2>2, Sizes DEF UsedOf
    <3>2. PICK i : i = NoIeee
      OBVIOUS
    <3>3. /\ i \in Ieees \cup {NoIeee} /\ \A q \in UsedOf(a) : IeeeOf(a, q) # i \/ i = NoIeee
          /\ \A q \in UsedOf(a) : ShortOf(a, q) # s \/ s = NoShort
          /\ Finish(addr_add(a, i, s).a, addr_add(a, i, s).ref, lock)
          /\ (i # NoIeee \/ s # NoShort)
      BY <1>3, <1>5, <2>2, <3>1, <3>2
    <3> QED
      BY <1>3, <3>3, Added
  <2> QED
    BY <1>4, <2>1, <2>2
<1> QED
  BY <1>1, <1>3, <1>7 DEF AddrInv, StepSound

-----------------------------------------------------------------------------
(* zb_address_update().                                                     *)

\* Table m is table a without the entries that have one of the addresses i and
\* s, but for entry r, which may stay.
Cleared(a, m, r, i, s) ==
    \A q \in Refs \ {r} :
      /\ q \in UsedOf(m) <=> (q \in UsedOf(a) /\ IeeeOf(a, q) # i /\ ShortOf(a, q) # s)
      /\ IeeeOf(m, q) = IeeeOf(a, q) /\ ShortOf(m, q) = ShortOf(a, q)

\* Entry r of the cleared table takes both addresses: the pair is bound.
LEMMA SetBinds ==
  ASSUME ~DoubleHits, NEW a, NEW m, Sound(m), NEW r \in UsedOf(m), NEW i \in Ieees, NEW s \in Shorts,
         IeeeOf(a, r) = i \/ ShortOf(a, r) = s, Cleared(a, m, r, i, s), SetsPairCleanly(m, r, s)
  PROVE  /\ Sound(SetPair(m, r, i, s)) /\ UsedOf(SetPair(m, r, i, s)) = UsedOf(m)
         /\ Binds(a, SetPair(m, r, i, s), r, i, s)
<1>1. PICK u : u = SetPair(m, r, i, s)
  OBVIOUS
<1>2. UsedOf(m) \subseteq Refs /\ r \in Refs
  BY DEF UsedOf
<1>3. Unique(m, r, i, s)
  BY <1>2 DEF Unique, Cleared
<1>4. Sound(u) /\ Becomes(m, u, r, TRUE, i, s)
  BY <1>1, <1>3, PairSound
<1>5. \A q \in Refs \ {r} : /\ u.addr_map[q].used = m.addr_map[q].used
                            /\ IeeeOf(u, q) = IeeeOf(m, q) /\ ShortOf(u, q) = ShortOf(m, q)
  BY <1>4 DEF Becomes, IeeeOf, ShortOf
<1>6. u.addr_map[r].used /\ IeeeOf(u, r) = i /\ ShortOf(u, r) = s
  BY <1>4 DEF Becomes
<1>7. UsedOf(u) = UsedOf(m)
  <2>1. \A q \in Refs : u.addr_map[q].used <=> m.addr_map[q].used
    <3>1. m.addr_map[r].used
      BY DEF UsedOf
    <3> QED
      BY <1>5, <1>6, <3>1
  <2> QED
    BY <2>1, Zenon DEF UsedOf
<1>8. Binds(a, u, r, i, s)
  <2>1. \A q \in Refs \ {r} :
           /\ q \in UsedOf(u) <=> (q \in UsedOf(a) /\ IeeeOf(a, q) # i /\ ShortOf(a, q) # s)
           /\ IeeeOf(u, q) = IeeeOf(a, q) /\ ShortOf(u, q) = ShortOf(a, q)
    BY <1>5, <1>7 DEF Cleared
  <2> QED
    BY <1>6, <1>7, <2>1, Zenon DEF Binds
<1> QED
  BY <1>1, <1>4, <1>7, <1>8

\* The end of zb_address_update().
LEMMA Bound ==
  ASSUME ~DoubleHits, NEW a, NEW m, Sound(m), NEW r \in UsedOf(m), NEW i \in Ieees, NEW s \in Shorts,
         IeeeOf(a, r) = i \/ ShortOf(a, r) = s, Cleared(a, m, r, i, s), SetsPairCleanly(m, r, s),
         Locked(a) \subseteq UsedOf(m),
         NEW lock, aborted \in BOOLEAN, Finish(SetPair(m, r, i, s), r, lock)
  PROVE  StepSound(a, addr') /\ aborted' \in BOOLEAN
<1>1. PICK u : u = SetPair(m, r, i, s)
  OBVIOUS
<1>2. PICK t : t = addr'
  OBVIOUS
<1>3. Sound(u) /\ UsedOf(u) = UsedOf(m) /\ Binds(a, u, r, i, s)
  BY <1>1, SetBinds
<1>4. Sound(t) /\ SameAs(u, t) /\ aborted' \in BOOLEAN
  <2>1. r \in Refs \cup {NoRef} /\ Finish(u, r, lock)
    BY <1>1 DEF UsedOf
  <2> QED
    BY <1>2, <1>3, <2>1, Finished
<1>5. PairsOf(t) = {p \in PairsOf(a) : ~(p[1] = i \/ p[2] = s)} \cup {<<i, s>>}
  <2>1. PairsOf(u) = {p \in PairsOf(a) : ~(p[1] = i \/ p[2] = s)} \cup {<<i, s>>}
    BY <1>3, BoundPairs
  <2>2. PairsOf(t) = PairsOf(u)
    BY <1>4, SamePairs
  <2> QED
    BY <2>1, <2>2
<1>6. Locked(a) \subseteq UsedOf(t)
  BY <1>3, <1>4 DEF SameAs
<1> QED
  BY <1>2, <1>4, <1>5, <1>6 DEF StepSound, PairsStep

\* One of two entries with the addresses is deleted: the other is left.
LEMMA Merged ==
  ASSUME ~DoubleHits, NEW a, Sound(a), NEW x \in UsedOf(a), NEW r \in UsedOf(a), x # r,
         NEW i \in Ieees, NEW s \in Shorts,
         \/ ShortOf(a, x) = s /\ IeeeOf(a, r) = i
         \/ IeeeOf(a, x) = i /\ ShortOf(a, r) = s,
         SingleHit(a, x), a.addr_map[x].lock_cnt = 0
  PROVE  /\ Sound(Delete(a, x)) /\ r \in UsedOf(Delete(a, x)) /\ Cleared(a, Delete(a, x), r, i, s)
         /\ Locked(a) \subseteq UsedOf(Delete(a, x))
<1>1. PICK m : m = Delete(a, x)
  OBVIOUS
<1>2. Sound(m) /\ Without(a, m, x)
  BY <1>1, DeleteSound
<1>3. /\ UsedOf(m) = UsedOf(a) \ {x} /\ UsedOf(a) \subseteq Refs
      /\ \A q \in Refs : IeeeOf(m, q) = IeeeOf(a, q) /\ ShortOf(m, q) = ShortOf(a, q)
  BY <1>2 DEF Without, UsedOf
<1>4. i # NoIeee /\ s # NoShort /\ Distinct(a)
  BY AddrAssumption DEF Sound
<1>5. \A q \in UsedOf(a) : q # r /\ q # x => IeeeOf(a, q) # i /\ ShortOf(a, q) # s
  BY <1>4 DEF Distinct
<1>6. Cleared(a, m, r, i, s)
  BY <1>3, <1>5 DEF Cleared
<1>7. Locked(a) \subseteq UsedOf(m)
  <2>1. x \notin Locked(a) /\ Locked(a) \subseteq UsedOf(a)
    BY DEF Locked
  <2> QED
    BY <1>3, <2>1
<1> QED
  BY <1>1, <1>2, <1>3, <1>6, <1>7

\* zb_address_update() keeps the table sound, and takes no reference away from
\* who holds it.
LEMMA Update ==
  ASSUME ~DoubleHits, AddrInv, NEW i \in Ieees, NEW s \in Shorts, NEW lock,
         zb_address_update(i, s, lock)
  PROVE  AddrInv' /\ StepSound(addr, addr')
<1>1. PICK a : a = addr
  OBVIOUS
<1>2. PICK r : r = short_search(a, s)
  OBVIOUS
<1>3. PICK rl : rl = ieee_search(a, i)
  OBVIOUS
<1> DEFINE conflict == r # NoRef /\ rl # NoRef /\ r # rl
<1> DEFINE keep == IF rl = NoRef THEN r ELSE rl
<1> DEFINE MergeShort == /\ conflict /\ a.addr_map[r].lock_cnt = 0
                         /\ SingleHit(a, r) /\ SetsPairCleanly(Delete(a, r), rl, s)
                         /\ Finish(SetPair(Delete(a, r), rl, i, s), rl, lock)
                         /\ deletes' = deletes + 1
<1> DEFINE MergeLong == /\ conflict /\ a.addr_map[rl].lock_cnt = 0
                        /\ SingleHit(a, rl)
                        /\ Finish(SetPair(Delete(a, rl), r, i, s), r, lock)
                        /\ deletes' = deletes + 1
<1> DEFINE Refused == aborted' = TRUE /\ addr' = addr /\ deletes' = deletes
<1> DEFINE Changed == /\ ~conflict /\ keep # NoRef
                      /\ SetsPairCleanly(a, keep, s)
                      /\ Finish(SetPair(a, keep, i, s), keep, lock)
                      /\ deletes' = deletes
<1> DEFINE New == /\ ~conflict /\ keep = NoRef
                  /\ Finish(addr_add(a, i, s).a, addr_add(a, i, s).ref, lock)
                  /\ deletes' = deletes
<1>4. /\ conflict => deletes < MaxDeletes
      /\ MergeShort \/ MergeLong \/ Refused \/ Changed \/ New
  BY <1>1, <1>2, <1>3 DEF zb_address_update, Expendable
<1>5. /\ Sound(a) /\ Distinct(a) /\ aborted \in BOOLEAN /\ deletes \in 0 .. MaxDeletes
      /\ i # NoIeee /\ s # NoShort /\ UsedOf(a) \subseteq Refs
  BY <1>1, AddrAssumption DEF AddrInv, Sound, UsedOf
<1>6. \/ r = NoRef /\ \A q \in UsedOf(a) : ShortOf(a, q) # s
      \/ r \in UsedOf(a) /\ ShortOf(a, r) = s
  BY <1>2, <1>5, ShortSearch
<1>7. \/ rl = NoRef /\ \A q \in UsedOf(a) : IeeeOf(a, q) # i
      \/ rl \in UsedOf(a) /\ IeeeOf(a, rl) = i
  BY <1>3, IeeeSearch
<1>8. NoRef \notin UsedOf(a) /\ MaxDeletes \in Nat
  BY <1>5, Sizes, AddrAssumption
<1>9. ASSUME StepSound(a, addr'), aborted' \in BOOLEAN, deletes' \in 0 .. MaxDeletes
      PROVE  AddrInv' /\ StepSound(addr, addr')
  BY <1>1, <1>9 DEF AddrInv, StepSound
<1>10. CASE MergeShort
  <2>1. r \in UsedOf(a) /\ rl \in UsedOf(a) /\ r # rl /\ ShortOf(a, r) = s /\ IeeeOf(a, rl) = i
    BY <1>6, <1>7, <1>10
  <2>2. PICK m : m = Delete(a, r)
    OBVIOUS
  <2>3. /\ Sound(m) /\ rl \in UsedOf(m) /\ Cleared(a, m, rl, i, s)
        /\ Locked(a) \subseteq UsedOf(m)
    BY <1>5, <1>10, <2>1, <2>2, Merged
  <2>4. SetsPairCleanly(m, rl, s) /\ Finish(SetPair(m, rl, i, s), rl, lock)
    BY <1>10, <2>2
  <2>5. StepSound(a, addr') /\ aborted' \in BOOLEAN
    BY <1>5, <2>1, <2>3, <2>4, Bound
  <2>6. deletes' \in 0 .. MaxDeletes
    BY <1>4, <1>5, <1>8, <1>10
  <2> QED
    BY <1>9, <2>5, <2>6
<1>11. CASE MergeLong
  <2>1. r \in UsedOf(a) /\ rl \in UsedOf(a) /\ r # rl /\ ShortOf(a, r) = s /\ IeeeOf(a, rl) = i
    BY <1>6, <1>7, <1>11
  <2>2. PICK m : m = Delete(a, rl)
    OBVIOUS
  <2>3. /\ Sound(m) /\ r \in UsedOf(m) /\ Cleared(a, m, r, i, s)
        /\ Locked(a) \subseteq UsedOf(m)
    BY <1>5, <1>11, <2>1, <2>2, Merged
  <2>4. Finish(SetPair(m, r, i, s), r, lock)
    BY <1>11, <2>2
  <2>5. SetsPairCleanly(m, r, s)
    <3>1. Without(a, m, rl)
      BY <1>5, <1>11, <2>1, <2>2, DeleteSound
    <3>2. ShortOf(m, r) = s
      BY <1>5, <2>1, <3>1 DEF Without
    <3> QED
      BY <3>2 DEF SetsPairCleanly, ShortOf
  <2>6. StepSound(a, addr') /\ aborted' \in BOOLEAN
    BY <1>5, <2>1, <2>3, <2>4, <2>5, Bound
  <2>7. deletes' \in 0 .. MaxDeletes
    BY <1>4, <1>5, <1>8, <1>11
  <2> QED
    BY <1>9, <2>6, <2>7
<1>12. CASE Refused
  <2>1. PICK t : t = addr'
    OBVIOUS
  <2>2. Sound(t) /\ SameAs(a, t)
    BY <1>1, <1>5, <1>12, <2>1 DEF SameAs
  <2> QED
    BY <1>5, <1>9, <1>12, <2>1, <2>2, NothingNew
<1>13. CASE Changed
  <2>1. PICK k : k = keep
    OBVIOUS
  <2>2. /\ k \in UsedOf(a) /\ (IeeeOf(a, k) = i \/ ShortOf(a, k) = s)
        /\ SetsPairCleanly(a, k, s) /\ Finish(SetPair(a, k, i, s), k, lock)
    BY <1>6, <1>7, <1>13, <2>1
  <2>3. \A q \in UsedOf(a) : q # k => IeeeOf(a, q) # i /\ ShortOf(a, q) # s
    <3>1. \A q \in UsedOf(a) : q # k => ShortOf(a, q) # s
      BY <1>5, <1>6, <1>8, <1>13, <2>1 DEF Distinct
    <3>2. \A q \in UsedOf(a) : q # k => IeeeOf(a, q) # i
      BY <1>5, <1>7, <1>8, <1>13, <2>1 DEF Distinct
    <3> QED
      BY <3>1, <3>2
  <2>4. Cleared(a, a, k, i, s) /\ Locked(a) \subseteq UsedOf(a)
    BY <2>3 DEF Cleared, Locked
  <2>5. StepSound(a, addr') /\ aborted' \in BOOLEAN
    BY <1>5, <2>2, <2>4, Bound
  <2> QED
    BY <1>5, <1>9, <1>13, <2>5
<1>14. CASE New
  <2>1. r = NoRef /\ rl = NoRef
    BY <1>14
  <2>2. /\ \A q \in UsedOf(a) : IeeeOf(a, q) # i \/ i = NoIeee
        /\ \A q \in UsedOf(a) : ShortOf(a, q) # s \/ s = NoShort
        /\ i \in Ieees \cup {NoIeee} /\ s \in Shorts \cup {NoShort}
        /\ Finish(addr_add(a, i, s).a, addr_add(a, i, s).ref, lock)
    BY <1>6, <1>7, <1>8, <1>14, <2>1
  <2>3. StepSound(a, addr') /\ aborted' \in BOOLEAN
    BY <1>5, <2>2, Added
  <2> QED
    BY <1>5, <1>9, <1>14, <2>3
<1> QED
  BY <1>4, <1>10, <1>11, <1>12, <1>13, <1>14

-----------------------------------------------------------------------------
(* The other operations, and the theorems.                                  *)

\* zb_address_delete() takes one entry, locked or not, and no other.
LEMMA DeviceDeleted ==
  ASSUME ~DoubleHits, AddrInv, NEW r \in Refs, zb_address_delete(r)
  PROVE  /\ AddrInv' /\ PairsStep(PairsOf(addr), PairsOf(addr'))
         /\ UsedOf(addr) \subseteq UsedOf(addr') \cup {r}
<1>1. PICK a : a = addr
  OBVIOUS
<1>2. PICK t : t = addr'
  OBVIOUS
<1>3. /\ Sound(a) /\ Distinct(a) /\ r \in UsedOf(a) /\ SingleHit(a, r) /\ t = Delete(a, r)
      /\ aborted' \in BOOLEAN /\ deletes' \in 0 .. MaxDeletes
  BY <1>1, <1>2, AddrAssumption DEF AddrInv, Sound, UsedOf, zb_address_delete
<1>4. Sound(t) /\ Without(a, t, r)
  BY <1>3, DeleteSound
<1>5. PairsOf(t) = PairsOf(a) \ {<<IeeeOf(a, r), ShortOf(a, r)>>}
  BY <1>3, <1>4, LostPairs
<1>6. <<IeeeOf(a, r), ShortOf(a, r)>> \in PairsOf(a)
  BY <1>3 DEF PairsOf
<1>7. PairsStep(PairsOf(a), PairsOf(t))
  BY <1>5, <1>6 DEF PairsStep
<1>8. UsedOf(a) \subseteq UsedOf(t) \cup {r}
  BY <1>4 DEF Without
<1> QED
  BY <1>1, <1>2, <1>3, <1>4, <1>7, <1>8 DEF AddrInv

\* zb_address_lock() and zb_address_unlock() change a lock count.
LEMMA LocksChanged ==
  ASSUME AddrInv, NEW r \in Refs, zb_address_lock(r) \/ zb_address_unlock(r)
  PROVE  AddrInv' /\ StepSound(addr, addr')
<1>1. PICK a : a = addr
  OBVIOUS
<1>2. PICK t : t = addr'
  OBVIOUS
<1>3. /\ Sound(a) /\ a \in Tables /\ aborted \in BOOLEAN /\ r \in Refs \cup {NoRef}
      /\ deletes' = deletes /\ deletes \in 0 .. MaxDeletes
  BY <1>1 DEF AddrInv, Sound, zb_address_lock, zb_address_unlock
<1>4. Sound(t) /\ SameAs(a, t) /\ aborted' \in BOOLEAN
  <2>1. CASE zb_address_lock(r)
    <3>1. Finish(a, r, TRUE)
      BY <1>1, <2>1 DEF zb_address_lock
    <3> QED
      BY <1>2, <1>3, <3>1, Finished
  <2>2. CASE zb_address_unlock(r)
    <3>1. PICK n : n = a.addr_map[r].lock_cnt - 1
      OBVIOUS
    <3>2. n \in 0 .. LockSize - 1
      <4>1. a.addr_map[r].lock_cnt > 0 /\ a.addr_map[r].lock_cnt \in 0 .. LockSize - 1
        BY <1>1, <1>3, <2>2, EntryParts DEF zb_address_unlock
      <4> QED
        BY <3>1, <4>1, AddrAssumption
    <3>3. Relocked(a, t, r, n)
      BY <1>1, <1>2, <1>3, <2>2, <3>1 DEF Relocked, Tables, zb_address_unlock
    <3>4. Sound(t) /\ SameAs(a, t)
      BY <1>3, <3>2, <3>3, LockSound DEF SameAs
    <3> QED
      BY <1>3, <2>2, <3>4 DEF zb_address_unlock
  <2> QED
    BY <2>1, <2>2
<1> QED
  BY <1>1, <1>2, <1>3, <1>4, NothingNew DEF AddrInv

\* The empty table is sound.
LEMMA InitSound == Init => AddrInv /\ PairsOf(addr) = {}
<1> SUFFICES ASSUME Init
             PROVE  AddrInv /\ PairsOf(addr) = {}
  OBVIOUS
<1>1. /\ addr.n_sorted_elements = 0 /\ addr.n_elements = 0 /\ deletes = 0 /\ aborted = FALSE
      /\ \A r \in Refs : addr.addr_map[r].used = FALSE
  BY DEF Init
<1>2. addr \in Tables
  <2>1. [used |-> FALSE, ieee_addr |-> NoIeee, addr |-> 0, lock_cnt |-> 0] \in Entry
    BY AddrAssumption DEF Entry
  <2>2. addr.addr_map \in [Refs -> Entry]
    BY <2>1 DEF Init
  <2>3. addr.short_sorted \in [Refs -> Refs \cup {NoRef}]
    BY Sizes DEF Init
  <2>4. 0 \in 0 .. TableSize
    BY Sizes
  <2>5. addr = [addr_map |-> addr.addr_map, short_sorted |-> addr.short_sorted,
                n_sorted_elements |-> 0, n_elements |-> 0]
    BY DEF Init
  <2> HIDE DEF Init
  <2> QED
    BY <2>2, <2>3, <2>4, <2>5 DEF Tables
<1>3. UsedOf(addr) = {}
  BY <1>1, Zenon DEF UsedOf
<1>4. Known(addr) = {} /\ Distinct(addr) /\ PairsOf(addr) = {}
  BY <1>3 DEF Known, Distinct, PairsOf
<1>5. Indexed(addr, Known(addr))
  BY <1>1, <1>4 DEF Indexed
<1>6. addr.n_elements = Cardinality(UsedOf(addr))
  BY <1>1, <1>3, FS_EmptySet
<1>7. 0 \in 0 .. MaxDeletes
  BY AddrAssumption
<1> QED
  BY <1>1, <1>2, <1>4, <1>5, <1>6, <1>7 DEF AddrInv, Sound

\* Every step keeps the invariant, takes a step of the abstract set of pairs or
\* none, and loses no locked entry but the one whose device is forgotten.
LEMMA EveryStep ==
  ASSUME ~DoubleHits, AddrInv, [Next]_vars
  PROVE  /\ AddrInv' /\ PairsStep(PairsOf(addr), PairsOf(addr'))
         /\ \A q \in Locked(addr) : q \in UsedOf(addr') \/ zb_address_delete(q)
<1>1. CASE StepSound(addr, addr') /\ AddrInv'
  BY <1>1 DEF StepSound
<1>2. ASSUME NEW i \in Ieees, NEW create \in BOOLEAN, NEW lock \in BOOLEAN,
             zb_address_by_ieee(i, create, lock)
      PROVE  AddrInv' /\ StepSound(addr, addr')
  BY <1>2, ByIeee
<1>3. ASSUME NEW s \in Shorts, NEW create \in BOOLEAN, NEW lock \in BOOLEAN,
             zb_address_by_short(s, create, lock)
      PROVE  AddrInv' /\ StepSound(addr, addr')
  BY <1>3, ByShort
<1>4. ASSUME NEW i \in Ieees, NEW s \in Shorts, NEW lock \in BOOLEAN, zb_address_update(i, s, lock)
      PROVE  AddrInv' /\ StepSound(addr, addr')
  BY <1>4, Update
<1>5. ASSUME NEW r \in Refs, zb_address_lock(r) \/ zb_address_unlock(r)
      PROVE  AddrInv' /\ StepSound(addr, addr')
  BY <1>5, LocksChanged
<1>6. ASSUME NEW r \in Refs, zb_address_delete(r)
      PROVE  /\ AddrInv' /\ PairsStep(PairsOf(addr), PairsOf(addr'))
             /\ \A q \in Locked(addr) : q \in UsedOf(addr') \/ zb_address_delete(q)
  <2>1. /\ AddrInv' /\ PairsStep(PairsOf(addr), PairsOf(addr'))
        /\ UsedOf(addr) \subseteq UsedOf(addr') \cup {r}
    BY <1>6, DeviceDeleted
  <2>2. Locked(addr) \subseteq UsedOf(addr)
    BY DEF Locked
  <2> QED
    BY <1>6, <2>1, <2>2
<1>7. CASE UNCHANGED vars
  <2>1. addr' = addr /\ deletes' = deletes /\ aborted' = aborted
    BY <1>7 DEF vars
  <2>2. AddrInv' /\ UsedOf(addr') = UsedOf(addr) /\ PairsOf(addr') = PairsOf(addr)
    BY <2>1 DEF AddrInv
  <2> QED
    BY <2>2 DEF PairsStep, Locked
<1> QED
  BY <1>1, <1>2, <1>3, <1>4, <1>5, <1>6, <1>7 DEF Next

\* In every reachable state the table is sound: provided that no deletion meets
\* its reference a second time behind the index (DoubleHits).
THEOREM AddrInvariant ==
  ASSUME ~DoubleHits
  PROVE  Spec => []AddrInv
<1>1. Init => AddrInv
  BY InitSound
<1>2. AddrInv /\ [Next]_vars => AddrInv'
  BY EveryStep
<1> QED
  BY <1>1, <1>2, PTL DEF Spec

\* Every variable keeps its type: positions, references and both counters stay
\* within the arrays of ZG->addr.
THEOREM TypeCorrect ==
  ASSUME ~DoubleHits
  PROVE  Spec => []TypeOK
<1>1. AddrInv => TypeOK
  BY DEF AddrInv, Sound, Tables, TypeOK
<1> QED
  BY <1>1, AddrInvariant, PTL

\* The used entries and their addresses, as the properties write them.
LEMMA Views ==
  /\ Used = UsedOf(addr)
  /\ {<<addr.addr_map[r].ieee_addr, addr.addr_map[r].addr>> : r \in Used} = PairsOf(addr)
BY DEF Used, UsedOf, PairsOf, IeeeOf, ShortOf

\* Table, index, counters and both searches agree in every reachable state,
\* after any sequence of insertions, merges, moves and deletions.
THEOREM TableStaysExact ==
  ASSUME ~DoubleHits
  PROVE  Spec => []TableExact
<1>1. AddrInv => IndexExact
  <2> SUFFICES ASSUME AddrInv
               PROVE  IndexExact
    OBVIOUS
  <2> DEFINE n == addr.n_sorted_elements
  <2>1. Indexed(addr, Known(addr)) /\ n \in Nat
    BY TableParts DEF AddrInv, Sound
  <2>2. Known(addr) = {r \in Used : addr.addr_map[r].addr # NoShort}
    BY Views DEF Known, ShortOf
  <2>3. {addr.short_sorted[k] : k \in 0 .. n - 1} = Known(addr)
    BY <2>1 DEF Indexed
  <2>4. \A k \in 1 .. n - 1 : ShortAt(addr, k - 1) < ShortAt(addr, k)
    <3> TAKE k \in 1 .. n - 1
    <3>1. k - 1 \in 0 .. n - 1 /\ k \in 0 .. n - 1 /\ k - 1 < k
      BY <2>1
    <3> QED
      BY <2>1, <3>1 DEF Indexed
  <2> QED
    BY <2>2, <2>3, <2>4 DEF IndexExact
<1>2. AddrInv => SearchExact
  <2> SUFFICES ASSUME AddrInv
               PROVE  SearchExact
    OBVIOUS
  <2>1. PICK a : a = addr
    OBVIOUS
  <2>2. Sound(a) /\ Used = UsedOf(a) /\ NoRef \notin UsedOf(a)
    BY <2>1, Views, Sizes DEF AddrInv, UsedOf
  <2>3. \A s \in Shorts :
          \/ short_search(a, s) = NoRef /\ \A q \in Used : ShortOf(a, q) # s
          \/ /\ short_search(a, s) \in Used /\ ShortOf(a, short_search(a, s)) = s
             /\ short_search(a, s) # NoRef
    BY <2>2, ShortSearch
  <2>4. \A i \in Ieees :
          \/ ieee_search(a, i) = NoRef /\ \A q \in Used : IeeeOf(a, q) # i
          \/ /\ ieee_search(a, i) \in Used /\ IeeeOf(a, ieee_search(a, i)) = i
             /\ ieee_search(a, i) # NoRef
    BY <2>2, IeeeSearch
  <2> QED
    BY <2>1, <2>3, <2>4 DEF SearchExact, ShortOf, IeeeOf
<1>3. AddrInv => EntriesExact
  BY Views DEF AddrInv, Sound, Distinct, EntriesExact, ShortOf, IeeeOf
<1> QED
  BY <1>1, <1>2, <1>3, AddrInvariant, PTL DEF TableExact

\* A locked entry disappears only when its device is forgotten: the merging in
\* zb_address_update() takes no reference away from who holds it.
THEOREM LockedEntriesSurvive ==
  ASSUME ~DoubleHits
  PROVE  Spec => LockedSurvives
<1>1. AddrInv /\ [Next]_vars =>
        [\A r \in Used : addr.addr_map[r].lock_cnt > 0 /\ ~addr'.addr_map[r].used =>
                            zb_address_delete(r)]_vars
  <2> SUFFICES ASSUME AddrInv, [Next]_vars, NEW r \in Used,
                      addr.addr_map[r].lock_cnt > 0, ~addr'.addr_map[r].used
               PROVE  zb_address_delete(r)
    OBVIOUS
  <2>1. r \in Locked(addr)
    BY Views DEF Locked
  <2>2. r \notin UsedOf(addr')
    BY DEF UsedOf
  <2> QED
    BY <2>1, <2>2, EveryStep
<1> QED
  BY <1>1, AddrInvariant, PTL DEF Spec, LockedSurvives

\* The table implements the set of address pairs: every operation, with all its
\* merging and moving of entries, does to the pairs what AddrPairs says.
THEOREM PairsImplemented ==
  ASSUME ~DoubleHits
  PROVE  Spec => ImplementsPairs
<1> DEFINE view == {<<addr.addr_map[r].ieee_addr, addr.addr_map[r].addr>> : r \in Used}
<1>1. Init => PairsView!Init
  BY InitSound, Views DEF PairsView!Init
<1>2. AddrInv /\ [Next]_vars => [PairsView!Next]_view
  <2> SUFFICES ASSUME AddrInv, [Next]_vars
               PROVE  PairsView!Next \/ view' = view
    OBVIOUS
  <2>1. PICK P : P = PairsOf(addr)
    OBVIOUS
  <2>2. PICK Q : Q = PairsOf(addr')
    OBVIOUS
  <2>3. view = P /\ view' = Q
    BY <2>1, <2>2, Views DEF Used, UsedOf, PairsOf, IeeeOf, ShortOf
  <2>4. PairsStep(P, Q)
    BY <2>1, <2>2, EveryStep
  <2> HIDE DEF view
  <2>5. CASE Q = P
    BY <2>3, <2>5
  <2>6. CASE \E i \in Ieees : {p \in P : p[1] = i} = {} /\ Q = P \cup {<<i, NoShort>>}
    BY <2>3, <2>6 DEF PairsView!Next, PairsView!LearnIeee, view
  <2>7. CASE \E s \in Shorts : {p \in P : p[2] = s} = {} /\ Q = P \cup {<<NoIeee, s>>}
    BY <2>3, <2>7 DEF PairsView!Next, PairsView!LearnShort, view
  <2>8. CASE \E i \in Ieees, s \in Shorts : Q = {p \in P : ~(p[1] = i \/ p[2] = s)} \cup {<<i, s>>}
    BY <2>3, <2>8 DEF PairsView!Next, PairsView!Bind, PairsView!About, view
  <2>9. CASE \E p \in P : Q = P \ {p}
    BY <2>3, <2>9 DEF PairsView!Next, PairsView!Forget, view
  <2> QED
    BY <2>4, <2>5, <2>6, <2>7, <2>8, <2>9 DEF PairsStep
<1> QED
  BY <1>1, <1>2, AddrInvariant, PTL DEF Spec, ImplementsPairs, PairsView!Spec

-----------------------------------------------------------------------------
(* The addresses of the tree: sizes of blocks.                              *)

\* The recursion of Growth has a solution.
LEMMA GrowthExists ==
  ASSUME NEW rm \in Nat, NEW b \in Int, NEW n \in Nat
  PROVE  \E s : s = [k \in 0 .. n |-> IF k = 0 THEN 1 ELSE rm * s[k - 1] + b]
<1> DEFINE Turn(s, k) == IF k = 0 THEN 1 ELSE rm * s[k - 1] + b
<1> DEFINE Solves(s, m) == \A k \in 0 .. n : k <= m => s[k] = Turn(s, k)
<1> DEFINE Fails == {m \in Nat : ~\E s : s = [k \in 0 .. n |-> s[k]] /\ Solves(s, m)}
<1>1. 0 \notin Fails
  <2> DEFINE s0 == [k \in 0 .. n |-> 1]
  <2>1. s0 = [k \in 0 .. n |-> s0[k]] /\ Solves(s0, 0)
    OBVIOUS
  <2> QED
    BY <2>1
<1>2. ASSUME NEW m \in Nat, m \notin Fails
      PROVE  m + 1 \notin Fails
  <2>1. PICK s : s = [k \in 0 .. n |-> s[k]] /\ Solves(s, m)
    BY <1>2
  <2> DEFINE t == [k \in 0 .. n |-> IF k <= m THEN s[k] ELSE Turn(s, k)]
  <2>2. \A k \in 0 .. n : t[k] = IF k <= m THEN s[k] ELSE Turn(s, k)
    OBVIOUS
  <2>3. t = [k \in 0 .. n |-> t[k]]
    OBVIOUS
  <2> HIDE DEF t
  <2>4. ASSUME NEW k \in 0 .. n, k <= m + 1
        PROVE  t[k] = Turn(t, k)
    <3>1. t[k] = Turn(s, k)
      BY <2>1, <2>2
    <3>2. CASE k = 0
      BY <3>1, <3>2
    <3>3. CASE k # 0
      <4>1. k - 1 \in 0 .. n /\ k - 1 <= m
        BY <2>4, <3>3
      <4>2. t[k - 1] = s[k - 1]
        BY <2>2, <4>1
      <4> QED
        BY <3>1, <3>3, <4>2
    <3> QED
      BY <3>2, <3>3
  <2>5. Solves(t, m + 1)
    BY <2>4
  <2> QED
    BY <2>3, <2>5
<1>3. Fails = {}
  <2> SUFFICES ASSUME Fails # {}
               PROVE  FALSE
    OBVIOUS
  <2>1. Fails \subseteq Nat
    OBVIOUS
  <2> HIDE DEF Fails
  <2>2. PICK m \in Fails : \A k \in Fails : m <= k
    BY <2>1, LeastOf
  <2>3. m \in Nat /\ m # 0
    BY <1>1, <2>1, <2>2
  <2>4. m - 1 \in Nat /\ m - 1 \notin Fails /\ (m - 1) + 1 = m
    BY <2>2, <2>3
  <2> QED
    BY <1>2, <2>2, <2>4
<1>4. PICK s : s = [k \in 0 .. n |-> s[k]] /\ Solves(s, n)
  <2>1. n \notin Fails
    BY <1>3
  <2> QED
    BY <2>1
<1>5. \A k \in 0 .. n : s[k] = Turn(s, k)
  <2> TAKE k \in 0 .. n
  <2>1. k <= n
    OBVIOUS
  <2> QED
    BY <1>4, <2>1
<1>6. s = [k \in 0 .. n |-> Turn(s, k)]
  BY <1>4, <1>5
<1> QED
  BY <1>6

\* It is what the definition says, at every turn.
LEMMA GrowthTurns ==
  ASSUME NEW c \in Configs, NEW b \in Int
  PROVE  /\ Growth(c, b)[0] = 1
         /\ \A k \in 1 .. c.lm : Growth(c, b)[k] = c.rm * Growth(c, b)[k - 1] + b
<1>1. c.rm \in Nat \ {0} /\ c.lm \in 1 .. 15
  BY JoinAssumption
<1> DEFINE x == CHOOSE s : s = [k \in 0 .. c.lm |-> IF k = 0 THEN 1 ELSE c.rm * s[k - 1] + b]
<1>2. Growth(c, b) = x
  BY DEF Growth
<1>3. PICK r, n : r = c.rm /\ n = c.lm /\ r \in Nat /\ n \in Nat
  BY <1>1
<1>4. \E s : s = [k \in 0 .. n |-> IF k = 0 THEN 1 ELSE r * s[k - 1] + b]
  BY <1>3, GrowthExists
<1>5. x = [k \in 0 .. c.lm |-> IF k = 0 THEN 1 ELSE c.rm * x[k - 1] + b]
  BY <1>3, <1>4
<1> HIDE DEF x
<1>6. PICK f : f = x
  OBVIOUS
<1>7. \A k \in 0 .. c.lm : f[k] = IF k = 0 THEN 1 ELSE c.rm * f[k - 1] + b
  BY <1>5, <1>6
<1>8. f[0] = 1
  BY <1>7, <1>1
<1>9. \A k \in 1 .. c.lm : f[k] = c.rm * f[k - 1] + b
  BY <1>7, <1>1
<1> QED
  BY <1>2, <1>6, <1>8, <1>9

\* A claim about turns that holds at 0 and is kept by every turn.
LEMMA Turnwise ==
  ASSUME NEW n \in Nat, NEW T \in SUBSET (0 .. n), 0 \in T,
         \A k \in 1 .. n : k - 1 \in T => k \in T
  PROVE  T = 0 .. n
<1> DEFINE F == (0 .. n) \ T
<1> SUFFICES ASSUME F # {}
             PROVE  FALSE
  OBVIOUS
<1>1. F \subseteq Nat
  OBVIOUS
<1>2. PICK m \in F : \A k \in F : m <= k
  BY <1>1, LeastOf
<1>3. m \in 1 .. n /\ m - 1 \in 0 .. n
  BY <1>2
<1>4. m - 1 \in T
  BY <1>2, <1>3
<1> QED
  BY <1>2, <1>3, <1>4

\* The sizes and the powers are positive integers, and the quotient of
\* zb_nwk_daa_calc_cskip() is the size of a block.
LEMMA TurnOfSizes ==
  ASSUME NEW rm \in Nat, NEW cm \in Nat, NEW s \in Int, NEW p \in Int,
         (rm - 1) * s = cm * p - 1 - cm + rm
  PROVE  (rm - 1) * (rm * s + (1 + cm - rm)) = cm * (rm * p) - 1 - cm + rm
<1>1. rm * ((rm - 1) * s) = rm * (cm * p - 1 - cm + rm)
  OBVIOUS
<1>2. rm * ((rm - 1) * s) = (rm - 1) * (rm * s)
  OBVIOUS
<1>3. rm * (cm * p - 1 - cm + rm) = cm * (rm * p) - rm - rm * cm + rm * rm
  OBVIOUS
<1>4. (rm - 1) * (rm * s + (1 + cm - rm)) = (rm - 1) * (rm * s) + (rm - 1) * (1 + cm - rm)
  OBVIOUS
<1>5. (rm - 1) * (1 + cm - rm) = rm + rm * cm - rm * rm - 1 - cm + rm
  OBVIOUS
<1> QED
  BY <1>1, <1>2, <1>3, <1>4, <1>5

LEMMA BlockSizes ==
  ASSUME NEW c \in Configs
  PROVE  /\ \A k \in 0 .. c.lm : Blocks(c)[k] \in Nat \ {0}
         /\ Blocks(c)[0] = 1
         /\ \A k \in 1 .. c.lm : Blocks(c)[k] = c.rm * Blocks(c)[k - 1] + (1 + c.cm - c.rm)
         /\ \A depth \in 0 .. c.lm - 1 : Cskip(c, depth) = Blocks(c)[c.lm - depth - 1]
<1> DEFINE b == 1 + c.cm - c.rm
           S == Blocks(c)
           P == Growth(c, 0)
<1>1. c.rm \in Nat \ {0} /\ c.lm \in 1 .. 15 /\ c.cm \in Nat /\ b \in Int
  BY JoinAssumption
<1>2. S[0] = 1 /\ \A k \in 1 .. c.lm : S[k] = c.rm * S[k - 1] + b
  BY <1>1, GrowthTurns DEF Blocks
<1>3. P[0] = 1 /\ \A k \in 1 .. c.lm : P[k] = c.rm * P[k - 1] + 0
  BY <1>1, GrowthTurns
<1>4. PICK rm \in Nat \ {0}, cm \in Nat, n \in Nat : rm = c.rm /\ cm = c.cm /\ n = c.lm
  BY <1>1
<1>5. PICK s, p : s = S /\ p = P
  OBVIOUS
<1>6. s[0] = 1 /\ p[0] = 1
  BY <1>2, <1>3, <1>5
<1>7. \A k \in 1 .. n : s[k] = rm * s[k - 1] + (1 + cm - rm)
  BY <1>2, <1>4, <1>5
<1>8. \A k \in 1 .. n : p[k] = rm * p[k - 1] + 0
  BY <1>3, <1>4, <1>5
<1> DEFINE T == {k \in 0 .. n : /\ s[k] \in Nat \ {0} /\ p[k] \in Nat
                                /\ (rm - 1) * s[k] = cm * p[k] - 1 - cm + rm
                                /\ rm = 1 => s[k] = 1 + cm * k}
<1>9. 0 \in T
  BY <1>6
<1>10. ASSUME NEW k \in 1 .. n, k - 1 \in T
       PROVE  k \in T
  <2>1. PICK x \in Nat \ {0}, y \in Nat : x = s[k - 1] /\ y = p[k - 1]
    BY <1>10
  <2>2. s[k] = rm * x + (1 + cm - rm) /\ p[k] = rm * y + 0
    BY <1>7, <1>8, <2>1
  <2>3. (rm - 1) * x = cm * y - 1 - cm + rm
    BY <1>10, <2>1
  <2>4. (rm - 1) * (rm * x + (1 + cm - rm)) = cm * (rm * y) - 1 - cm + rm
    BY <2>3, TurnOfSizes
  <2>5. rm * y \in Nat /\ rm * x \in Nat /\ rm * x >= rm
    BY <2>1
  <2>6. rm * x + (1 + cm - rm) \in Nat \ {0}
    BY <2>5
  <2>7. ASSUME rm = 1
        PROVE  s[k] = 1 + cm * k
    <3>1. x = 1 + cm * (k - 1)
      BY <1>10, <2>1, <2>7
    <3>2. cm * (k - 1) = cm * k - cm
      OBVIOUS
    <3> QED
      BY <2>2, <2>7, <3>1, <3>2
  <2> QED
    BY <2>2, <2>4, <2>5, <2>6, <2>7
<1>11. T = 0 .. n
  <2>1. T \in SUBSET (0 .. n)
    OBVIOUS
  <2> HIDE DEF T
  <2> QED
    BY <1>9, <1>10, <2>1, Turnwise
<1>12. \A k \in 0 .. n : s[k] \in Nat \ {0}
  BY <1>11
<1>13. ASSUME NEW depth \in 0 .. n - 1
       PROVE  Cskip(c, depth) = s[n - depth - 1]
  <2>1. PICK k \in 0 .. n : k = n - depth - 1
    OBVIOUS
  <2>2. /\ s[k] \in Nat \ {0} /\ p[k] \in Nat
        /\ (rm - 1) * s[k] = cm * p[k] - 1 - cm + rm
        /\ rm = 1 => s[k] = 1 + cm * k
    BY <1>11
  <2>3. CASE rm = 1
    BY <2>1, <2>2, <2>3, <1>4 DEF Cskip
  <2>4. CASE rm # 1
    <3>1. Cskip(c, depth) = (cm * p[k] - 1 - cm + rm) \div (rm - 1)
      BY <2>1, <2>4, <1>4, <1>5 DEF Cskip
    <3>2. rm - 1 \in Nat \ {0}
      BY <2>4
    <3>3. PICK x \in Nat, d \in Nat \ {0}, m \in Int :
            x = s[k] /\ d = rm - 1 /\ m = cm * p[k] - 1 - cm + rm
      <4>1. cm * p[k] \in Nat
        BY <2>2
      <4>2. cm * p[k] - 1 - cm + rm \in Int
        BY <4>1
      <4> QED
        BY <2>2, <3>2, <4>2
    <3>4. m = d * x
      BY <3>3, <2>2
    <3>5. m \div d = x
      BY <3>4
    <3> QED
      BY <3>1, <3>3, <3>5, <2>1
  <2> QED
    BY <2>3, <2>4
<1> QED
  BY <1>2, <1>4, <1>5, <1>12, <1>13
-----------------------------------------------------------------------------
(* The invariant of the join: what holds whoever leaves and joins again.    *)

Addrs == Nat \cup {NoAddr}
Rels == {"absent", "none", "parent", "child", "sibling", "previous"}
Selves == [joined : BOOLEAN, router : BOOLEAN, addr : Addrs, depth : Nat, cskip : Int,
           rnum : Nat, ednum : Nat, started : BOOLEAN, permit : BOOLEAN]
Entries == [addr : Addrs, router : BOOLEAN, rel : Rels]
Responses == [dev : Devices \ {Coord}, addr : Addrs, router : BOOLEAN]
Attempts == [st : {"idle", "send", "wait"}, par : Devices, router : BOOLEAN]
Beacons == [addr : Addrs, depth : Nat, open : BOOLEAN, potential : BOOLEAN]

NwkTypes == nib \in Configs /\ nwk \in [Devices -> Selves]
TableTypes == nbt \in [Devices -> [Devices -> Entries]] /\ used \in [Devices -> Nat]
QueueTypes == pendq \in [Devices -> Seq(Responses)]
AttemptTypes == join \in [Devices -> Attempts] /\ seen \in [Devices -> [Devices -> Beacons]]

\* What a device knows of itself.
SelfSound(w) ==
    /\ w.joined <=> w.addr # NoAddr
    /\ w.started => w.joined /\ w.router
    /\ w.depth <= nib.lm /\ w.cskip = Cskip(nib, w.depth)
    /\ w.rnum <= nib.rm /\ w.rnum + w.ednum <= nib.cm
    /\ w.started /\ w.permit => w.depth < nib.lm

SelvesSound == \A d \in Devices : SelfSound(nwk[d])

\* The places taken in a neighbor table; entries and their addresses.
Taken(t) == {e \in Devices : t[e].rel # "absent"}
TablesSound ==
    \A d \in Devices :
      /\ Cardinality(Taken(nbt[d])) <= used[d] /\ used[d] < ZB_NEIGHBOR_TABLE_SIZE
      /\ \A e \in Devices : nbt[d][e].rel = "absent" <=> nbt[d][e].addr = NoAddr

QueuesFit == \A d \in Devices : Len(pendq[d]) <= ZB_MAC_PENDING_QUEUE_SIZE

\* A device that asks has not joined, and asks one whose beacon was open.
BeaconSound(b) == b.open => b.depth < nib.lm /\ b.addr # NoAddr
AttemptSound(d) ==
    /\ \A p \in Devices : BeaconSound(seen[d][p])
    /\ seen[d][d].addr = NoAddr
    /\ join[d].st # "idle" => ~nwk[d].joined /\ seen[d][join[d].par].open
AttemptsSound == \A d \in Devices : AttemptSound(d)

JoinTyped == NwkTypes /\ TableTypes /\ QueueTypes /\ AttemptTypes
JoinInv == JoinTyped /\ SelvesSound /\ TablesSound /\ QueuesFit /\ AttemptsSound

\* The limits of the tree.
LEMMA Limits ==
  ASSUME NwkTypes
  PROVE  /\ nib.rm \in Nat \ {0} /\ nib.lm \in Nat \ {0} /\ nib.cm \in Nat
         /\ \A k \in 0 .. nib.lm : Blocks(nib)[k] \in Nat \ {0}
         /\ \A depth \in 0 .. nib.lm - 1 :
              /\ Cskip(nib, depth) = Blocks(nib)[nib.lm - depth - 1]
              /\ Cskip(nib, depth) \in Nat \ {0}
  BY JoinAssumption, BlockSizes DEF NwkTypes

\* zb_nwk_daa_calc_cskip() gives a number at every depth.
LEMMA CskipNumber ==
  ASSUME NwkTypes, NEW depth \in Nat
  PROVE  Cskip(nib, depth) \in Int
<1>1. nib.rm \in Nat \ {0} /\ nib.lm \in Nat \ {0} /\ nib.cm \in Nat
  BY Limits
<1> DEFINE k == IF depth < nib.lm THEN nib.lm - depth - 1 ELSE 0
<1>2. k \in 0 .. nib.lm
  BY <1>1
<1>3. CASE nib.rm = 1
  BY <1>1, <1>3 DEF Cskip
<1>4. CASE nib.rm # 1
  <2>1. depth < nib.lm => Cskip(nib, depth) \in Int
    BY <1>1, Limits
  <2>2. ASSUME ~(depth < nib.lm)
        PROVE  Cskip(nib, depth) \in Int
    <3>1. Growth(nib, 0)[0] = 1
      BY GrowthTurns DEF NwkTypes
    <3>2. Cskip(nib, depth) = (nib.cm * 1 - 1 - nib.cm + nib.rm) \div (nib.rm - 1)
      BY <1>4, <2>2, <3>1 DEF Cskip
    <3>3. PICK c \in Nat, r \in Nat \ {0} : c = nib.cm /\ r = nib.rm - 1
      BY <1>1, <1>4
    <3>4. nib.cm * 1 - 1 - nib.cm + nib.rm = r
      BY <1>1, <3>3
    <3>5. r \div r \in Int
      OBVIOUS
    <3> QED
      BY <3>2, <3>3, <3>4, <3>5
  <2> QED
    BY <2>1, <2>2
<1> QED
  BY <1>3, <1>4

LEMMA JoinInitSound ==
  JoinInit => JoinInv
<1> SUFFICES ASSUME JoinInit
             PROVE  JoinInv
  OBVIOUS
<1>1. nib \in Configs /\ nib.cm \in Nat /\ nib.rm \in Nat \ {0} /\ nib.lm \in 1 .. 15
  BY JoinAssumption DEF JoinInit
<1>2. NwkTypes
  <2>1. nwk \in [Devices -> [joined : BOOLEAN, router : BOOLEAN, addr : Addrs, depth : Nat, cskip : {Cskip(nib, 0)},
           rnum : Nat, ednum : Nat, started : BOOLEAN, permit : BOOLEAN]]
    BY DEF JoinInit, Addrs
  <2>2. Cskip(nib, 0) \in Int
    BY <1>1, BlockSizes
  <2> QED
    BY <1>1, <2>1, <2>2 DEF NwkTypes, Selves
<1>3. TableTypes
  BY DEF JoinInit, TableTypes, Entries, Absent, Addrs, Rels
<1>4. QueueTypes /\ QueuesFit
  BY JoinAssumption DEF JoinInit, QueueTypes, QueuesFit
<1>5. AttemptTypes
  BY JoinAssumption DEF JoinInit, AttemptTypes, Attempts, Beacons, NoJoin, NoBeacons, NotSeen, Addrs
<1>6. SelvesSound
  <2> SUFFICES ASSUME NEW d \in Devices
               PROVE  SelfSound(nwk[d])
    BY DEF SelvesSound
  <2>1. /\ nwk[d].joined = (d = Coord) /\ nwk[d].started = (d = Coord)
        /\ nwk[d].addr = (IF d = Coord THEN 0 ELSE NoAddr)
        /\ nwk[d].router = (d \in RouterCap \cup {Coord})
        /\ nwk[d].depth = 0 /\ nwk[d].cskip = Cskip(nib, 0) /\ nwk[d].rnum = 0 /\ nwk[d].ednum = 0
    BY DEF JoinInit
  <2>2. /\ nwk[d].depth <= nib.lm /\ nwk[d].depth < nib.lm
        /\ nwk[d].rnum <= nib.rm /\ nwk[d].rnum + nwk[d].ednum <= nib.cm
    BY <1>1, <2>1
  <2>3. nwk[d].cskip = Cskip(nib, nwk[d].depth)
    BY <2>1
  <2>4. nwk[d].joined <=> nwk[d].addr # NoAddr
    <3>1. 0 # NoAddr
      BY DEF NoAddr
    <3>2. CASE d = Coord
      BY <2>1, <3>1, <3>2
    <3>3. CASE d # Coord
      BY <2>1, <3>3
    <3> QED
      BY <3>2, <3>3
  <2>5. nwk[d].started => nwk[d].joined /\ nwk[d].router
    BY <2>1
  <2> QED
    BY <2>2, <2>3, <2>4, <2>5 DEF SelfSound
<1>7. TablesSound
  <2> SUFFICES ASSUME NEW d \in Devices
               PROVE  /\ Cardinality(Taken(nbt[d])) <= used[d] /\ used[d] < ZB_NEIGHBOR_TABLE_SIZE
                      /\ \A e \in Devices : nbt[d][e].rel = "absent" <=> nbt[d][e].addr = NoAddr
    BY DEF TablesSound
  <2>1. Taken(nbt[d]) = {}
    BY DEF JoinInit, Taken, Absent
  <2>2. Cardinality({}) = 0
    BY FS_EmptySet
  <2>3. used[d] = 0 /\ \A e \in Devices : nbt[d][e] = Absent
    BY DEF JoinInit
  <2>4. ZB_NEIGHBOR_TABLE_SIZE \in Nat \ {0} /\ Absent.rel = "absent" /\ Absent.addr = NoAddr
    BY JoinAssumption DEF Absent
  <2> QED
    BY <2>1, <2>2, <2>3, <2>4
<1>8. AttemptsSound
  BY DEF JoinInit, AttemptsSound, AttemptSound, BeaconSound, NoJoin, NoBeacons, NotSeen
<1> QED
  BY <1>2, <1>3, <1>4, <1>5, <1>6, <1>7, <1>8 DEF JoinInv, JoinTyped

\* What the neighbor table has room for, before and after an entry of one device.
LEMMA TakenCounts ==
  ASSUME NEW t, NEW u, NEW d \in Devices,
         \A e \in Devices \ {d} : u[e].rel # "absent" => t[e].rel # "absent"
  PROVE  /\ Cardinality(Taken(t)) \in Nat /\ Cardinality(Taken(u)) \in Nat
         /\ Cardinality(Taken(u)) <= Cardinality(Taken(t)) + 1
         /\ (u[d].rel # "absent" => t[d].rel # "absent")
              => Cardinality(Taken(u)) <= Cardinality(Taken(t))
<1>1. IsFiniteSet(Devices) /\ Taken(t) \subseteq Devices /\ Taken(u) \subseteq Devices
  BY JoinAssumption DEF Taken
<1>2. IsFiniteSet(Taken(t)) /\ IsFiniteSet(Taken(u))
  BY <1>1, FS_Subset
<1>3. Cardinality(Taken(t)) \in Nat /\ Cardinality(Taken(u)) \in Nat
  BY <1>2, FS_CardinalityType
<1>4. IsFiniteSet(Taken(t) \cup {d}) /\ Cardinality(Taken(t) \cup {d}) <= Cardinality(Taken(t)) + 1
  <2>1. Cardinality(Taken(t) \cup {d}) =
          IF d \in Taken(t) THEN Cardinality(Taken(t)) ELSE Cardinality(Taken(t)) + 1
    BY <1>2, FS_AddElement
  <2>2. IsFiniteSet(Taken(t) \cup {d})
    BY <1>2, FS_AddElement
  <2> QED
    BY <2>1, <2>2, <1>3
<1>5. Taken(u) \subseteq Taken(t) \cup {d}
  BY DEF Taken
<1>6. Cardinality(Taken(u)) <= Cardinality(Taken(t) \cup {d})
  BY <1>4, <1>5, FS_Subset
<1>7. Cardinality(Taken(t) \cup {d}) \in Nat
  BY <1>4, FS_CardinalityType
<1>8. ASSUME u[d].rel # "absent" => t[d].rel # "absent"
      PROVE  Cardinality(Taken(u)) <= Cardinality(Taken(t))
  <2>1. Taken(u) \subseteq Taken(t)
    BY <1>8 DEF Taken
  <2> QED
    BY <2>1, <1>2, FS_Subset
<1> QED
  BY <1>3, <1>4, <1>6, <1>7, <1>8

-----------------------------------------------------------------------------
(* The handlers, one change at a time.                                      *)

\* One entry of a neighbor table is written or deleted.
Writes(p, d, x) == nbt' = [nbt EXCEPT ![p] = [nbt[p] EXCEPT ![d] = x]]

\* A new entry takes one place at least, and there is one.
Enters(p, d, x, u) ==
    /\ Writes(p, d, x) /\ used' = [used EXCEPT ![p] = u]
    /\ x.rel = "absent" <=> x.addr = NoAddr
    /\ used[p] <= u /\ u < ZB_NEIGHBOR_TABLE_SIZE
    /\ nbt[p][d].rel = "absent" /\ x.rel # "absent" => used[p] < u

LEMMA EntryWritten ==
  ASSUME TableTypes, TablesSound, NEW p \in Devices, NEW d \in Devices, NEW x \in Entries,
         NEW u \in Nat, Enters(p, d, x, u)
  PROVE  /\ TableTypes' /\ TablesSound'
         /\ \A q \in Devices, e \in Devices :
              nbt'[q][e] = IF q = p /\ e = d THEN x ELSE nbt[q][e]
<1>1. nbt[p] \in [Devices -> Entries] /\ used \in [Devices -> Nat]
  BY DEF TableTypes
<1>0. /\ Writes(p, d, x) /\ used' = [used EXCEPT ![p] = u]
      /\ x.rel = "absent" <=> x.addr = NoAddr
      /\ used[p] <= u /\ u < ZB_NEIGHBOR_TABLE_SIZE
      /\ nbt[p][d].rel = "absent" /\ x.rel # "absent" => used[p] < u
  BY DEF Enters
<1> DEFINE t == [nbt[p] EXCEPT ![d] = x]
<1>2. t \in [Devices -> Entries] /\ t[d] = x /\ \A e \in Devices \ {d} : t[e] = nbt[p][e]
  BY <1>1
<1>3. nbt'[p] = t /\ \A q \in Devices \ {p} : nbt'[q] = nbt[q]
  BY <1>0 DEF Writes, TableTypes
<1>4. TableTypes'
  <2> HIDE DEF t
  <2>1. nbt' = [nbt EXCEPT ![p] = t]
    BY <1>0 DEF Writes, t
  <2> QED
    BY <1>0, <1>2, <2>1 DEF TableTypes
<1> HIDE DEF t
<1>5. \A q \in Devices, e \in Devices : nbt'[q][e] = IF q = p /\ e = d THEN x ELSE nbt[q][e]
  BY <1>2, <1>3
<1>6. TablesSound'
  <2> SUFFICES ASSUME NEW q \in Devices
               PROVE  /\ Cardinality(Taken(nbt'[q])) <= used'[q] /\ used'[q] < ZB_NEIGHBOR_TABLE_SIZE
                      /\ \A e \in Devices : nbt'[q][e].rel = "absent" <=> nbt'[q][e].addr = NoAddr
    BY DEF TablesSound, Taken
  <2>1. CASE q = p
    <3>1. used'[q] = u
      BY <2>1, <1>0, <1>1
    <3>2. \A e \in Devices : nbt'[q][e].rel = "absent" <=> nbt'[q][e].addr = NoAddr
      BY <1>0, <1>5 DEF TablesSound
    <3>3. /\ Cardinality(Taken(nbt[p])) \in Nat /\ Cardinality(Taken(t)) \in Nat
          /\ Cardinality(Taken(t)) <= Cardinality(Taken(nbt[p])) + 1
          /\ (t[d].rel # "absent" => nbt[p][d].rel # "absent")
               => Cardinality(Taken(t)) <= Cardinality(Taken(nbt[p]))
      BY <1>2, TakenCounts
    <3>4. Cardinality(Taken(nbt[p])) <= used[p] /\ used[p] \in Nat
      BY <1>1 DEF TablesSound
    <3>5. Cardinality(Taken(t)) <= u
      BY <3>3, <3>4, <1>0, <1>2
    <3> QED
      BY <3>1, <3>2, <3>5, <2>1, <1>0, <1>3
  <2>2. CASE q # p
    BY <2>2, <1>0, <1>1, <1>3 DEF TablesSound
  <2> QED
    BY <2>1, <2>2
<1> QED
  BY <1>4, <1>5, <1>6

\* A response leaves the queue.
LEMMA ResponseRemoved ==
  ASSUME NEW s \in Seq(Responses), NEW i \in 1 .. Len(s)
  PROVE  /\ RemoveAt(s, i) \in Seq(Responses) /\ Len(RemoveAt(s, i)) = Len(s) - 1
         /\ \A k \in 1 .. Len(RemoveAt(s, i)) : \E j \in 1 .. Len(s) : RemoveAt(s, i)[k] = s[j]
<1> DEFINE a == SubSeq(s, 1, i - 1)
           b == SubSeq(s, i + 1, Len(s))
<1>1. a \in Seq(Responses) /\ Len(a) = i - 1 /\ \A k \in 1 .. i - 1 : a[k] = s[k]
  OBVIOUS
<1>2. b \in Seq(Responses) /\ Len(b) = Len(s) - i /\ \A k \in 1 .. Len(s) - i : b[k] = s[k + i]
  OBVIOUS
<1>3. RemoveAt(s, i) = a \o b
  BY DEF RemoveAt
<1> HIDE DEF a, b
<1>4. /\ a \o b \in Seq(Responses) /\ Len(a \o b) = Len(s) - 1
      /\ \A k \in 1 .. i - 1 : (a \o b)[k] = s[k]
      /\ \A k \in i .. Len(s) - 1 : (a \o b)[k] = s[k + 1]
  <2>1. a \o b \in Seq(Responses) /\ Len(a \o b) = Len(s) - 1
    <3>1. Len(a \o b) = Len(a) + Len(b) /\ a \o b \in Seq(Responses)
      BY <1>1, <1>2, ConcatProperties
    <3>2. Len(s) \in Nat
      OBVIOUS
    <3> QED
      BY <3>1, <3>2, <1>1, <1>2
  <2>2. \A k \in 1 .. i - 1 : (a \o b)[k] = s[k]
    BY <1>1, <1>2
  <2>3. ASSUME NEW k \in i .. Len(s) - 1
        PROVE  (a \o b)[k] = s[k + 1]
    <3>1. (a \o b)[k] = b[k - (i - 1)]
      BY <1>1, <1>2
    <3>2. k - (i - 1) \in 1 .. Len(s) - i
      OBVIOUS
    <3>3. b[k - (i - 1)] = s[(k - (i - 1)) + i]
      BY <3>2, <1>2
    <3>4. (k - (i - 1)) + i = k + 1
      OBVIOUS
    <3> QED
      BY <3>1, <3>3, <3>4
  <2> QED
    BY <2>1, <2>2, <2>3
<1>5. ASSUME NEW k \in 1 .. Len(s) - 1
      PROVE  \E j \in 1 .. Len(s) : (a \o b)[k] = s[j]
  <2>1. CASE k < i
    BY <2>1, <1>4
  <2>2. CASE ~(k < i)
    BY <2>2, <1>4
  <2> QED
    BY <2>1, <2>2
<1> QED
  BY <1>3, <1>4, <1>5

\* The response i leaves the queue of p.
Removes(p, i) == pendq' = [pendq EXCEPT ![p] = RemoveAt(pendq[p], i)]

LEMMA QueueShrinks ==
  ASSUME QueueTypes, QueuesFit, NEW p \in Devices, NEW i \in DOMAIN pendq[p], Removes(p, i)
  PROVE  /\ QueueTypes' /\ QueuesFit'
         /\ pendq[p][i] \in Responses
         /\ \A q \in Devices : \A k \in DOMAIN pendq'[q] : \E j \in DOMAIN pendq[q] :
              pendq'[q][k] = pendq[q][j]
<1>1. pendq[p] \in Seq(Responses) /\ i \in 1 .. Len(pendq[p])
  BY DEF QueueTypes
<1>2. PICK s : s = RemoveAt(pendq[p], i)
  OBVIOUS
<1>3. /\ s \in Seq(Responses) /\ Len(s) = Len(pendq[p]) - 1
      /\ \A k \in 1 .. Len(s) : \E j \in 1 .. Len(pendq[p]) : s[k] = pendq[p][j]
  BY <1>1, <1>2, ResponseRemoved
<1>4. pendq' = [pendq EXCEPT ![p] = s]
  BY <1>2 DEF Removes
<1>5. pendq'[p] = s /\ \A q \in Devices \ {p} : pendq'[q] = pendq[q]
  BY <1>4 DEF QueueTypes
<1>6. QueueTypes'
  BY <1>3, <1>4 DEF QueueTypes
<1>7. QueuesFit'
  <2> SUFFICES ASSUME NEW q \in Devices
               PROVE  Len(pendq'[q]) <= ZB_MAC_PENDING_QUEUE_SIZE
    BY DEF QueuesFit
  <2>1. Len(pendq[p]) <= ZB_MAC_PENDING_QUEUE_SIZE /\ Len(pendq[p]) \in Nat
        /\ ZB_MAC_PENDING_QUEUE_SIZE \in Nat
    BY <1>1, JoinAssumption DEF QueuesFit
  <2> QED
    BY <2>1, <1>3, <1>5 DEF QueuesFit
<1>8. \A q \in Devices : \A k \in DOMAIN pendq'[q] : \E j \in DOMAIN pendq[q] :
        pendq'[q][k] = pendq[q][j]
  <2> TAKE q \in Devices
  <2>1. CASE q = p
    BY <2>1, <1>1, <1>3, <1>5
  <2>2. CASE q # p
    BY <2>2, <1>5
  <2> QED
    BY <2>1, <2>2
<1>9. pendq[p][i] \in Responses
  BY <1>1
<1> QED
  BY <1>6, <1>7, <1>8, <1>9

-----------------------------------------------------------------------------
(* The request of a child at its parent.                                    *)

\* Only counts and the permission to join change.
KeepsSelf(w, v) ==
    /\ v.joined = w.joined /\ v.router = w.router /\ v.addr = w.addr
    /\ v.depth = w.depth /\ v.cskip = w.cskip /\ v.started = w.started

\* One more child of this kind.
OneMore(w, v, router) ==
    /\ v.rnum = w.rnum + (IF router THEN 1 ELSE 0)
    /\ v.ednum = w.ednum + (IF router THEN 0 ELSE 1)

LEMMA ClosedKeeps ==
  ASSUME NwkTypes, NEW w \in Selves, SelfSound(w)
  PROVE  /\ Closed(w) \in Selves /\ SelfSound(Closed(w)) /\ KeepsSelf(w, Closed(w))
         /\ Closed(w).rnum = w.rnum /\ Closed(w).ednum = w.ednum
<1> DEFINE v == Closed(w)
<1>1. v \in Selves
  BY DEF Closed, Selves
<1>2. KeepsSelf(w, v) /\ v.rnum = w.rnum /\ v.ednum = w.ednum
  BY DEF Closed, KeepsSelf, Selves
<1>3. v.permit => w.permit
  BY DEF Closed, Selves
<1> HIDE DEF v
<1>4. SelfSound(v)
  BY <1>2, <1>3 DEF SelfSound, KeepsSelf
<1> QED
  BY <1>1, <1>2, <1>4 DEF v

LEMMA CountedChild ==
  ASSUME NwkTypes, NEW w \in Selves, SelfSound(w), NEW router \in BOOLEAN, HasRoom(w, router)
  PROVE  /\ CountChild(w, router) \in Selves /\ SelfSound(CountChild(w, router))
         /\ KeepsSelf(w, CountChild(w, router)) /\ OneMore(w, CountChild(w, router), router)
         /\ CountChild(w, router).permit = w.permit
<1> DEFINE v == CountChild(w, router)
<1>1. v \in Selves
  BY DEF CountChild, Selves
<1>2. KeepsSelf(w, v) /\ v.permit = w.permit
  BY DEF CountChild, KeepsSelf, Selves
<1>3. OneMore(w, v, router)
  BY DEF CountChild, OneMore, Selves
<1> HIDE DEF v
<1>4. w.rnum \in Nat /\ w.ednum \in Nat /\ w.depth \in Nat
  BY DEF Selves
<1>5. v.rnum <= nib.rm /\ v.rnum + v.ednum <= nib.cm
  BY <1>3, <1>4, Limits DEF OneMore, HasRoom, SelfSound
<1>6. SelfSound(v)
  BY <1>2, <1>5 DEF SelfSound, KeepsSelf
<1> QED
  BY <1>1, <1>2, <1>3, <1>6 DEF v

\* The address that ZB_NWK_ROUTER_ADDRESS_ASSIGN() or ZB_NWK_ED_ADDRESS_ASSIGN() gives.
LEMMA AssignedNumber ==
  ASSUME NwkTypes, NEW w \in Selves, SelfSound(w), w.started, w.depth < nib.lm,
         NEW router \in BOOLEAN
  PROVE  Assigned(w, router) \in Nat
<1>1. w.addr \in Nat /\ w.rnum \in Nat /\ w.ednum \in Nat
  BY DEF Selves, SelfSound, Addrs
<1>2. w.cskip \in Nat \ {0} /\ nib.rm \in Nat
  <2>1. w.depth \in 0 .. nib.lm - 1
    BY Limits DEF Selves
  <2> QED
    BY <2>1, Limits DEF SelfSound
<1>3. w.rnum * w.cskip \in Nat /\ nib.rm * w.cskip \in Nat
  BY <1>1, <1>2
<1> QED
  BY <1>1, <1>3 DEF Assigned

\* zb_nwk_accept_child(): an address that was known, a new one, or none.
Refound(p, d, router, acc) ==
    /\ nbt[p][d].rel # "absent" /\ nbt[p][d].router = router /\ acc.addr = nbt[p][d].addr
    /\ acc.new = 0 /\ acc.w.rnum = nwk[p].rnum /\ acc.w.ednum = nwk[p].ednum
Placed(p, d, router, acc) ==
    /\ HasRoom(nwk[p], router) /\ ~TableFull(p) /\ acc.addr = Assigned(nwk[p], router)
    /\ acc.new = 1 /\ OneMore(nwk[p], acc.w, router)
Refused(p, acc) ==
    /\ acc.addr = NoAddr /\ acc.new = 0
    /\ acc.w.rnum >= nwk[p].rnum /\ acc.w.ednum >= nwk[p].ednum
    /\ acc.w.rnum + acc.w.ednum > nwk[p].rnum + nwk[p].ednum => nwk[p].depth < nib.lm

LEMMA AcceptCases ==
  ASSUME JoinInv, NEW p \in Devices, NEW d \in Devices, NEW router \in BOOLEAN, nwk[p].started,
         NEW acc, acc = AcceptChild(p, d, router)
  PROVE  /\ acc.w \in Selves /\ SelfSound(acc.w) /\ KeepsSelf(nwk[p], acc.w) /\ acc.addr \in Addrs
         /\ Refound(p, d, router, acc) \/ Placed(p, d, router, acc) \/ Refused(p, acc)
<1> DEFINE w == nwk[p]
           known == nbt[p][d]
           same == known.rel # "absent" /\ known.router = router
           fits == HasRoom(w, router)
           ok == fits /\ ~TableFull(p)
<1>1. NwkTypes /\ w \in Selves /\ SelfSound(w) /\ known \in Entries
  BY DEF JoinInv, JoinTyped, NwkTypes, TableTypes, SelvesSound
<1>2. w.rnum \in Nat /\ w.ednum \in Nat
  BY <1>1 DEF Selves
<1>3. CASE same
  <2>1. acc = [addr |-> known.addr, w |-> Closed(w), new |-> 0]
    BY <1>3 DEF AcceptChild
  <2>2. acc.w = Closed(w) /\ acc.addr = known.addr /\ acc.new = 0
    BY <2>1
  <2>3. acc.addr \in Addrs
    BY <2>2, <1>1 DEF Entries
  <2> QED
    BY <2>2, <2>3, <1>1, <1>3, ClosedKeeps DEF Refound
<1>4. CASE ~same /\ fits
  <2> DEFINE v == CountChild(w, router)
  <2>1. acc = [addr |-> IF ok THEN Assigned(w, router) ELSE NoAddr, w |-> Closed(v),
               new |-> IF ok THEN 1 ELSE 0]
    BY <1>4 DEF AcceptChild
  <2>2. /\ acc.w = Closed(v) /\ acc.addr = (IF ok THEN Assigned(w, router) ELSE NoAddr)
        /\ acc.new = (IF ok THEN 1 ELSE 0)
    BY <2>1
  <2>3. /\ v \in Selves /\ SelfSound(v) /\ KeepsSelf(w, v) /\ OneMore(w, v, router)
    BY <1>1, <1>4, CountedChild
  <2> HIDE DEF v
  <2>4. /\ acc.w \in Selves /\ SelfSound(acc.w) /\ KeepsSelf(v, acc.w)
        /\ acc.w.rnum = v.rnum /\ acc.w.ednum = v.ednum
    BY <2>2, <2>3, <1>1, ClosedKeeps
  <2>5. KeepsSelf(w, acc.w) /\ OneMore(w, acc.w, router)
    BY <2>3, <2>4 DEF KeepsSelf, OneMore
  <2>6. w.depth < nib.lm
    BY <1>4 DEF HasRoom
  <2>7. CASE ok
    <3>1. acc.addr = Assigned(w, router) /\ acc.new = 1 /\ Assigned(w, router) \in Nat
      BY <2>2, <2>6, <2>7, <1>1, AssignedNumber
    <3> QED
      BY <3>1, <2>4, <2>5, <2>7 DEF Placed, Addrs
  <2>8. CASE ~ok
    <3>1. acc.addr = NoAddr /\ acc.new = 0
      BY <2>2, <2>8
    <3>2. acc.w.rnum >= w.rnum /\ acc.w.ednum >= w.ednum
      BY <2>5, <1>2 DEF OneMore
    <3> QED
      BY <3>1, <3>2, <2>4, <2>5, <2>6 DEF Refused, Addrs
  <2> QED
    BY <2>7, <2>8
<1>5. CASE ~same /\ ~fits
  <2>1. acc = [addr |-> NoAddr, w |-> Closed(w), new |-> 0]
    BY <1>5 DEF AcceptChild
  <2>2. acc.w = Closed(w) /\ acc.addr = NoAddr /\ acc.new = 0
    BY <2>1
  <2>3. /\ acc.w \in Selves /\ SelfSound(acc.w) /\ KeepsSelf(w, acc.w)
        /\ acc.w.rnum = w.rnum /\ acc.w.ednum = w.ednum
    BY <2>2, <1>1, ClosedKeeps
  <2>4. Refused(p, acc)
    BY <2>2, <2>3, <1>2 DEF Refused
  <2> QED
    BY <2>2, <2>3, <2>4 DEF Addrs
<1> QED
  BY <1>3, <1>4, <1>5

\* What the request of d leaves at its parent p: counts, an entry and a response.
Associates(p, d, router, acc) ==
    /\ nwk[p].started /\ ~nwk[d].joined
    /\ acc.w \in Selves /\ KeepsSelf(nwk[p], acc.w) /\ acc.addr \in Addrs
    /\ Refound(p, d, router, acc) \/ Placed(p, d, router, acc) \/ Refused(p, acc)
    /\ nwk'[p] = acc.w /\ \A e \in Devices \ {p} : nwk'[e] = nwk[e]
    /\ \A q \in Devices, e \in Devices :
         \/ nbt'[q][e] = nbt[q][e]
         \/ nbt'[q][e] = Absent
         \/ /\ q = p /\ e = d /\ acc.addr # NoAddr
            /\ nbt'[q][e] = [addr |-> acc.addr, router |-> router, rel |-> "child"]
    /\ \A q \in Devices : \A k \in DOMAIN pendq'[q] :
         \/ \E j \in DOMAIN pendq[q] : pendq'[q][k] = pendq[q][j]
         \/ q = p /\ pendq'[q][k] = [dev |-> d, addr |-> acc.addr, router |-> router]
    /\ nib' = nib /\ seen' = seen
    /\ \A e \in Devices : join'[e].st # "idle" =>
         join[e].st # "idle" /\ join'[e].router = join[e].router

LEMMA AppendedResponse ==
  ASSUME QueueTypes, QueuesFit, NEW p \in Devices, NEW r \in Responses,
         Len(pendq[p]) # ZB_MAC_PENDING_QUEUE_SIZE,
         pendq' = [pendq EXCEPT ![p] = Append(pendq[p], r)]
  PROVE  /\ QueueTypes' /\ QueuesFit'
         /\ \A q \in Devices : \A k \in DOMAIN pendq'[q] :
              \/ \E j \in DOMAIN pendq[q] : pendq'[q][k] = pendq[q][j]
              \/ q = p /\ pendq'[q][k] = r
<1>1. pendq[p] \in Seq(Responses) /\ Len(pendq[p]) \in Nat
      /\ Len(pendq[p]) <= ZB_MAC_PENDING_QUEUE_SIZE /\ ZB_MAC_PENDING_QUEUE_SIZE \in Nat
  BY JoinAssumption DEF QueueTypes, QueuesFit
<1>2. PICK s : s = Append(pendq[p], r)
  OBVIOUS
<1>3. /\ s \in Seq(Responses) /\ Len(s) = Len(pendq[p]) + 1 /\ s[Len(pendq[p]) + 1] = r
      /\ \A k \in 1 .. Len(pendq[p]) : s[k] = pendq[p][k]
  BY <1>1, <1>2, AppendProperties
<1>4. pendq' = [pendq EXCEPT ![p] = s]
  BY <1>2
<1>5. pendq'[p] = s /\ \A q \in Devices \ {p} : pendq'[q] = pendq[q]
  BY <1>4 DEF QueueTypes
<1>6. QueueTypes'
  BY <1>3, <1>4 DEF QueueTypes
<1>7. QueuesFit'
  BY <1>1, <1>3, <1>5 DEF QueuesFit
<1>8. ASSUME NEW q \in Devices, NEW k \in DOMAIN pendq'[q]
      PROVE  \/ \E j \in DOMAIN pendq[q] : pendq'[q][k] = pendq[q][j]
             \/ q = p /\ pendq'[q][k] = r
  <2>1. CASE q = p
    <3>1. k \in 1 .. Len(pendq[p]) + 1
      BY <2>1, <1>3, <1>5
    <3>2. CASE k = Len(pendq[p]) + 1
      BY <3>2, <2>1, <1>3, <1>5
    <3>3. CASE k # Len(pendq[p]) + 1
      <4>1. k \in 1 .. Len(pendq[p])
        BY <3>1, <3>3, <1>1
      <4> QED
        BY <4>1, <2>1, <1>1, <1>3, <1>5
    <3> QED
      BY <3>2, <3>3
  <2>2. CASE q # p
    BY <2>2, <1>5
  <2> QED
    BY <2>1, <2>2
<1> QED
  BY <1>6, <1>7, <1>8

\* The attempts are not disturbed by what devices that do not ask do.
LEMMA AttemptsStay ==
  ASSUME JoinInv, NwkTypes', seen' = seen, nib' = nib,
         join' \in [Devices -> Attempts],
         \A e \in Devices : join'[e].st # "idle" =>
            join[e].st # "idle" /\ join'[e].par = join[e].par /\ ~nwk'[e].joined
  PROVE  AttemptTypes' /\ AttemptsSound'
<1>1. AttemptTypes'
  BY DEF JoinInv, JoinTyped, AttemptTypes
<1>2. AttemptsSound'
  BY DEF JoinInv, AttemptsSound, AttemptSound, BeaconSound
<1> QED
  BY <1>1, <1>2

LEMMA JoinAssociate ==
  ASSUME JoinInv, NEW d \in Devices \ {Coord}, zb_mlme_associate_indication(d)
  PROVE  /\ JoinInv'
         /\ \E p \in Devices, router \in BOOLEAN : \E acc :
              /\ join[d].st # "idle" /\ p = join[d].par /\ router = join[d].router
              /\ Associates(p, d, router, acc)
<1>1. PICK p \in Devices, router \in BOOLEAN : p = join[d].par /\ router = join[d].router
  BY DEF JoinInv, JoinTyped, AttemptTypes, Attempts
<1>2. PICK acc : acc = AcceptChild(p, d, router)
  OBVIOUS
<1>3. nwk[p].started /\ join[d].st = "send" /\ ~nwk[d].joined
  BY <1>1 DEF zb_mlme_associate_indication, JoinInv, AttemptsSound, AttemptSound
<1>4. /\ acc.w \in Selves /\ SelfSound(acc.w) /\ KeepsSelf(nwk[p], acc.w) /\ acc.addr \in Addrs
      /\ Refound(p, d, router, acc) \/ Placed(p, d, router, acc) \/ Refused(p, acc)
  BY <1>1, <1>2, <1>3, AcceptCases
<1> DEFINE full == Len(pendq[p]) = ZB_MAC_PENDING_QUEUE_SIZE
           tab == [nbt[p] EXCEPT ![d] = AcceptedEntry(acc, router)]
           r == [dev |-> d, addr |-> acc.addr, router |-> router]
           x == IF full THEN Absent ELSE AcceptedEntry(acc, router)
<1>5. /\ nwk' = [nwk EXCEPT ![p] = acc.w] /\ nib' = nib /\ seen' = seen
      /\ join' = [join EXCEPT ![d].st = "wait"]
      /\ used' = [used EXCEPT ![p] = @ + acc.new]
      /\ nbt' = [nbt EXCEPT ![p] = IF full THEN CommStatus(tab, d, FALSE) ELSE tab]
      /\ pendq' = IF full THEN pendq ELSE [pendq EXCEPT ![p] = Append(@, r)]
  BY <1>1, <1>2 DEF zb_mlme_associate_indication
<1>6. nwk'[p] = acc.w /\ \A e \in Devices \ {p} : nwk'[e] = nwk[e]
  BY <1>5 DEF JoinInv, JoinTyped, NwkTypes
<1>7. NwkTypes' /\ SelvesSound'
  <2>1. NwkTypes'
    BY <1>4, <1>5 DEF JoinInv, JoinTyped, NwkTypes
  <2>2. ASSUME NEW e \in Devices
        PROVE  SelfSound(nwk[e])'
    <3>1. SelfSound(nwk'[e])
      BY <1>4, <1>6 DEF JoinInv, SelvesSound
    <3> QED
      BY <3>1, <1>5 DEF SelfSound, Cskip
  <2> QED
    BY <2>1, <2>2 DEF SelvesSound
<1>8. TableTypes /\ TablesSound /\ QueueTypes /\ QueuesFit
  BY DEF JoinInv, JoinTyped
<1>9. /\ AcceptedEntry(acc, router) = Absent
         \/ (acc.addr # NoAddr /\ AcceptedEntry(acc, router)
                                    = [addr |-> acc.addr, router |-> router, rel |-> "child"])
      /\ x \in Entries /\ (x.rel = "absent" <=> x.addr = NoAddr)
      /\ x # Absent => acc.addr # NoAddr
  BY <1>4 DEF AcceptedEntry, Absent, Entries, Rels, Addrs
<1>10. Writes(p, d, x)
  <2>1. nbt[p] \in [Devices -> Entries]
    BY <1>8 DEF TableTypes
  <2>2. CommStatus(tab, d, FALSE) = [nbt[p] EXCEPT ![d] = Absent]
    BY <2>1 DEF CommStatus
  <2> QED
    BY <1>5, <2>2 DEF Writes
<1>11. /\ TableTypes' /\ TablesSound'
       /\ \A q \in Devices, e \in Devices :
            nbt'[q][e] = IF q = p /\ e = d THEN x ELSE nbt[q][e]
  <2> DEFINE u == used[p] + acc.new
  <2>1. used[p] \in Nat /\ used[p] < ZB_NEIGHBOR_TABLE_SIZE /\ ZB_NEIGHBOR_TABLE_SIZE \in Nat
    BY <1>8, JoinAssumption DEF TableTypes, TablesSound
  <2>2. acc.new \in {0, 1} /\ (acc.new = 1 => used[p] # ZB_NEIGHBOR_TABLE_SIZE - 1)
    BY <1>4 DEF Refound, Placed, Refused, TableFull
  <2>3. nbt[p][d].rel = "absent" /\ x.rel # "absent" => acc.new = 1
    BY <1>4, <1>9 DEF Refound, Placed, Refused, Absent
  <2>4. u \in Nat /\ used[p] <= u /\ u < ZB_NEIGHBOR_TABLE_SIZE
        /\ (nbt[p][d].rel = "absent" /\ x.rel # "absent" => used[p] < u)
    BY <2>1, <2>2, <2>3
  <2>5. used' = [used EXCEPT ![p] = u]
    BY <1>5
  <2>6. x \in Entries /\ (x.rel = "absent" <=> x.addr = NoAddr) /\ Writes(p, d, x)
    BY <1>9, <1>10
  <2>7. PICK y \in Entries, v \in Nat : y = x /\ v = u
    BY <2>4, <2>6
  <2> HIDE DEF u, x
  <2>8. Enters(p, d, y, v)
    BY <2>4, <2>5, <2>6, <2>7 DEF Enters
  <2>9. /\ TableTypes' /\ TablesSound'
        /\ \A q \in Devices, e \in Devices : nbt'[q][e] = IF q = p /\ e = d THEN y ELSE nbt[q][e]
    BY <2>8, <1>8, EntryWritten
  <2> QED
    BY <2>7, <2>9
<1>12. r \in Responses
  BY <1>4 DEF Responses
<1>13. /\ QueueTypes' /\ QueuesFit'
       /\ \A q \in Devices : \A k \in DOMAIN pendq'[q] :
            \/ \E j \in DOMAIN pendq[q] : pendq'[q][k] = pendq[q][j]
            \/ q = p /\ pendq'[q][k] = r
  <2> HIDE DEF r
  <2>1. CASE full
    <3>1. pendq' = pendq
      BY <1>5, <2>1
    <3> QED
      BY <3>1, <1>8 DEF QueueTypes, QueuesFit
  <2>2. CASE ~full
    <3>1. pendq' = [pendq EXCEPT ![p] = Append(pendq[p], r)]
      BY <1>5, <2>2
    <3> QED
      BY <3>1, <2>2, <1>8, <1>12, AppendedResponse
  <2> QED
    BY <2>1, <2>2
<1>14. \A e \in Devices : /\ join'[e].par = join[e].par /\ join'[e].router = join[e].router
                          /\ join'[e].st # "idle" => join[e].st # "idle"
  BY <1>3, <1>5 DEF JoinInv, JoinTyped, AttemptTypes, Attempts
<1>15. join' \in [Devices -> Attempts]
  BY <1>5 DEF JoinInv, JoinTyped, AttemptTypes, Attempts
<1>16. AttemptTypes' /\ AttemptsSound'
  <2>1. \A e \in Devices : nwk'[e].joined = nwk[e].joined
    BY <1>4, <1>6 DEF KeepsSelf
  <2>2. \A e \in Devices : join'[e].st # "idle" => ~nwk'[e].joined
    BY <2>1, <1>14 DEF JoinInv, AttemptsSound, AttemptSound
  <2> QED
    BY <2>2, <1>5, <1>7, <1>14, <1>15, AttemptsStay
<1>17. JoinInv'
  BY <1>7, <1>11, <1>13, <1>16 DEF JoinInv, JoinTyped
<1>18. Associates(p, d, router, acc)
  <2>1. \A q \in Devices, e \in Devices :
         \/ nbt'[q][e] = nbt[q][e]
         \/ nbt'[q][e] = Absent
         \/ /\ q = p /\ e = d /\ acc.addr # NoAddr
            /\ nbt'[q][e] = [addr |-> acc.addr, router |-> router, rel |-> "child"]
    <3>1. \/ x = Absent
          \/ acc.addr # NoAddr /\ x = [addr |-> acc.addr, router |-> router, rel |-> "child"]
      BY <1>9
    <3> HIDE DEF x
    <3> QED
      BY <3>1, <1>11
  <2>2. \A e \in Devices : join'[e].st # "idle" =>
          join[e].st # "idle" /\ join'[e].router = join[e].router
    BY <1>14
  <2> QED
    BY <1>3, <1>4, <1>5, <1>6, <1>13, <2>1, <2>2 DEF Associates
<1> QED
  BY <1>1, <1>3, <1>17, <1>18

-----------------------------------------------------------------------------
(* The child: attempts and responses.                                       *)

\* zb_nlme_join_request(): the beacons are those of the routers that have started.
LEMMA JoinAsks ==
  ASSUME JoinInv, NEW d \in Devices \ {Coord}, zb_nlme_join_request(d)
  PROVE  /\ JoinInv'
         /\ nib' = nib /\ nwk' = nwk /\ nbt' = nbt /\ pendq' = pendq
         /\ \A e \in Devices, p \in Devices : seen'[e][p].addr # NoAddr =>
              \/ seen'[e][p] = seen[e][p]
              \/ /\ nwk[p].started
                 /\ seen'[e][p].addr = nwk[p].addr /\ seen'[e][p].depth = nwk[p].depth
         /\ \A e \in Devices : join'[e].st # "idle" =>
              \/ join[e].st # "idle" /\ join'[e].router = join[e].router
              \/ join'[e].router = (e \in RouterCap)
<1>1. /\ nib' = nib /\ nwk' = nwk /\ nbt' = nbt /\ used' = used /\ pendq' = pendq
      /\ ~nwk[d].joined /\ seen' = [seen EXCEPT ![d] = Scan]
      /\ \E j \in Chosen(seen'[d], d \in RouterCap) : join' = [join EXCEPT ![d] = j]
      /\ Candidates(seen'[d]) # {}
  BY DEF zb_nlme_join_request
<1>2. NwkTypes /\ SelvesSound /\ AttemptTypes /\ AttemptsSound
  BY DEF JoinInv, JoinTyped
<1>3. ASSUME NEW p \in Devices
      PROVE  /\ Scan[p] \in Beacons
             /\ nwk[p].started => /\ Scan[p].addr = nwk[p].addr /\ Scan[p].depth = nwk[p].depth
                                  /\ Scan[p].open = nwk[p].permit
             /\ ~nwk[p].started => Scan[p].addr = NoAddr /\ ~Scan[p].open
  <2>1. nwk[p] \in Selves
    BY <1>2 DEF NwkTypes
  <2>2. CASE nwk[p].started
    <3>1. Scan[p] = [addr |-> nwk[p].addr, depth |-> nwk[p].depth,
                     open |-> nwk[p].permit, potential |-> TRUE]
      BY <2>2 DEF Scan
    <3>2. nwk[p].addr \in Addrs /\ nwk[p].depth \in Nat /\ nwk[p].permit \in BOOLEAN
      BY <2>1 DEF Selves
    <3>3. Scan[p] \in Beacons
      BY <3>1, <3>2 DEF Beacons
    <3>4. Scan[p].addr = nwk[p].addr /\ Scan[p].depth = nwk[p].depth
      BY <3>1
    <3>5. Scan[p].open = nwk[p].permit
      BY <3>1, <3>2
    <3> QED
      BY <3>3, <3>4, <3>5, <2>2
  <2>3. CASE ~nwk[p].started
    <3>1. Scan[p] = NotSeen
      BY <2>3 DEF Scan
    <3>2. NotSeen \in Beacons /\ NotSeen.addr = NoAddr /\ ~NotSeen.open
      BY DEF NotSeen, Beacons, Addrs
    <3> QED
      BY <3>1, <3>2, <2>3
  <2> QED
    BY <2>2, <2>3
<1>4. Scan \in [Devices -> Beacons]
  <2>1. Scan = [p \in Devices |-> Scan[p]]
    BY DEF Scan
  <2> QED
    BY <2>1, <1>3
<1>5. seen'[d] = Scan /\ \A e \in Devices \ {d} : seen'[e] = seen[e]
  BY <1>1, <1>2 DEF AttemptTypes
<1>6. PICK par \in Devices :
        /\ seen'[d][par].open
        /\ join' = [join EXCEPT ![d] = [st |-> "send", par |-> par, router |-> d \in RouterCap]]
  BY <1>1 DEF Chosen, Candidates
<1>7. /\ join'[d] = [st |-> "send", par |-> par, router |-> d \in RouterCap]
      /\ \A e \in Devices \ {d} : join'[e] = join[e]
  BY <1>2, <1>6 DEF AttemptTypes
<1>8. AttemptTypes'
  <2>1. [st |-> "send", par |-> par, router |-> d \in RouterCap] \in Attempts
    BY DEF Attempts
  <2>2. seen' \in [Devices -> [Devices -> Beacons]]
    BY <1>1, <1>2, <1>4 DEF AttemptTypes
  <2>3. join' \in [Devices -> Attempts]
    BY <1>2, <1>6, <2>1 DEF AttemptTypes
  <2> QED
    BY <2>2, <2>3 DEF AttemptTypes
<1>9. AttemptsSound'
  <2> SUFFICES ASSUME NEW e \in Devices
               PROVE  AttemptSound(e)'
    BY DEF AttemptsSound
  <2>1. CASE e = d
    <3>1. ASSUME NEW p \in Devices
          PROVE  BeaconSound(Scan[p])
      BY <1>2, <1>3 DEF BeaconSound, SelvesSound, SelfSound
    <3>2. Scan[d].addr = NoAddr
      BY <1>1, <1>2, <1>3 DEF SelvesSound, SelfSound
    <3>3. join'[e].par = par
      BY <2>1, <1>7
    <3>4. \A p \in Devices : BeaconSound(seen'[d][p])
      BY <3>1, <1>5
    <3> QED
      BY <3>2, <3>3, <3>4, <2>1, <1>1, <1>5, <1>6 DEF AttemptSound, BeaconSound
  <2>2. CASE e # d
    BY <2>2, <1>1, <1>2, <1>5, <1>7 DEF AttemptsSound, AttemptSound, BeaconSound
  <2> QED
    BY <2>1, <2>2
<1>10. JoinInv'
  <2>1. NwkTypes' /\ SelvesSound'
    BY <1>1, <1>2 DEF NwkTypes, SelvesSound, SelfSound, Cskip
  <2>2. TableTypes' /\ TablesSound' /\ QueueTypes' /\ QueuesFit'
    BY <1>1 DEF JoinInv, JoinTyped, TableTypes, TablesSound, QueueTypes, QueuesFit, Taken
  <2> QED
    BY <2>1, <2>2, <1>8, <1>9 DEF JoinInv, JoinTyped
<1>11. \A e \in Devices, p \in Devices : seen'[e][p].addr # NoAddr =>
              \/ seen'[e][p] = seen[e][p]
              \/ /\ nwk[p].started
                 /\ seen'[e][p].addr = nwk[p].addr /\ seen'[e][p].depth = nwk[p].depth
  BY <1>3, <1>5
<1>12. \A e \in Devices : join'[e].st # "idle" =>
              \/ join[e].st # "idle" /\ join'[e].router = join[e].router
              \/ join'[e].router = (e \in RouterCap)
  BY <1>7
<1> QED
  BY <1>1, <1>10, <1>11, <1>12

\* After a failure a device asks on with the beacons it has, or gives up.
FewerBeacons ==
    \A e \in Devices, p \in Devices : seen'[e][p].addr # NoAddr =>
        seen'[e][p].addr = seen[e][p].addr /\ seen'[e][p].depth = seen[e][p].depth
AsksOn ==
    \A e \in Devices : join'[e].st # "idle" =>
        join[e].st # "idle" /\ (join'[e].router => join[e].router)

LEMMA JoinGoesOn ==
  ASSUME JoinInv, NEW d \in Devices, JoinFailed(d), join[d].st # "idle",
         nib' = nib, \A e \in Devices : nwk'[e].joined = nwk[e].joined
  PROVE  AttemptTypes' /\ AttemptsSound' /\ FewerBeacons /\ AsksOn
<1> DEFINE s1 == [seen[d] EXCEPT ![join[d].par].potential = FALSE]
           s2 == [p \in Devices |-> [s1[p] EXCEPT !.potential = s1[p].open]]
           again == Candidates(s1) = {} /\ join[d].router
           s == IF again THEN s2 ELSE s1
           nobody == Candidates(s) = {}
<1>1. AttemptTypes /\ AttemptsSound
  BY DEF JoinInv, JoinTyped
<1>2. seen[d] \in [Devices -> Beacons] /\ join[d] \in Attempts
  BY <1>1 DEF AttemptTypes
<1>3. /\ s1 \in [Devices -> Beacons]
      /\ \A p \in Devices : /\ s1[p].addr = seen[d][p].addr /\ s1[p].depth = seen[d][p].depth
                            /\ s1[p].open = seen[d][p].open
  <2>1. PICK par \in Devices : par = join[d].par
    BY <1>2 DEF Attempts
  <2>2. PICK t \in [Devices -> Beacons] : t = seen[d]
    BY <1>2
  <2> DEFINE b == [t[par] EXCEPT !.potential = FALSE]
  <2>3. b \in Beacons /\ b.addr = t[par].addr /\ b.depth = t[par].depth /\ b.open = t[par].open
    BY DEF Beacons
  <2>4. s1 = [t EXCEPT ![par] = b]
    BY <2>1, <2>2
  <2> HIDE DEF b, s1
  <2>5. s1 \in [Devices -> Beacons] /\ s1[par] = b /\ \A p \in Devices \ {par} : s1[p] = t[p]
    BY <2>3, <2>4
  <2> QED
    BY <2>2, <2>3, <2>5
<1> HIDE DEF s1
<1>4. /\ s2 \in [Devices -> Beacons]
      /\ \A p \in Devices : /\ s2[p].addr = s1[p].addr /\ s2[p].depth = s1[p].depth
                            /\ s2[p].open = s1[p].open
  <2>1. ASSUME NEW p \in Devices
        PROVE  LET b == [s1[p] EXCEPT !.potential = s1[p].open] IN
               /\ b \in Beacons /\ b.addr = s1[p].addr /\ b.depth = s1[p].depth
               /\ b.open = s1[p].open
    <3>1. PICK c \in Beacons : c = s1[p]
      BY <1>3
    <3>2. [c EXCEPT !.potential = c.open] \in Beacons
      BY DEF Beacons
    <3>3. [c EXCEPT !.potential = c.open].addr = c.addr
          /\ [c EXCEPT !.potential = c.open].depth = c.depth
          /\ [c EXCEPT !.potential = c.open].open = c.open
      BY DEF Beacons
    <3> QED
      BY <3>1, <3>2, <3>3
  <2> QED
    BY <2>1
<1> HIDE DEF s2
<1>5. /\ s \in [Devices -> Beacons]
      /\ \A p \in Devices : /\ s[p].addr = seen[d][p].addr /\ s[p].depth = seen[d][p].depth
                            /\ s[p].open = seen[d][p].open
  BY <1>3, <1>4
<1>6. /\ seen' = [seen EXCEPT ![d] = IF nobody THEN NoBeacons ELSE s]
      /\ \E j \in Chosen(s, join[d].router /\ ~again) : join' = [join EXCEPT ![d] = j]
  BY DEF JoinFailed, s1, s2
<1> HIDE DEF s
<1>7. /\ NoBeacons \in [Devices -> Beacons]
      /\ \A p \in Devices : NoBeacons[p].addr = NoAddr /\ ~NoBeacons[p].open
  BY DEF NoBeacons, NotSeen, Beacons, Addrs
<1>8. PICK j : /\ join' = [join EXCEPT ![d] = j] /\ j \in Attempts
               /\ nobody => j.st = "idle"
               /\ ~nobody => s[j.par].open
               /\ j.router => join[d].router
  <2>1. CASE nobody
    <3>1. join' = [join EXCEPT ![d] = NoJoin]
      BY <2>1, <1>6 DEF Chosen
    <3>2. NoJoin \in Attempts /\ NoJoin.st = "idle" /\ ~NoJoin.router
      BY JoinAssumption DEF NoJoin, Attempts
    <3> QED
      BY <3>1, <3>2, <2>1
  <2>2. CASE ~nobody
    <3>1. PICK p \in Candidates(s) :
            join' = [join EXCEPT ![d] = [st |-> "send", par |-> p,
                                         router |-> join[d].router /\ ~again]]
      BY <2>2, <1>6 DEF Chosen
    <3>2. p \in Devices /\ s[p].open
      BY DEF Candidates
    <3>3. [st |-> "send", par |-> p, router |-> join[d].router /\ ~again] \in Attempts
      BY <3>2, <1>2 DEF Attempts
    <3>4. PICK j : j = [st |-> "send", par |-> p, router |-> join[d].router /\ ~again]
      OBVIOUS
    <3>5. j.par = p /\ (j.router => join[d].router)
      BY <3>4
    <3>6. join' = [join EXCEPT ![d] = j] /\ j \in Attempts
      BY <3>1, <3>3, <3>4
    <3> HIDE DEF again
    <3> QED
      BY <3>2, <3>5, <3>6, <2>2
  <2> QED
    BY <2>1, <2>2
<1> HIDE DEF again, nobody
<1>9. join'[d] = j /\ \A e \in Devices \ {d} : join'[e] = join[e]
  BY <1>1, <1>8 DEF AttemptTypes
<1>10. PICK b \in [Devices -> Beacons] : b = IF nobody THEN NoBeacons ELSE s
  BY <1>5, <1>7
<1>11. /\ seen' = [seen EXCEPT ![d] = b]
       /\ seen'[d] = b /\ \A e \in Devices \ {d} : seen'[e] = seen[e]
  BY <1>1, <1>6, <1>10 DEF AttemptTypes
<1>12. \A p \in Devices : /\ b[p].addr # NoAddr => /\ b[p].addr = seen[d][p].addr
                                                  /\ b[p].depth = seen[d][p].depth
                          /\ b[p].open => seen[d][p].open /\ b[p].depth = seen[d][p].depth
                                          /\ b[p].addr = seen[d][p].addr
  BY <1>5, <1>7, <1>10
<1>13. j.st # "idle" => b[j.par].open
  BY <1>8, <1>10
<1>14. AttemptTypes'
  BY <1>1, <1>8, <1>11 DEF AttemptTypes
<1>15. AttemptsSound'
  <2> SUFFICES ASSUME NEW e \in Devices
               PROVE  AttemptSound(e)'
    BY DEF AttemptsSound
  <2>1. CASE e = d
    <3>1. \A p \in Devices : BeaconSound(b[p])
      BY <1>1, <1>12 DEF AttemptsSound, AttemptSound, BeaconSound
    <3>2. b[d].addr = NoAddr
      BY <1>1, <1>12 DEF AttemptsSound, AttemptSound
    <3>3. ~nwk'[d].joined
      BY <1>1 DEF AttemptsSound, AttemptSound
    <3>5. join'[d].st # "idle" => seen'[d][join'[d].par].open
      BY <1>9, <1>11, <1>13
    <3>6. \A p \in Devices : BeaconSound(seen[d][p])'
      BY <3>1, <1>11 DEF BeaconSound
    <3> QED
      BY <3>2, <3>3, <3>5, <3>6, <2>1, <1>11 DEF AttemptSound
  <2>2. CASE e # d
    BY <2>2, <1>1, <1>9, <1>11 DEF AttemptsSound, AttemptSound, BeaconSound
  <2> QED
    BY <2>1, <2>2
<1>16. FewerBeacons
  BY <1>11, <1>12 DEF FewerBeacons
<1>17. AsksOn
  BY <1>8, <1>9 DEF AsksOn
<1> QED
  BY <1>14, <1>15, <1>16, <1>17

-----------------------------------------------------------------------------
(* What a step does to the addresses that devices know.                     *)

\* p keeps the address a for d, in its neighbor table or in a response.
Holds(p, d, a, router) ==
    /\ a # NoAddr
    /\ \/ nbt[p][d].addr = a /\ nbt[p][d].router = router
       \/ \E k \in DOMAIN pendq[p] :
            /\ pendq[p][k].dev = d /\ pendq[p][k].addr = a /\ pendq[p][k].router = router

\* The address of d was announced to p, or came with a beacon.
Announced(p, d, a, router) ==
    /\ nwk[d].joined /\ a = nwk[d].addr
    /\ router => nwk[d].router \/ \E b \in Addrs : Holds(p, d, b, router)
Beaconed(p, d, a, router) == router /\ a # NoAddr /\ a = seen[p][d].addr

Copied(p, d, a, router) ==
    Holds(p, d, a, router) \/ Announced(p, d, a, router) \/ Beaconed(p, d, a, router)

Stays(d) ==
    /\ nwk'[d].joined = nwk[d].joined /\ nwk'[d].router = nwk[d].router
    /\ nwk'[d].addr = nwk[d].addr /\ nwk'[d].depth = nwk[d].depth
    /\ nwk'[d].cskip = nwk[d].cskip
Leaves(d) == d \in Movers /\ ~nwk'[d].joined

\* A count grows at a router that has a depth left.
CountsGrow ==
    \A p \in Devices :
      /\ nwk'[p].rnum >= nwk[p].rnum /\ nwk'[p].ednum >= nwk[p].ednum
      /\ \/ nwk'[p].rnum = nwk[p].rnum /\ nwk'[p].ednum = nwk[p].ednum
         \/ nwk[p].joined /\ nwk[p].router /\ nwk[p].depth < nib.lm

BeaconsKept ==
    \A d \in Devices, p \in Devices : seen'[d][p].addr # NoAddr =>
      \/ seen'[d][p].addr = seen[d][p].addr /\ seen'[d][p].depth = seen[d][p].depth
      \/ /\ nwk[p].joined /\ nwk[p].router
         /\ seen'[d][p].addr = nwk[p].addr /\ seen'[d][p].depth = nwk[p].depth

AttemptsKept ==
    \A d \in Devices : join'[d].st # "idle" /\ join'[d].router =>
      d \in RouterCap \/ (join[d].st # "idle" /\ join[d].router)

Background == nib' = nib /\ CountsGrow /\ BeaconsKept /\ AttemptsKept

\* No device joins, no address is given.
Quiet ==
    /\ Background
    /\ \A d \in Devices : Stays(d) \/ Leaves(d)
    /\ \A p \in Devices, d \in Devices : \A a, router :
         Holds(p, d, a, router)' => Copied(p, d, a, router)

\* d takes the address that its parent holds for it.
Takes(d) ==
    /\ Background
    /\ \A e \in Devices \ {d} : Stays(e)
    /\ \E p \in Devices :
         /\ ~nwk[d].joined /\ nwk'[d].joined /\ nwk'[d].router = join[d].router
         /\ join[d].st # "idle" /\ seen[d][p].addr # NoAddr
         /\ nwk'[d].depth = seen[d][p].depth + 1
         /\ CrossAnswers \/ Holds(p, d, nwk'[d].addr, join[d].router)
    /\ \A p \in Devices, e \in Devices : \A a, router :
         Holds(p, e, a, router)' => Copied(p, e, a, router)

\* p gives d the next address.
Gives(p, d, router) ==
    /\ Background
    /\ \A e \in Devices : Stays(e)
    /\ ~nwk[d].joined /\ join[d].st # "idle" /\ router = join[d].router
    /\ nwk[p].joined /\ nwk[p].router /\ HasRoom(nwk[p], router)
    /\ OneMore(nwk[p], nwk'[p], router)
    /\ \A q \in Devices, e \in Devices : \A a, s :
         Holds(q, e, a, s)' =>
           \/ Copied(q, e, a, s)
           \/ q = p /\ e = d /\ a = Assigned(nwk[p], router) /\ s = router

JoinSteps ==
    \/ Quiet
    \/ \E d \in Devices \ {Coord} : Takes(d)
    \/ \E p \in Devices, d \in Devices \ {Coord}, router \in BOOLEAN : Gives(p, d, router)

\* Entries and responses are only forgotten.
Forgets ==
    /\ \A q \in Devices, e \in Devices : nbt'[q][e] = nbt[q][e] \/ nbt'[q][e] = Absent
    /\ \A q \in Devices : \A k \in DOMAIN pendq'[q] : \E j \in DOMAIN pendq[q] :
         pendq'[q][k] = pendq[q][j]

LEMMA ForgetsHolds ==
  ASSUME Forgets, NEW p \in Devices, NEW d \in Devices, NEW a, NEW router, Holds(p, d, a, router)'
  PROVE  Holds(p, d, a, router)
<1>1. a # NoAddr
  BY DEF Holds
<1>2. CASE nbt'[p][d].addr = a /\ nbt'[p][d].router = router
  BY <1>1, <1>2 DEF Forgets, Holds, Absent
<1>3. ASSUME NEW k \in DOMAIN pendq'[p], pendq'[p][k].dev = d,
             pendq'[p][k].addr = a, pendq'[p][k].router = router
      PROVE  Holds(p, d, a, router)
  BY <1>1, <1>3 DEF Forgets, Holds
<1> QED
  BY <1>2, <1>3 DEF Holds

LEMMA SelvesUnchanged ==
  ASSUME JoinInv, nib' = nib, nwk' = nwk
  PROVE  NwkTypes' /\ SelvesSound' /\ CountsGrow /\ \A d \in Devices : Stays(d)
<1>1. NwkTypes' /\ SelvesSound'
  BY DEF JoinInv, JoinTyped, NwkTypes, SelvesSound, SelfSound, Cskip
<1>2. \A p \in Devices : nwk[p].rnum \in Nat /\ nwk[p].ednum \in Nat
  BY DEF JoinInv, JoinTyped, NwkTypes, Selves
<1> QED
  BY <1>1, <1>2 DEF CountsGrow, Stays

LEMMA SelvesSame ==
  ASSUME nib' = nib, \A d \in Devices : SelfSound(nwk'[d])
  PROVE  SelvesSound'
<1> SUFFICES ASSUME NEW d \in Devices
             PROVE  SelfSound(nwk[d])'
  BY DEF SelvesSound
<1>1. SelfSound(nwk'[d])
  OBVIOUS
<1> QED
  BY <1>1 DEF SelfSound, Cskip

LEMMA AttemptsUnchanged ==
  ASSUME JoinInv, join' = join, seen' = seen, nib' = nib,
         \A d \in Devices : nwk'[d].joined => nwk[d].joined
  PROVE  AttemptTypes' /\ AttemptsSound' /\ BeaconsKept /\ AttemptsKept
<1>1. AttemptTypes' /\ AttemptsSound'
  BY DEF JoinInv, JoinTyped, AttemptTypes, AttemptsSound, AttemptSound, BeaconSound
<1> QED
  BY <1>1 DEF BeaconsKept, AttemptsKept

LEMMA TablesUnchanged ==
  ASSUME JoinInv, nbt' = nbt, used' = used
  PROVE  TableTypes' /\ TablesSound'
  BY DEF JoinInv, JoinTyped, TableTypes, TablesSound, Taken

LEMMA QueuesUnchanged ==
  ASSUME JoinInv, pendq' = pendq
  PROVE  QueueTypes' /\ QueuesFit'
  BY DEF JoinInv, JoinTyped, QueueTypes, QueuesFit

LEMMA JoinStutters ==
  ASSUME JoinInv, UNCHANGED joinVars
  PROVE  JoinInv' /\ Quiet
<1>1. /\ nib' = nib /\ nwk' = nwk /\ nbt' = nbt /\ used' = used /\ pendq' = pendq
      /\ join' = join /\ seen' = seen
  BY DEF joinVars
<1>2. JoinInv'
  BY <1>1, SelvesUnchanged, AttemptsUnchanged, TablesUnchanged, QueuesUnchanged
     DEF JoinInv, JoinTyped
<1>3. Forgets
  BY <1>1 DEF Forgets
<1>4. Background /\ \A d \in Devices : Stays(d)
  BY <1>1, SelvesUnchanged, AttemptsUnchanged DEF Background
<1> QED
  BY <1>2, <1>3, <1>4, ForgetsHolds DEF Quiet, Copied

\* The child of a failed response is deleted; a received one stays.
LEMMA EntryDropped ==
  ASSUME JoinInv, NEW p \in Devices, NEW d \in Devices, NEW ok \in BOOLEAN, used' = used,
         nbt' = [nbt EXCEPT ![p] = CommStatus(nbt[p], d, ok)]
  PROVE  /\ TableTypes' /\ TablesSound'
         /\ \A q \in Devices, e \in Devices : nbt'[q][e] = nbt[q][e] \/ nbt'[q][e] = Absent
<1>1. TableTypes /\ TablesSound /\ nbt[p] \in [Devices -> Entries] /\ used \in [Devices -> Nat]
      /\ used[p] \in Nat
  BY DEF JoinInv, JoinTyped, TableTypes
<1>2. PICK x \in Entries, u \in Nat : u = used[p] /\ x = IF ok THEN nbt[p][d] ELSE Absent
  <2>1. Absent \in Entries
    BY DEF Absent, Entries, Addrs, Rels
  <2> QED
    BY <2>1, <1>1
<1>3. Writes(p, d, x)
  <2>1. CommStatus(nbt[p], d, ok) = [nbt[p] EXCEPT ![d] = x]
    BY <1>1, <1>2 DEF CommStatus
  <2> QED
    BY <2>1 DEF Writes
<1>4. Enters(p, d, x, u)
  <2>1. x.rel = "absent" <=> x.addr = NoAddr
    BY <1>1, <1>2 DEF TablesSound, Absent
  <2>2. used' = [used EXCEPT ![p] = u] /\ used[p] <= u /\ u < ZB_NEIGHBOR_TABLE_SIZE
    BY <1>1, <1>2 DEF TablesSound
  <2>3. ~(nbt[p][d].rel = "absent" /\ x.rel # "absent")
    BY <1>2 DEF Absent
  <2> QED
    BY <1>3, <2>1, <2>2, <2>3 DEF Enters
<1>5. /\ TableTypes' /\ TablesSound'
      /\ \A q \in Devices, e \in Devices : nbt'[q][e] = IF q = p /\ e = d THEN x ELSE nbt[q][e]
  BY <1>1, <1>4, EntryWritten
<1> QED
  BY <1>2, <1>5

LEMMA JoinLost ==
  ASSUME JoinInv, NEW p \in Devices, NEW i \in DOMAIN pendq[p], ResponseLost(p, i)
  PROVE  JoinInv' /\ Quiet
<1>1. /\ nib' = nib /\ nwk' = nwk /\ used' = used /\ join' = join /\ seen' = seen
      /\ Removes(p, i)
      /\ nbt' = [nbt EXCEPT ![p] = CommStatus(nbt[p], pendq[p][i].dev, FALSE)]
  BY DEF ResponseLost, Removes
<1>2. /\ QueueTypes' /\ QueuesFit'
      /\ pendq[p][i] \in Responses
      /\ \A q \in Devices : \A k \in DOMAIN pendq'[q] : \E j \in DOMAIN pendq[q] :
           pendq'[q][k] = pendq[q][j]
  BY <1>1, QueueShrinks DEF JoinInv, JoinTyped
<1>3. PICK d \in Devices : d = pendq[p][i].dev
  BY <1>2 DEF Responses
<1>4. /\ TableTypes' /\ TablesSound'
      /\ \A q \in Devices, e \in Devices : nbt'[q][e] = nbt[q][e] \/ nbt'[q][e] = Absent
  BY <1>1, <1>3, EntryDropped
<1>5. NwkTypes' /\ SelvesSound' /\ CountsGrow /\ \A e \in Devices : Stays(e)
  BY <1>1, SelvesUnchanged
<1>6. AttemptTypes' /\ AttemptsSound' /\ BeaconsKept /\ AttemptsKept
  BY <1>1, AttemptsUnchanged
<1>7. Forgets
  BY <1>2, <1>4 DEF Forgets
<1>8. JoinInv'
  BY <1>2, <1>4, <1>5, <1>6 DEF JoinInv, JoinTyped
<1> QED
  BY <1>1, <1>5, <1>6, <1>7, <1>8, ForgetsHolds DEF Quiet, Copied, Background

LEMMA JoinStarts ==
  ASSUME JoinInv, NEW d \in Devices \ {Coord}, StartRouter(d)
  PROVE  JoinInv' /\ Quiet
<1>1. /\ nib' = nib /\ nbt' = nbt /\ used' = used /\ pendq' = pendq /\ join' = join /\ seen' = seen
      /\ nwk[d].joined /\ nwk[d].router
      /\ nwk' = [nwk EXCEPT ![d].started = TRUE,
                   ![d].permit = /\ nib.cm > nwk[d].rnum + nwk[d].ednum
                                 /\ nwk[d].depth < nib.lm]
  BY DEF StartRouter
<1>2. NwkTypes /\ SelvesSound
  BY DEF JoinInv, JoinTyped
<1>3. PICK w \in Selves : w = nwk[d]
  BY <1>2 DEF NwkTypes
<1> DEFINE permit == nib.cm > w.rnum + w.ednum /\ w.depth < nib.lm
           v == [w EXCEPT !.started = TRUE, !.permit = permit]
<1>4. nwk' = [nwk EXCEPT ![d] = v]
  BY <1>1, <1>2, <1>3 DEF NwkTypes
<1>5. /\ v \in Selves
      /\ v.joined = w.joined /\ v.router = w.router /\ v.addr = w.addr /\ v.depth = w.depth
      /\ v.cskip = w.cskip /\ v.rnum = w.rnum /\ v.ednum = w.ednum
      /\ v.started /\ v.permit = permit
  BY DEF Selves
<1> HIDE DEF v
<1>6. SelfSound(v)
  BY <1>1, <1>2, <1>3, <1>5 DEF SelvesSound, SelfSound
<1>7. nwk'[d] = v /\ \A e \in Devices \ {d} : nwk'[e] = nwk[e]
  BY <1>2, <1>4 DEF NwkTypes
<1>8. NwkTypes' /\ SelvesSound'
  <2>1. NwkTypes'
    BY <1>1, <1>2, <1>4, <1>5 DEF NwkTypes
  <2>2. \A e \in Devices : SelfSound(nwk'[e])
    BY <1>2, <1>6, <1>7 DEF SelvesSound
  <2> QED
    BY <2>1, <2>2, <1>1, SelvesSame
<1>9. CountsGrow /\ \A e \in Devices : Stays(e)
  <2>1. \A p \in Devices : nwk[p].rnum \in Nat /\ nwk[p].ednum \in Nat
    BY <1>2 DEF NwkTypes, Selves
  <2>2. \A e \in Devices : /\ nwk'[e].rnum = nwk[e].rnum /\ nwk'[e].ednum = nwk[e].ednum
                           /\ Stays(e)
    BY <1>3, <1>5, <1>7 DEF Stays
  <2> QED
    BY <2>1, <2>2 DEF CountsGrow
<1>10. AttemptTypes' /\ AttemptsSound' /\ BeaconsKept /\ AttemptsKept
  BY <1>1, <1>9, AttemptsUnchanged DEF Stays
<1>11. JoinInv'
  BY <1>1, <1>8, <1>10, TablesUnchanged, QueuesUnchanged DEF JoinInv, JoinTyped
<1>12. Forgets
  BY <1>1 DEF Forgets
<1> QED
  BY <1>1, <1>9, <1>10, <1>11, <1>12, ForgetsHolds DEF Quiet, Copied, Background

\* zb_mlme_associate_confirm() with a failure, or no confirmation.
LEMMA JoinFailedStep ==
  ASSUME JoinInv, NEW d \in Devices \ {Coord}, AssociateFailed(d)
  PROVE  JoinInv' /\ Quiet
<1>1. /\ nib' = nib /\ nwk' = nwk /\ nbt' = nbt /\ used' = used /\ pendq' = pendq
      /\ JoinFailed(d) /\ join[d].st # "idle"
  BY DEF AssociateFailed
<1>2. NwkTypes' /\ SelvesSound' /\ CountsGrow /\ \A e \in Devices : Stays(e)
  BY <1>1, SelvesUnchanged
<1>3. AttemptTypes' /\ AttemptsSound' /\ FewerBeacons /\ AsksOn
  BY <1>1, JoinGoesOn
<1>4. BeaconsKept /\ AttemptsKept
  BY <1>3 DEF FewerBeacons, AsksOn, BeaconsKept, AttemptsKept
<1>5. Forgets
  BY <1>1 DEF Forgets
<1>6. JoinInv'
  BY <1>1, <1>2, <1>3, TablesUnchanged, QueuesUnchanged DEF JoinInv, JoinTyped
<1> QED
  BY <1>1, <1>2, <1>4, <1>5, <1>6, ForgetsHolds DEF Quiet, Copied, Background

LEMMA JoinAskStep ==
  ASSUME JoinInv, NEW d \in Devices \ {Coord}, zb_nlme_join_request(d)
  PROVE  JoinInv' /\ Quiet
<1>1. /\ JoinInv'
      /\ nib' = nib /\ nwk' = nwk /\ nbt' = nbt /\ pendq' = pendq
      /\ \A e \in Devices, p \in Devices : seen'[e][p].addr # NoAddr =>
           \/ seen'[e][p] = seen[e][p]
           \/ /\ nwk[p].started
              /\ seen'[e][p].addr = nwk[p].addr /\ seen'[e][p].depth = nwk[p].depth
      /\ \A e \in Devices : join'[e].st # "idle" =>
           \/ join[e].st # "idle" /\ join'[e].router = join[e].router
           \/ join'[e].router = (e \in RouterCap)
  BY JoinAsks
<1>2. CountsGrow /\ \A e \in Devices : Stays(e)
  BY <1>1, SelvesUnchanged
<1>3. BeaconsKept
  BY <1>1 DEF BeaconsKept, JoinInv, SelvesSound, SelfSound
<1>4. AttemptsKept
  BY <1>1 DEF AttemptsKept
<1>5. Forgets
  BY <1>1 DEF Forgets
<1> QED
  BY <1>1, <1>2, <1>3, <1>4, <1>5, ForgetsHolds DEF Quiet, Copied, Background

LEMMA JoinAssociateStep ==
  ASSUME JoinInv, NEW d \in Devices \ {Coord}, zb_mlme_associate_indication(d)
  PROVE  JoinInv' /\ JoinSteps
<1>0. PICK p \in Devices, router \in BOOLEAN :
        /\ JoinInv' /\ join[d].st # "idle" /\ p = join[d].par /\ router = join[d].router
        /\ \E acc : Associates(p, d, router, acc)
  BY JoinAssociate
<1>1. PICK acc :
        /\ JoinInv' /\ join[d].st # "idle" /\ p = join[d].par /\ router = join[d].router
        /\ Associates(p, d, router, acc)
  BY <1>0
<1>2. /\ nwk[p].started /\ ~nwk[d].joined
      /\ acc.w \in Selves /\ KeepsSelf(nwk[p], acc.w) /\ acc.addr \in Addrs
      /\ Refound(p, d, router, acc) \/ Placed(p, d, router, acc) \/ Refused(p, acc)
      /\ nwk'[p] = acc.w /\ \A e \in Devices \ {p} : nwk'[e] = nwk[e]
      /\ nib' = nib /\ seen' = seen
  BY <1>1 DEF Associates
<1>3. \A e \in Devices : nwk[e].rnum \in Nat /\ nwk[e].ednum \in Nat
  BY DEF JoinInv, JoinTyped, NwkTypes, Selves
<1>4. /\ acc.w.rnum >= nwk[p].rnum /\ acc.w.ednum >= nwk[p].ednum
      /\ \/ acc.w.rnum = nwk[p].rnum /\ acc.w.ednum = nwk[p].ednum
         \/ nwk[p].depth < nib.lm
  <2>1. CASE Refound(p, d, router, acc)
    BY <2>1, <1>3 DEF Refound
  <2>2. CASE Placed(p, d, router, acc)
    BY <2>2, <1>3 DEF Placed, OneMore, HasRoom
  <2>3. CASE Refused(p, acc)
    <3>1. acc.w.rnum \in Nat /\ acc.w.ednum \in Nat
      BY <1>2 DEF Selves
    <3> QED
      BY <2>3, <3>1, <1>3 DEF Refused
  <2> QED
    BY <2>1, <2>2, <2>3, <1>2
<1>5. nwk[p].joined /\ nwk[p].router
  BY <1>2 DEF JoinInv, SelvesSound, SelfSound
<1>6. CountsGrow /\ \A e \in Devices : Stays(e)
  <2>1. \A e \in Devices : Stays(e)
    BY <1>2 DEF KeepsSelf, Stays
  <2> QED
    BY <2>1, <1>2, <1>3, <1>4, <1>5 DEF CountsGrow
<1>7. Background
  <2>1. BeaconsKept
    BY <1>2 DEF BeaconsKept
  <2>2. AttemptsKept
    BY <1>1 DEF Associates, AttemptsKept
  <2> QED
    BY <2>1, <2>2, <1>2, <1>6 DEF Background
<1>8. ASSUME NEW q \in Devices, NEW e \in Devices, NEW a, NEW s, Holds(q, e, a, s)'
      PROVE  \/ Holds(q, e, a, s)
             \/ q = p /\ e = d /\ a = acc.addr /\ s = router /\ acc.addr # NoAddr
  <2>1. a # NoAddr
    BY <1>8 DEF Holds
  <2>2. CASE nbt'[q][e].addr = a /\ nbt'[q][e].router = s
    <3>1. \/ nbt'[q][e] = nbt[q][e]
          \/ nbt'[q][e] = Absent
          \/ /\ q = p /\ e = d /\ acc.addr # NoAddr
             /\ nbt'[q][e] = [addr |-> acc.addr, router |-> router, rel |-> "child"]
      BY <1>1 DEF Associates
    <3>2. CASE nbt'[q][e] = nbt[q][e]
      BY <2>1, <2>2, <3>2 DEF Holds
    <3>3. CASE nbt'[q][e] = Absent
      BY <2>1, <2>2, <3>3 DEF Absent
    <3>4. CASE /\ q = p /\ e = d /\ acc.addr # NoAddr
               /\ nbt'[q][e] = [addr |-> acc.addr, router |-> router, rel |-> "child"]
      <4>1. nbt'[q][e].addr = acc.addr /\ nbt'[q][e].router = router
        BY <3>4
      <4> QED
        BY <4>1, <2>2, <3>4
    <3> QED
      BY <3>1, <3>2, <3>3, <3>4
  <2>3. ASSUME NEW k \in DOMAIN pendq'[q], pendq'[q][k].dev = e,
               pendq'[q][k].addr = a, pendq'[q][k].router = s
        PROVE  \/ Holds(q, e, a, s)
               \/ q = p /\ e = d /\ a = acc.addr /\ s = router /\ acc.addr # NoAddr
    <3>1. \/ \E j \in DOMAIN pendq[q] : pendq'[q][k] = pendq[q][j]
          \/ q = p /\ pendq'[q][k] = [dev |-> d, addr |-> acc.addr, router |-> router]
      BY <1>1 DEF Associates
    <3>2. CASE \E j \in DOMAIN pendq[q] : pendq'[q][k] = pendq[q][j]
      BY <2>1, <2>3, <3>2 DEF Holds
    <3>3. CASE q = p /\ pendq'[q][k] = [dev |-> d, addr |-> acc.addr, router |-> router]
      <4>1. pendq'[q][k].dev = d /\ pendq'[q][k].addr = acc.addr /\ pendq'[q][k].router = router
        BY <3>3
      <4> QED
        BY <4>1, <2>1, <2>3, <3>3
    <3> QED
      BY <3>1, <3>2, <3>3
  <2> QED
    BY <1>8, <2>2, <2>3 DEF Holds
<1>9. CASE Placed(p, d, router, acc)
  <2>1. /\ HasRoom(nwk[p], router) /\ OneMore(nwk[p], nwk'[p], router)
        /\ acc.addr = Assigned(nwk[p], router)
    BY <1>2, <1>9 DEF Placed
  <2>2. \A q \in Devices, e \in Devices : \A a, s :
         Holds(q, e, a, s)' =>
           \/ Copied(q, e, a, s)
           \/ q = p /\ e = d /\ a = Assigned(nwk[p], router) /\ s = router
    BY <1>8, <2>1 DEF Copied
  <2>3. Gives(p, d, router)
    BY <1>1, <1>2, <1>5, <1>6, <1>7, <2>1, <2>2 DEF Gives
  <2> QED
    BY <1>1, <2>3 DEF JoinSteps
<1>10. CASE Refound(p, d, router, acc) \/ Refused(p, acc)
  <2>1. acc.addr # NoAddr => Holds(p, d, acc.addr, router)
    BY <1>10 DEF Refound, Refused, Holds
  <2>2. \A q \in Devices, e \in Devices : \A a, s :
          Holds(q, e, a, s)' => Copied(q, e, a, s)
    BY <1>8, <2>1 DEF Copied
  <2>3. Quiet
    BY <1>6, <1>7, <2>2 DEF Quiet
  <2> QED
    BY <1>1, <2>3 DEF JoinSteps
<1> QED
  BY <1>2, <1>9, <1>10

\* zdo_device_annce_srv(): the receiver q writes the address of d.
LEMMA JoinAnnounced ==
  ASSUME JoinInv, NEW d \in Devices, NEW q \in Devices, NEW direct \in BOOLEAN,
         DeviceAnnce(d, q, direct)
  PROVE  JoinInv' /\ Quiet
<1> DEFINE e == nbt[q][d]
           rel == IF e.rel = "child" /\ e.addr # nwk[d].addr THEN "previous"
                  ELSE IF direct /\ e.rel \in {"absent", "none"}
                       THEN IF nwk[d].router THEN "sibling" ELSE "none"
                       ELSE e.rel
           router == IF direct /\ (e.rel = "absent" \/ rel = "previous")
                     THEN nwk[d].router ELSE e.router
<1>1. /\ nib' = nib /\ nwk' = nwk /\ pendq' = pendq /\ join' = join /\ seen' = seen
      /\ d # q /\ nwk[d].joined
      /\ e.rel = "absent" => direct /\ ~TableFull(q)
      /\ nbt' = [nbt EXCEPT ![q][d] = [addr |-> nwk[d].addr, router |-> router, rel |-> rel]]
      /\ used' = [used EXCEPT ![q] = IF e.rel = "absent" THEN @ + 1 ELSE @]
  BY DEF DeviceAnnce
<1>2. /\ TableTypes /\ TablesSound /\ NwkTypes /\ SelvesSound
      /\ nbt \in [Devices -> [Devices -> Entries]] /\ used \in [Devices -> Nat]
      /\ e \in Entries /\ nwk[d] \in Selves
  BY DEF JoinInv, JoinTyped, TableTypes, NwkTypes
<1>3. nwk[d].addr \in Addrs /\ nwk[d].addr # NoAddr /\ nwk[d].router \in BOOLEAN
      /\ e.rel \in Rels /\ e.router \in BOOLEAN
  BY <1>1, <1>2 DEF Selves, Entries, SelvesSound, SelfSound
<1>4. rel \in Rels /\ rel # "absent"
  BY <1>1, <1>3 DEF Rels
<1>5. router \in BOOLEAN /\ (router => nwk[d].router \/ (e.router /\ e.rel # "absent"))
  BY <1>1, <1>3
<1> HIDE DEF rel, router
<1>6. PICK x \in Entries : x = [addr |-> nwk[d].addr, router |-> router, rel |-> rel]
  BY <1>3, <1>4, <1>5 DEF Entries
<1>7. x.addr = nwk[d].addr /\ x.router = router /\ x.rel = rel
  BY <1>6
<1>8. PICK u \in Nat : u = IF e.rel = "absent" THEN used[q] + 1 ELSE used[q]
  BY <1>2
<1>9. Writes(q, d, x)
  BY <1>1, <1>2, <1>6 DEF Writes
<1>10. Enters(q, d, x, u)
  <2>1. used' = [used EXCEPT ![q] = u]
    BY <1>1, <1>2, <1>8
  <2>2. used[q] \in Nat /\ used[q] < ZB_NEIGHBOR_TABLE_SIZE /\ ZB_NEIGHBOR_TABLE_SIZE \in Nat
    BY <1>2, JoinAssumption DEF TablesSound
  <2>3. e.rel = "absent" => used[q] # ZB_NEIGHBOR_TABLE_SIZE - 1
    BY <1>1 DEF TableFull
  <2>4. used[q] <= u /\ u < ZB_NEIGHBOR_TABLE_SIZE /\ (e.rel = "absent" => used[q] < u)
    BY <1>8, <2>2, <2>3
  <2>5. x.rel = "absent" <=> x.addr = NoAddr
    BY <1>3, <1>4, <1>7
  <2> QED
    BY <1>9, <2>1, <2>4, <2>5 DEF Enters
<1>11. /\ TableTypes' /\ TablesSound'
       /\ \A p \in Devices, c \in Devices : nbt'[p][c] = IF p = q /\ c = d THEN x ELSE nbt[p][c]
  BY <1>2, <1>10, EntryWritten
<1>12. NwkTypes' /\ SelvesSound' /\ CountsGrow /\ \A c \in Devices : Stays(c)
  BY <1>1, SelvesUnchanged
<1>13. AttemptTypes' /\ AttemptsSound' /\ BeaconsKept /\ AttemptsKept
  BY <1>1, AttemptsUnchanged
<1>14. JoinInv'
  BY <1>1, <1>11, <1>12, <1>13, QueuesUnchanged DEF JoinInv, JoinTyped
<1>15. ASSUME NEW p \in Devices, NEW c \in Devices, NEW a, NEW r, Holds(p, c, a, r)'
       PROVE  Copied(p, c, a, r)
  <2>1. a # NoAddr
    BY <1>15 DEF Holds
  <2>2. CASE p = q /\ c = d /\ nbt'[p][c].addr = a /\ nbt'[p][c].router = r
    <3>1. a = nwk[d].addr /\ r = router
      BY <2>2, <1>7, <1>11
    <3>2. e.router /\ e.rel # "absent" => e.addr \in Addrs /\ Holds(q, d, e.addr, TRUE)
      BY <1>2, <1>3 DEF Holds, Entries, TablesSound
    <3>3. ASSUME r, ~nwk[d].router
          PROVE  \E b \in Addrs : Holds(q, d, b, r)
      <4>1. r = TRUE /\ e.router /\ e.rel # "absent"
        BY <3>1, <3>3, <1>5
      <4> QED
        BY <4>1, <3>2
    <3>4. Announced(p, c, a, r)
      BY <3>1, <3>3, <2>2, <1>1 DEF Announced
    <3> QED
      BY <3>4 DEF Copied
  <2>3. CASE ~(p = q /\ c = d) /\ nbt'[p][c].addr = a /\ nbt'[p][c].router = r
    BY <2>1, <2>3, <1>11 DEF Holds, Copied
  <2>4. CASE \E k \in DOMAIN pendq'[p] : /\ pendq'[p][k].dev = c /\ pendq'[p][k].addr = a
                                         /\ pendq'[p][k].router = r
    BY <2>1, <2>4, <1>1 DEF Holds, Copied
  <2> QED
    BY <1>15, <2>2, <2>3, <2>4 DEF Holds
<1> QED
  BY <1>1, <1>12, <1>13, <1>14, <1>15 DEF Quiet, Background

\* zb_nwk_do_leave(): the address goes, and the entries of those that hear it.
LEMMA JoinLeft ==
  ASSUME JoinInv, NEW d \in Movers, NEW hear, zb_nwk_do_leave(d, hear)
  PROVE  JoinInv' /\ Quiet
<1>1. /\ nib' = nib /\ used' = used /\ pendq' = pendq /\ join' = join /\ seen' = seen
      /\ nwk' = [nwk EXCEPT ![d].joined = FALSE, ![d].started = FALSE, ![d].addr = NoAddr]
      /\ nbt' = [q \in Devices |->
                   IF q \in hear /\ nbt[q][d].addr = nwk[d].addr
                   THEN [nbt[q] EXCEPT ![d] = Absent] ELSE nbt[q]]
      /\ d \in Devices
  BY JoinAssumption DEF zb_nwk_do_leave
<1>2. /\ TableTypes /\ TablesSound /\ NwkTypes /\ SelvesSound
      /\ nbt \in [Devices -> [Devices -> Entries]] /\ used \in [Devices -> Nat]
  BY DEF JoinInv, JoinTyped, TableTypes
<1>3. PICK w \in Selves : w = nwk[d]
  BY <1>1, <1>2 DEF NwkTypes
<1> DEFINE v == [w EXCEPT !.joined = FALSE, !.started = FALSE, !.addr = NoAddr]
<1>4. nwk' = [nwk EXCEPT ![d] = v]
  BY <1>1, <1>2, <1>3 DEF NwkTypes
<1>5. /\ v \in Selves
      /\ v.router = w.router /\ v.depth = w.depth /\ v.cskip = w.cskip
      /\ v.rnum = w.rnum /\ v.ednum = w.ednum
      /\ ~v.started /\ ~v.joined /\ v.addr = NoAddr
  BY DEF Selves, Addrs
<1> HIDE DEF v
<1>6. SelfSound(v)
  BY <1>1, <1>2, <1>3, <1>5 DEF SelvesSound, SelfSound
<1>7. nwk'[d] = v /\ \A e \in Devices \ {d} : nwk'[e] = nwk[e]
  BY <1>1, <1>2, <1>4 DEF NwkTypes
<1>8. NwkTypes' /\ SelvesSound'
  <2>1. NwkTypes'
    <3>1. nwk' \in [Devices -> Selves]
      BY <1>2, <1>4, <1>5 DEF NwkTypes
    <3> QED
      BY <3>1, <1>1, <1>2 DEF NwkTypes
  <2>2. \A e \in Devices : SelfSound(nwk'[e])
    BY <1>2, <1>6, <1>7 DEF SelvesSound
  <2> QED
    BY <2>1, <2>2, <1>1, SelvesSame
<1>9. CountsGrow /\ \A e \in Devices : Stays(e) \/ Leaves(e)
  <2>1. \A p \in Devices : nwk[p].rnum \in Nat /\ nwk[p].ednum \in Nat
    BY <1>2 DEF NwkTypes, Selves
  <2>2. \A e \in Devices : nwk'[e].rnum = nwk[e].rnum /\ nwk'[e].ednum = nwk[e].ednum
    BY <1>3, <1>5, <1>7
  <2>3. Leaves(d) /\ \A e \in Devices \ {d} : Stays(e)
    BY <1>5, <1>7 DEF Leaves, Stays
  <2> QED
    BY <2>1, <2>2, <2>3 DEF CountsGrow
<1>10. AttemptTypes' /\ AttemptsSound' /\ BeaconsKept /\ AttemptsKept
  <2>1. \A e \in Devices : nwk'[e].joined => nwk[e].joined
    BY <1>5, <1>7
  <2> QED
    BY <2>1, <1>1, AttemptsUnchanged
<1>11. Absent \in Entries /\ Absent.addr = NoAddr /\ Absent.rel = "absent"
  BY DEF Absent, Entries, Addrs, Rels
<1>12. ASSUME NEW q \in Devices
       PROVE  /\ nbt'[q] \in [Devices -> Entries]
              /\ \A e \in Devices : nbt'[q][e] = nbt[q][e] \/ nbt'[q][e] = Absent
  BY <1>1, <1>2, <1>11
<1>13. TableTypes'
  <2>1. nbt' = [q \in Devices |-> nbt'[q]]
    BY <1>1
  <2>2. nbt' \in [Devices -> [Devices -> Entries]]
    BY <2>1, <1>12
  <2> QED
    BY <2>2, <1>1, <1>2 DEF TableTypes
<1>14. TablesSound'
  <2> SUFFICES ASSUME NEW q \in Devices
               PROVE  /\ Cardinality(Taken(nbt'[q])) <= used[q] /\ used[q] < ZB_NEIGHBOR_TABLE_SIZE
                      /\ \A e \in Devices : nbt'[q][e].rel = "absent" <=> nbt'[q][e].addr = NoAddr
    BY <1>1 DEF TablesSound, Taken
  <2>1. \A e \in Devices : nbt'[q][e].rel # "absent" => nbt[q][e].rel # "absent"
    BY <1>11, <1>12
  <2>2. /\ Cardinality(Taken(nbt[q])) \in Nat /\ Cardinality(Taken(nbt'[q])) \in Nat
        /\ Cardinality(Taken(nbt'[q])) <= Cardinality(Taken(nbt[q]))
    <3>1. PICK t, u : t = nbt[q] /\ u = nbt'[q]
      OBVIOUS
    <3>2. /\ Cardinality(Taken(t)) \in Nat /\ Cardinality(Taken(u)) \in Nat
          /\ Cardinality(Taken(u)) <= Cardinality(Taken(t))
      BY <1>1, <2>1, <3>1, TakenCounts
    <3> QED
      BY <3>1, <3>2
  <2>3. Cardinality(Taken(nbt[q])) <= used[q] /\ used[q] < ZB_NEIGHBOR_TABLE_SIZE /\ used[q] \in Nat
    BY <1>2 DEF TablesSound
  <2>4. \A e \in Devices : nbt'[q][e].rel = "absent" <=> nbt'[q][e].addr = NoAddr
    BY <1>2, <1>11, <1>12 DEF TablesSound
  <2> QED
    BY <2>2, <2>3, <2>4
<1>15. JoinInv'
  BY <1>1, <1>8, <1>10, <1>13, <1>14, QueuesUnchanged DEF JoinInv, JoinTyped
<1>16. Forgets
  BY <1>1, <1>12 DEF Forgets
<1> QED
  BY <1>1, <1>9, <1>10, <1>15, <1>16, ForgetsHolds DEF Quiet, Copied, Background

-----------------------------------------------------------------------------
(* The response at the child.                                               *)

\* The devices whose beacons may get an entry.
Fresh(d) == {p \in Devices : seen[d][p].addr # NoAddr /\ nbt[d][p].rel = "absent"}

\* t has entries for kept, which stand for the devices whose beacons were seen.
BeaconsEntered(d, kept, t) ==
    /\ t \in [Devices -> Entries]
    /\ \A p \in Devices : /\ t[p].rel = "absent" <=> t[p].addr = NoAddr
                          /\ \/ t[p].addr = nbt[d][p].addr /\ t[p].router = nbt[d][p].router
                             \/ /\ t[p].addr = seen[d][p].addr /\ t[p].addr # NoAddr
                                /\ t[p].router = TRUE
    /\ IsFiniteSet(kept) /\ Cardinality(kept) \in Nat /\ Cardinality(Taken(nbt[d])) \in Nat
    /\ Cardinality(Taken(t)) <= Cardinality(Taken(nbt[d])) + Cardinality(kept)

LEMMA BeaconEntries ==
  ASSUME JoinInv, NEW d \in Devices, NEW par \in Devices, NEW kept, kept \subseteq Fresh(d),
         NEW t, t = FromBeacons(d, par, kept)
  PROVE  BeaconsEntered(d, kept, t)
<1>1. /\ nbt[d] \in [Devices -> Entries] /\ seen[d] \in [Devices -> Beacons] /\ TablesSound
      /\ kept \subseteq Devices
  BY DEF JoinInv, JoinTyped, TableTypes, AttemptTypes, Fresh
<1>2. ASSUME NEW p \in Devices
      PROVE  /\ t[p] \in Entries
             /\ t[p].rel = "absent" <=> t[p].addr = NoAddr
             /\ \/ t[p].addr = nbt[d][p].addr /\ t[p].router = nbt[d][p].router
                \/ /\ t[p].addr = seen[d][p].addr /\ t[p].addr # NoAddr /\ t[p].router = TRUE
             /\ t[p].rel # "absent" => nbt[d][p].rel # "absent" \/ p \in kept
  <2>1. CASE p \in kept
    <3>1. PICK r \in {"parent", "none"} : r = IF p = par THEN "parent" ELSE "none"
      OBVIOUS
    <3>2. t[p] = [addr |-> seen[d][p].addr, router |-> TRUE, rel |-> r]
      BY <2>1, <3>1 DEF FromBeacons
    <3>3. seen[d][p].addr \in Addrs /\ seen[d][p].addr # NoAddr
      BY <2>1, <1>1 DEF Beacons, Fresh
    <3>4. t[p] \in Entries
      BY <3>2, <3>3 DEF Entries, Rels
    <3>5. t[p].addr = seen[d][p].addr /\ t[p].router = TRUE /\ t[p].rel # "absent"
      BY <3>1, <3>2
    <3> QED
      BY <3>3, <3>4, <3>5, <2>1
  <2>2. CASE p \notin kept /\ p = par /\ nbt[d][p].rel # "absent"
    <3>1. PICK e \in Entries : e = nbt[d][p]
      BY <1>1
    <3>2. t[p] = [e EXCEPT !.rel = "parent"]
      BY <2>2, <3>1 DEF FromBeacons
    <3>3. t[p] \in Entries /\ t[p].addr = e.addr /\ t[p].router = e.router /\ t[p].rel = "parent"
      BY <3>2 DEF Entries, Rels
    <3>4. e.addr # NoAddr
      BY <2>2, <3>1, <1>1 DEF TablesSound
    <3> QED
      BY <3>1, <3>3, <3>4, <2>2
  <2>3. CASE p \notin kept /\ ~(p = par /\ nbt[d][p].rel # "absent")
    <3>1. t[p] = nbt[d][p]
      BY <2>3 DEF FromBeacons
    <3> QED
      BY <3>1, <1>1 DEF TablesSound
  <2> QED
    BY <2>1, <2>2, <2>3
<1>3. t \in [Devices -> Entries]
  <2>1. t = [p \in Devices |-> t[p]]
    BY DEF FromBeacons
  <2> QED
    BY <2>1, <1>2
<1>4. IsFiniteSet(Devices) /\ Taken(nbt[d]) \subseteq Devices
  BY JoinAssumption DEF Taken
<1>5. IsFiniteSet(kept) /\ IsFiniteSet(Taken(nbt[d]))
  BY <1>1, <1>4, FS_Subset
<1>6. Taken(t) \subseteq Taken(nbt[d]) \cup kept
  BY <1>2 DEF Taken
<1>7. /\ IsFiniteSet(Taken(nbt[d]) \cup kept)
      /\ Cardinality(Taken(nbt[d]) \cup kept)
           = Cardinality(Taken(nbt[d])) + Cardinality(kept) - Cardinality(Taken(nbt[d]) \cap kept)
  BY <1>5, FS_Union
<1>8. Cardinality(Taken(nbt[d]) \cap kept) \in Nat
  <2>1. IsFiniteSet(Taken(nbt[d]) \cap kept)
    BY <1>5, FS_Intersection
  <2> QED
    BY <2>1, FS_CardinalityType
<1>9. Cardinality(Taken(t)) <= Cardinality(Taken(nbt[d]) \cup kept)
  BY <1>6, <1>7, FS_Subset
<1>10. /\ Cardinality(kept) \in Nat /\ Cardinality(Taken(nbt[d])) \in Nat
       /\ Cardinality(Taken(t)) \in Nat /\ Cardinality(Taken(nbt[d]) \cup kept) \in Nat
  <2>1. IsFiniteSet(Taken(t))
    BY <1>6, <1>7, FS_Subset
  <2> QED
    BY <2>1, <1>5, <1>7, FS_CardinalityType
<1>11. Cardinality(Taken(t)) <= Cardinality(Taken(nbt[d])) + Cardinality(kept)
  BY <1>7, <1>8, <1>9, <1>10
<1> QED
  BY <1>2, <1>3, <1>5, <1>10, <1>11 DEF BeaconsEntered

\* What the device that joins knows of itself.
JoinedAs(w, a, router, depth) ==
    [w EXCEPT !.joined = TRUE, !.addr = a, !.router = router, !.depth = depth,
              !.cskip = Cskip(nib, depth)]

LEMMA JoinedSound ==
  ASSUME NwkTypes, NEW w \in Selves, SelfSound(w), ~w.joined, NEW a \in Nat,
         NEW router \in BOOLEAN, NEW depth \in Nat, depth <= nib.lm,
         NEW v, v = JoinedAs(w, a, router, depth)
  PROVE  /\ v \in Selves /\ SelfSound(v) /\ v.joined /\ v.addr = a /\ v.router = router
         /\ v.depth = depth /\ v.rnum = w.rnum /\ v.ednum = w.ednum
<1>1. PICK c \in Int : c = Cskip(nib, depth)
  BY CskipNumber
<1>2. v = [w EXCEPT !.joined = TRUE, !.addr = a, !.router = router, !.depth = depth, !.cskip = c]
  BY <1>1 DEF JoinedAs
<1>3. /\ v.joined /\ v.addr = a /\ v.router = router /\ v.depth = depth /\ v.cskip = c
      /\ v.rnum = w.rnum /\ v.ednum = w.ednum /\ v.started = w.started
  BY <1>2 DEF Selves
<1>4. v \in Selves
  BY <1>2 DEF Selves, Addrs
<1>5. a # NoAddr
  BY DEF NoAddr
<1>6. SelfSound(v)
  BY <1>1, <1>3, <1>5 DEF SelfSound
<1> QED
  BY <1>3, <1>4, <1>6

\* zb_mlme_associate_confirm() with the address of the response i.
LEMMA JoinTakes ==
  ASSUME JoinInv, NEW d \in Devices \ {Coord}, NEW i \in DOMAIN pendq[join[d].par],
         NEW acked \in BOOLEAN, ResponseReceived(d, i, acked),
         pendq[join[d].par][i].addr # NoAddr
  PROVE  JoinInv' /\ Takes(d)
<1>1. /\ TableTypes /\ TablesSound /\ NwkTypes /\ SelvesSound /\ QueueTypes /\ QueuesFit
      /\ AttemptTypes /\ AttemptsSound
  BY DEF JoinInv, JoinTyped
<1>2. PICK p \in Devices : p = join[d].par
  BY <1>1 DEF AttemptTypes, Attempts
<1>3. PICK r \in Responses : r = pendq[p][i]
  BY <1>1, <1>2 DEF QueueTypes
<1>4. PICK a \in Nat : a = r.addr
  BY <1>2, <1>3 DEF Responses, Addrs
<1>5. PICK tab : tab = CommStatus(nbt[p], d, acked)
  OBVIOUS
<1>6. /\ join[d].st = "wait" /\ r.dev = d /\ (CrossAnswers \/ r.router = join[d].router)
      /\ Removes(p, i) /\ nib' = nib /\ JoinDone(d, a, tab)
  BY <1>2, <1>3, <1>4, <1>5 DEF ResponseReceived, FirstFor, Removes
<1>7. PICK b \in Beacons : b = seen[d][p]
  BY <1>1 DEF AttemptTypes
<1>8. PICK depth \in Nat : depth = b.depth + 1
  BY <1>7 DEF Beacons
<1>9. ~nwk[d].joined /\ b.addr # NoAddr /\ b.depth < nib.lm /\ depth <= nib.lm /\ p # d
  <2>1. ~nwk[d].joined /\ seen[d][p].open /\ BeaconSound(seen[d][p]) /\ seen[d][d].addr = NoAddr
    BY <1>1, <1>2, <1>6 DEF AttemptsSound, AttemptSound
  <2>2. b.addr # NoAddr /\ b.depth < nib.lm
    BY <2>1, <1>7 DEF BeaconSound
  <2>3. nib.lm \in Nat /\ b.depth \in Nat
    BY <1>1, Limits DEF Beacons
  <2> QED
    BY <2>1, <2>2, <2>3, <1>7, <1>8
<1>10. PICK w \in Selves : w = nwk[d]
  BY <1>1 DEF NwkTypes
<1>11. PICK router \in BOOLEAN : router = join[d].router
  BY <1>1 DEF AttemptTypes, Attempts
<1>12. PICK v : v = JoinedAs(w, a, router, depth)
  OBVIOUS
<1>13. /\ v \in Selves /\ SelfSound(v) /\ v.joined /\ v.addr = a /\ v.router = router
       /\ v.depth = depth /\ v.rnum = w.rnum /\ v.ednum = w.ednum
  BY <1>1, <1>9, <1>10, <1>12, JoinedSound DEF SelvesSound
<1>14. nwk' = [nwk EXCEPT ![d] = v]
  <2>1. nwk' = [nwk EXCEPT ![d].joined = TRUE, ![d].addr = a,
                           ![d].router = router,
                           ![d].depth = depth, ![d].cskip = Cskip(nib, depth)]
    BY <1>2, <1>6, <1>7, <1>8, <1>11 DEF JoinDone
  <2>2. PICK c : c = Cskip(nib, depth)
    OBVIOUS
  <2>3. v = [w EXCEPT !.joined = TRUE, !.addr = a, !.router = router, !.depth = depth, !.cskip = c]
    BY <1>12, <2>2 DEF JoinedAs
  <2> QED
    BY <2>1, <2>2, <2>3, <1>1, <1>10 DEF NwkTypes
<1>15. nwk'[d] = v /\ \A e \in Devices \ {d} : nwk'[e] = nwk[e]
  BY <1>1, <1>14 DEF NwkTypes
<1>16. NwkTypes' /\ SelvesSound'
  <2>1. nwk' \in [Devices -> Selves]
    BY <1>1, <1>13, <1>14 DEF NwkTypes
  <2>2. NwkTypes'
    BY <2>1, <1>1, <1>6 DEF NwkTypes
  <2>3. \A e \in Devices : SelfSound(nwk'[e])
    BY <1>1, <1>13, <1>15 DEF SelvesSound
  <2> QED
    BY <2>2, <2>3, <1>6, SelvesSame
<1>17. PICK kept \in SUBSET Fresh(d) :
         /\ used[d] + Cardinality(kept) < ZB_NEIGHBOR_TABLE_SIZE
         /\ used' = [used EXCEPT ![d] = @ + Cardinality(kept)]
         /\ nbt' = [nbt EXCEPT ![p] = tab, ![d] = FromBeacons(d, p, kept)]
  BY <1>2, <1>6 DEF JoinDone, Fresh
<1>18. PICK t : t = FromBeacons(d, p, kept)
  OBVIOUS
<1>19. /\ t \in [Devices -> Entries]
       /\ \A q \in Devices : /\ t[q].rel = "absent" <=> t[q].addr = NoAddr
                             /\ \/ t[q].addr = nbt[d][q].addr /\ t[q].router = nbt[d][q].router
                                \/ /\ t[q].addr = seen[d][q].addr /\ t[q].addr # NoAddr
                                   /\ t[q].router = TRUE
       /\ IsFiniteSet(kept) /\ Cardinality(kept) \in Nat /\ Cardinality(Taken(nbt[d])) \in Nat
       /\ Cardinality(Taken(t)) <= Cardinality(Taken(nbt[d])) + Cardinality(kept)
  <2>1. kept \subseteq Fresh(d)
    OBVIOUS
  <2>2. BeaconsEntered(d, kept, t)
    BY <2>1, <1>18, BeaconEntries
  <2> QED
    BY <2>2 DEF BeaconsEntered
<1>20. /\ tab \in [Devices -> Entries]
       /\ \A q \in Devices : tab[q] = nbt[p][q] \/ tab[q] = Absent
       /\ Absent \in Entries /\ Absent.addr = NoAddr /\ Absent.rel = "absent"
  <2>1. nbt[p] \in [Devices -> Entries] /\ Absent \in Entries
        /\ Absent.addr = NoAddr /\ Absent.rel = "absent"
    BY <1>1 DEF TableTypes, Absent, Entries, Addrs, Rels
  <2> QED
    BY <2>1, <1>5 DEF CommStatus
<1>35. nbt' = [nbt EXCEPT ![p] = tab, ![d] = t]
  BY <1>17, <1>18
<1>21. /\ nbt'[p] = tab /\ nbt'[d] = t /\ \A q \in Devices \ {p, d} : nbt'[q] = nbt[q]
  BY <1>1, <1>9, <1>35 DEF TableTypes
<1>36. used[d] + Cardinality(kept) < ZB_NEIGHBOR_TABLE_SIZE
  BY <1>17
<1>22. TableTypes'
  BY <1>1, <1>17, <1>19, <1>20, <1>35 DEF TableTypes
<1>23. TablesSound'
  <2> SUFFICES ASSUME NEW q \in Devices
               PROVE  /\ Cardinality(Taken(nbt'[q])) <= used'[q] /\ used'[q] < ZB_NEIGHBOR_TABLE_SIZE
                      /\ \A e \in Devices : nbt'[q][e].rel = "absent" <=> nbt'[q][e].addr = NoAddr
    BY DEF TablesSound, Taken
  <2>0. used \in [Devices -> Nat] /\ Cardinality(Taken(nbt[q])) <= used[q] /\ used[q] \in Nat
        /\ used[q] < ZB_NEIGHBOR_TABLE_SIZE
    BY <1>1 DEF TableTypes, TablesSound
  <2>1. CASE q = d
    <3>1. used'[q] = used[q] + Cardinality(kept)
      BY <2>0, <2>1, <1>17
    <3>2. Cardinality(Taken(t)) \in Nat
      BY <1>19, TakenCounts
    <3>3. Cardinality(Taken(t)) <= used[q] + Cardinality(kept)
      BY <2>0, <2>1, <3>2, <1>19
    <3> QED
      BY <3>1, <3>3, <2>1, <1>36, <1>19, <1>21
  <2>2. CASE q = p
    <3>1. used'[q] = used[q]
      BY <2>0, <2>2, <1>9, <1>17
    <3>2. /\ Cardinality(Taken(nbt[p])) \in Nat /\ Cardinality(Taken(tab)) \in Nat
          /\ Cardinality(Taken(tab)) <= Cardinality(Taken(nbt[p]))
      <4>1. \A e \in Devices : tab[e].rel # "absent" => nbt[p][e].rel # "absent"
        BY <1>20
      <4>2. PICK u : u = nbt[p]
        OBVIOUS
      <4>3. /\ Cardinality(Taken(u)) \in Nat /\ Cardinality(Taken(tab)) \in Nat
            /\ Cardinality(Taken(tab)) <= Cardinality(Taken(u))
        BY <4>1, <4>2, TakenCounts
      <4> QED
        BY <4>2, <4>3
    <3>3. \A e \in Devices : tab[e].rel = "absent" <=> tab[e].addr = NoAddr
      BY <1>1, <1>20 DEF TablesSound
    <3>4. Cardinality(Taken(tab)) <= used[q]
      BY <3>2, <2>0, <2>2
    <3> QED
      BY <3>1, <3>3, <3>4, <2>0, <2>2, <1>21
  <2>3. CASE q # d /\ q # p
    <3>1. used'[q] = used[q]
      BY <2>0, <2>3, <1>17
    <3> QED
      BY <3>1, <2>0, <2>3, <1>1, <1>21 DEF TablesSound
  <2> QED
    BY <2>1, <2>2, <2>3
<1>24. /\ QueueTypes' /\ QueuesFit'
       /\ \A q \in Devices : \A k \in DOMAIN pendq'[q] : \E j \in DOMAIN pendq[q] :
            pendq'[q][k] = pendq[q][j]
  BY <1>1, <1>2, <1>6, QueueShrinks
<1>25. /\ join' = [join EXCEPT ![d] = NoJoin] /\ seen' = [seen EXCEPT ![d] = NoBeacons]
       /\ NoJoin \in Attempts /\ NoJoin.st = "idle"
       /\ NoBeacons \in [Devices -> Beacons]
       /\ \A q \in Devices : NoBeacons[q].addr = NoAddr /\ ~NoBeacons[q].open
  BY <1>6, JoinAssumption
     DEF JoinDone, NoJoin, Attempts, NoBeacons, NotSeen, Beacons, Addrs
<1>26. /\ join'[d] = NoJoin /\ \A e \in Devices \ {d} : join'[e] = join[e]
       /\ seen'[d] = NoBeacons /\ \A e \in Devices \ {d} : seen'[e] = seen[e]
  BY <1>1, <1>25 DEF AttemptTypes
<1>27. AttemptTypes'
  BY <1>1, <1>25 DEF AttemptTypes
<1>28. AttemptsSound'
  <2> SUFFICES ASSUME NEW e \in Devices
               PROVE  AttemptSound(e)'
    BY DEF AttemptsSound
  <2>1. CASE e = d
    BY <2>1, <1>25, <1>26 DEF AttemptSound, BeaconSound
  <2>2. CASE e # d
    BY <2>2, <1>1, <1>6, <1>15, <1>26 DEF AttemptsSound, AttemptSound, BeaconSound
  <2> QED
    BY <2>1, <2>2
<1>29. JoinInv'
  BY <1>16, <1>22, <1>23, <1>24, <1>27, <1>28 DEF JoinInv, JoinTyped
<1>30. Background
  <2>1. CountsGrow
    <3>1. \A e \in Devices : nwk[e].rnum \in Nat /\ nwk[e].ednum \in Nat
      BY <1>1 DEF NwkTypes, Selves
    <3>2. \A e \in Devices : nwk'[e].rnum = nwk[e].rnum /\ nwk'[e].ednum = nwk[e].ednum
      BY <1>10, <1>13, <1>15
    <3> QED
      BY <3>1, <3>2 DEF CountsGrow
  <2>2. BeaconsKept
    BY <1>25, <1>26 DEF BeaconsKept
  <2>3. AttemptsKept
    BY <1>25, <1>26 DEF AttemptsKept
  <2> QED
    BY <2>1, <2>2, <2>3, <1>6 DEF Background
<1>31. ASSUME NEW q \in Devices, NEW e \in Devices, NEW b1, NEW s, Holds(q, e, b1, s)'
       PROVE  Copied(q, e, b1, s)
  <2>1. b1 # NoAddr
    BY <1>31 DEF Holds
  <2>2. CASE nbt'[q][e].addr = b1 /\ nbt'[q][e].router = s
    <3>1. CASE q = d
      <4>1. t[e].addr = b1 /\ t[e].router = s
        BY <2>2, <3>1, <1>21
      <4>2. CASE t[e].addr = nbt[d][e].addr /\ t[e].router = nbt[d][e].router
        BY <2>1, <3>1, <4>1, <4>2 DEF Copied, Holds
      <4>3. CASE t[e].addr = seen[d][e].addr /\ t[e].router = TRUE
        BY <2>1, <3>1, <4>1, <4>3 DEF Copied, Beaconed
      <4> QED
        BY <4>2, <4>3, <1>19
    <3>2. CASE q # d
      <4>1. nbt'[q][e] = nbt[q][e] \/ nbt'[q][e] = Absent
        BY <3>2, <1>20, <1>21
      <4> QED
        BY <4>1, <2>1, <2>2, <1>20 DEF Copied, Holds
    <3> QED
      BY <3>1, <3>2
  <2>3. ASSUME NEW k \in DOMAIN pendq'[q], pendq'[q][k].dev = e,
               pendq'[q][k].addr = b1, pendq'[q][k].router = s
        PROVE  Copied(q, e, b1, s)
    BY <2>1, <2>3, <1>24 DEF Copied, Holds
  <2> QED
    BY <1>31, <2>2, <2>3 DEF Holds
<1>32. CrossAnswers \/ Holds(p, d, a, router)
  <2>1. a # NoAddr
    BY DEF NoAddr
  <2> QED
    BY <2>1, <1>2, <1>3, <1>4, <1>6, <1>11 DEF Holds
<1>33. \A e \in Devices \ {d} : Stays(e)
  BY <1>15 DEF Stays
<1>34. Takes(d)
  <2>1. /\ ~nwk[d].joined /\ nwk'[d].joined /\ nwk'[d].router = join[d].router
        /\ join[d].st # "idle" /\ seen[d][p].addr # NoAddr
        /\ nwk'[d].depth = seen[d][p].depth + 1 /\ nwk'[d].addr = a
    BY <1>6, <1>7, <1>8, <1>9, <1>11, <1>13, <1>15
  <2> QED
    BY <2>1, <1>11, <1>30, <1>31, <1>32, <1>33 DEF Takes
<1> QED
  BY <1>29, <1>34

\* The parent has no place: the response carries no address.
LEMMA JoinDenied ==
  ASSUME JoinInv, NEW d \in Devices \ {Coord}, NEW i \in DOMAIN pendq[join[d].par],
         NEW acked \in BOOLEAN, ResponseReceived(d, i, acked),
         pendq[join[d].par][i].addr = NoAddr
  PROVE  JoinInv' /\ Quiet
<1>1. PICK p \in Devices : p = join[d].par
  BY DEF JoinInv, JoinTyped, AttemptTypes, Attempts
<1>2. /\ nib' = nib /\ nwk' = nwk /\ used' = used /\ JoinFailed(d) /\ join[d].st = "wait"
      /\ Removes(p, i) /\ nbt' = [nbt EXCEPT ![p] = CommStatus(nbt[p], d, acked)]
  BY <1>1 DEF ResponseReceived, Removes
<1>3. /\ QueueTypes' /\ QueuesFit'
      /\ \A q \in Devices : \A k \in DOMAIN pendq'[q] : \E j \in DOMAIN pendq[q] :
           pendq'[q][k] = pendq[q][j]
  <2>1. i \in DOMAIN pendq[p]
    BY <1>1
  <2> QED
    BY <2>1, <1>2, QueueShrinks DEF JoinInv, JoinTyped
<1>4. /\ TableTypes' /\ TablesSound'
      /\ \A q \in Devices, e \in Devices : nbt'[q][e] = nbt[q][e] \/ nbt'[q][e] = Absent
  BY <1>2, EntryDropped
<1>5. NwkTypes' /\ SelvesSound' /\ CountsGrow /\ \A e \in Devices : Stays(e)
  BY <1>2, SelvesUnchanged
<1>6. AttemptTypes' /\ AttemptsSound' /\ FewerBeacons /\ AsksOn
  BY <1>2, JoinGoesOn
<1>7. BeaconsKept /\ AttemptsKept
  BY <1>6 DEF FewerBeacons, AsksOn, BeaconsKept, AttemptsKept
<1>8. Forgets
  BY <1>3, <1>4 DEF Forgets
<1>9. JoinInv'
  BY <1>3, <1>4, <1>5, <1>6 DEF JoinInv, JoinTyped
<1> QED
  BY <1>2, <1>5, <1>7, <1>8, <1>9, ForgetsHolds DEF Quiet, Copied, Background

\* Every step keeps the invariant and is of one of three kinds.
LEMMA JoinStep ==
  ASSUME JoinInv, [JoinNext]_joinVars
  PROVE  JoinInv' /\ JoinSteps
<1>1. CASE UNCHANGED joinVars
  BY <1>1, JoinStutters DEF JoinSteps
<1>2. ASSUME NEW d \in Devices \ {Coord}, zb_nlme_join_request(d)
      PROVE  JoinInv' /\ JoinSteps
  BY <1>2, JoinAskStep DEF JoinSteps
<1>3. ASSUME NEW d \in Devices \ {Coord}, zb_mlme_associate_indication(d)
      PROVE  JoinInv' /\ JoinSteps
  BY <1>3, JoinAssociateStep
<1>4. ASSUME NEW d \in Devices \ {Coord}, NEW i \in DOMAIN pendq[join[d].par],
             NEW acked \in BOOLEAN, ResponseReceived(d, i, acked)
      PROVE  JoinInv' /\ JoinSteps
  <2>1. CASE pendq[join[d].par][i].addr = NoAddr
    <3>1. JoinInv' /\ Quiet
      BY <1>4, <2>1, JoinDenied
    <3> QED
      BY <3>1 DEF JoinSteps
  <2>2. CASE pendq[join[d].par][i].addr # NoAddr
    <3>1. JoinInv' /\ Takes(d)
      BY <1>4, <2>2, JoinTakes
    <3> QED
      BY <3>1 DEF JoinSteps
  <2> QED
    BY <2>1, <2>2
<1>5. ASSUME NEW d \in Devices \ {Coord}, AssociateFailed(d)
      PROVE  JoinInv' /\ JoinSteps
  BY <1>5, JoinFailedStep DEF JoinSteps
<1>6. ASSUME NEW d \in Devices \ {Coord}, StartRouter(d)
      PROVE  JoinInv' /\ JoinSteps
  BY <1>6, JoinStarts DEF JoinSteps
<1>7. ASSUME NEW p \in Devices, NEW i \in DOMAIN pendq[p], ResponseLost(p, i)
      PROVE  JoinInv' /\ JoinSteps
  BY <1>7, JoinLost DEF JoinSteps
<1>8. ASSUME NEW d \in Announcers, NEW q \in Devices, NEW direct \in BOOLEAN,
             DeviceAnnce(d, q, direct)
      PROVE  JoinInv' /\ JoinSteps
  <2>1. d \in Devices
    BY JoinAssumption
  <2> QED
    BY <2>1, <1>8, JoinAnnounced DEF JoinSteps
<1>9. ASSUME NEW d \in Movers, NEW hear, zb_nwk_do_leave(d, hear)
      PROVE  JoinInv' /\ JoinSteps
  BY <1>9, JoinLeft DEF JoinSteps
<1> QED
  BY <1>1, <1>2, <1>3, <1>4, <1>5, <1>6, <1>7, <1>8, <1>9 DEF JoinNext

\* The counts, the neighbor tables, the queues and the attempts of every device
\* stay sound, whoever joins, leaves and joins again, and whichever responses are
\* lost or come late.
THEOREM JoinInvariant ==
  JoinSpec => []JoinInv
<1>1. JoinInit => JoinInv
  BY JoinInitSound
<1>2. JoinInv /\ [JoinNext]_joinVars => JoinInv'
  BY JoinStep
<1> QED
  BY <1>1, <1>2, PTL DEF JoinSpec

\* The type invariant: a parent never counts more children than the limits of the
\* NIB, no device gets deeper than the tree, and no table or queue overflows.
THEOREM JoinTypeCorrect ==
  JoinSpec => []JoinTypeOK
<1>1. JoinInv => JoinTypeOK
  <2> SUFFICES ASSUME JoinInv
               PROVE  JoinTypeOK
    OBVIOUS
  <2>1. nib \in Configs
    BY DEF JoinInv, JoinTyped, NwkTypes
  <2>2. ASSUME NEW d \in Devices
        PROVE  /\ nwk[d].joined <=> nwk[d].addr # NoAddr
               /\ nwk[d].started => nwk[d].joined /\ nwk[d].router
               /\ nwk[d].rnum + nwk[d].ednum <= nib.cm /\ nwk[d].rnum <= nib.rm
               /\ nwk[d].joined => nwk[d].depth <= nib.lm
    BY DEF JoinInv, SelvesSound, SelfSound
  <2>3. ASSUME NEW d \in Devices
        PROVE  /\ used[d] < ZB_NEIGHBOR_TABLE_SIZE
               /\ Cardinality({e \in Devices : nbt[d][e].rel # "absent"}) <= used[d]
    BY DEF JoinInv, TablesSound, Taken
  <2>4. ASSUME NEW d \in Devices
        PROVE  /\ Len(pendq[d]) <= ZB_MAC_PENDING_QUEUE_SIZE
               /\ join[d].st # "idle" => ~nwk[d].joined
    BY DEF JoinInv, QueuesFit, AttemptsSound, AttemptSound
  <2> QED
    BY <2>1, <2>2, <2>3, <2>4 DEF JoinTypeOK
<1> QED
  BY <1>1, JoinInvariant, PTL

-----------------------------------------------------------------------------
(* Addresses, when routers do not leave and a response is not taken for     *)
(* another request.                                                         *)

RoutersStay == Movers \cap RouterCap = {}

\* The routers of the tree, and the addresses they gave.
InTree == {p \in Devices : nwk[p].joined /\ nwk[p].router}
RouterAddr(p, j) == nwk[p].addr + j * nwk[p].cskip + 1
EdAddr(p, j) == nwk[p].addr + nib.rm * nwk[p].cskip + j + 1
GivenBy(p, a) ==
    /\ p \in InTree /\ nwk[p].depth < nib.lm
    /\ \/ \E j \in 0 .. nwk[p].rnum - 1 : a = RouterAddr(p, j)
       \/ \E j \in 0 .. nwk[p].ednum - 1 : a = EdAddr(p, j)

\* The addresses that d has, or that some device has for it.
Knows(d, a) ==
    \/ nwk[d].joined /\ a = nwk[d].addr
    \/ \E p \in Devices, router \in BOOLEAN : Holds(p, d, a, router)

\* A router at depth n + 1 has the slot of its number in the block of its parent.
Slot(p, j) == RouterAddr(p, j) .. RouterAddr(p, j) + nwk[p].cskip - 1
Apart(p, q) == Block(p) \cap Block(q) = {}
Under(p, q) ==
    /\ nwk[q].depth < nib.lm
    /\ \E j \in 0 .. nwk[q].rnum - 1 :
         /\ Block(p) \subseteq Slot(q, j)
         /\ \E f \in InTree : nwk[f].addr = RouterAddr(q, j)

Kinds ==
    /\ InTree \subseteq RouterCap \cup {Coord}
    /\ \A d \in Devices : join[d].st # "idle" /\ join[d].router => d \in RouterCap
    /\ \A p \in Devices, d \in Devices : \A a :
         Holds(p, d, a, TRUE) => d \in RouterCap \cup {Coord}
Root == Coord \in InTree /\ nwk[Coord].addr = 0
CountsPlaced ==
    \A p \in Devices : \/ nwk[p].rnum = 0 /\ nwk[p].ednum = 0
                       \/ p \in InTree /\ nwk[p].depth < nib.lm
BeaconsTrue ==
    \A d \in Devices, p \in Devices : seen[d][p].addr # NoAddr =>
      p \in InTree /\ seen[d][p].addr = nwk[p].addr /\ seen[d][p].depth = nwk[p].depth

\* A router that has not joined is known by the addresses of slots.
SlotOf(p, a) ==
    /\ p \in InTree /\ nwk[p].depth < nib.lm
    /\ \E j \in 0 .. nwk[p].rnum - 1 : a = RouterAddr(p, j)
Promised ==
    \A p \in Devices, d \in Devices : \A a :
      Holds(p, d, a, TRUE) /\ ~nwk[d].joined => SlotOf(p, a)

Origin ==
    \A d \in Devices : \A a : Knows(d, a) =>
      \/ d = Coord /\ a = 0
      \/ d # Coord /\ \E p \in Devices : GivenBy(p, a)
NobodyShares ==
    \A d \in Devices, e \in Devices : d # e => \A a : ~(Knows(d, a) /\ Knows(e, a))
Tree ==
    \A p \in InTree, q \in InTree : p # q => Apart(p, q) \/ Under(p, q) \/ Under(q, p)

TreeFacts == Kinds /\ Root /\ CountsPlaced /\ BeaconsTrue /\ Promised /\ Origin
TreeInv == TreeFacts /\ (WithinQuota => NobodyShares /\ Tree)

\* The numbers of a router that has a depth left.
LEMMA BlockParts ==
  ASSUME JoinInv, NEW p \in InTree
  PROVE  /\ nwk[p].addr \in Nat /\ nwk[p].rnum \in Nat /\ nwk[p].ednum \in Nat
         /\ nwk[p].depth \in Nat /\ nwk[p].depth <= nib.lm /\ nwk[p].rnum <= nib.rm
         /\ nib.cm \in Nat /\ nib.rm \in Nat \ {0} /\ nib.lm \in Nat
         /\ nwk[p].addr \in Block(p)
         /\ nwk[p].depth < nib.lm =>
              /\ nwk[p].cskip \in Nat \ {0}
              /\ nwk[p].cskip = Blocks(nib)[nib.lm - nwk[p].depth - 1]
              /\ Block(p) = nwk[p].addr .. nwk[p].addr + nib.rm * nwk[p].cskip + nib.cm - nib.rm
<1>1. /\ p \in Devices /\ nwk[p] \in Selves /\ SelfSound(nwk[p]) /\ nwk[p].joined
      /\ NwkTypes /\ nib \in Configs
  BY DEF InTree, JoinInv, JoinTyped, NwkTypes, SelvesSound
<1>2. /\ nwk[p].addr \in Nat /\ nwk[p].rnum \in Nat /\ nwk[p].ednum \in Nat
      /\ nwk[p].depth \in Nat /\ nwk[p].depth <= nib.lm /\ nwk[p].rnum <= nib.rm
      /\ nwk[p].cskip = Cskip(nib, nwk[p].depth)
  BY <1>1 DEF Selves, SelfSound, Addrs
<1>3. nib.cm \in Nat /\ nib.rm \in Nat \ {0} /\ nib.lm \in Nat
  BY <1>1, Limits
<1>4. nib.lm - nwk[p].depth \in 0 .. nib.lm
  BY <1>2, <1>3
<1>5. Blocks(nib)[nib.lm - nwk[p].depth] \in Nat \ {0}
  BY <1>1, <1>4, Limits
<1>6. nwk[p].addr \in Block(p)
  BY <1>2, <1>5 DEF Block
<1>7. ASSUME nwk[p].depth < nib.lm
      PROVE  /\ nwk[p].cskip \in Nat \ {0}
             /\ nwk[p].cskip = Blocks(nib)[nib.lm - nwk[p].depth - 1]
             /\ Block(p) = nwk[p].addr .. nwk[p].addr + nib.rm * nwk[p].cskip + nib.cm - nib.rm
  <2>1. nwk[p].depth \in 0 .. nib.lm - 1
    BY <1>2, <1>3, <1>7
  <2>2. nwk[p].cskip = Blocks(nib)[nib.lm - nwk[p].depth - 1] /\ nwk[p].cskip \in Nat \ {0}
    BY <1>1, <1>2, <2>1, Limits
  <2>3. nib.lm - nwk[p].depth \in 1 .. nib.lm
    BY <1>2, <1>3, <1>7
  <2>4. Blocks(nib)[nib.lm - nwk[p].depth]
          = nib.rm * Blocks(nib)[nib.lm - nwk[p].depth - 1] + (1 + nib.cm - nib.rm)
    BY <1>1, <2>3, BlockSizes
  <2>5. PICK m \in Nat : m = nib.rm * nwk[p].cskip
    BY <1>3, <2>2
  <2>6. Blocks(nib)[nib.lm - nwk[p].depth] = m + (1 + nib.cm - nib.rm)
    BY <2>2, <2>4, <2>5
  <2>7. nwk[p].addr + Blocks(nib)[nib.lm - nwk[p].depth] - 1
          = nwk[p].addr + m + nib.cm - nib.rm
    BY <2>5, <2>6, <1>2, <1>3
  <2> QED
    BY <2>2, <2>5, <2>7 DEF Block
<1> QED
  BY <1>2, <1>3, <1>6, <1>7

LEMMA SlotOrder ==
  ASSUME NEW c \in Nat, NEW i \in Nat, NEW j \in Nat
  PROVE  /\ i * c \in Nat /\ j * c \in Nat
         /\ i < j => i * c + c <= j * c
         /\ j < i => j * c + c <= i * c
<1>1. i * c \in Nat /\ j * c \in Nat
  OBVIOUS
<1>2. i < j => i * c + c <= j * c
  OBVIOUS
<1>3. j < i => j * c + c <= i * c
  OBVIOUS
<1> QED
  BY <1>1, <1>2, <1>3

\* The numbers of the slot j and of the block of p, with the products k and m.
LEMMA SlotNumbers ==
  ASSUME JoinInv, NEW p \in InTree, nwk[p].depth < nib.lm,
         NEW j \in Nat, NEW k \in Nat, k = j * nwk[p].cskip
  PROVE  /\ RouterAddr(p, j) = nwk[p].addr + k + 1
         /\ \A x : x \in Slot(p, j) <=> /\ x \in Int /\ nwk[p].addr + k + 1 <= x
                                        /\ x <= nwk[p].addr + k + nwk[p].cskip
<1>1. nwk[p].addr \in Nat /\ nwk[p].cskip \in Nat \ {0}
  BY BlockParts
<1>2. PICK w \in Nat, c \in Nat : w = nwk[p].addr /\ c = nwk[p].cskip
  BY <1>1
<1>3. RouterAddr(p, j) = w + k + 1
  BY <1>2 DEF RouterAddr
<1>4. Slot(p, j) = (w + k + 1) .. (w + k + 1 + c - 1)
  BY <1>2, <1>3 DEF Slot
<1>5. \A x : x \in Slot(p, j) <=> x \in Int /\ w + k + 1 <= x /\ x <= w + k + c
  <2>1. PICK u \in Int, v \in Int : u = w + k + 1 /\ v = w + k + 1 + c - 1 /\ v = w + k + c
    OBVIOUS
  <2>2. Slot(p, j) = u .. v
    BY <1>4, <2>1
  <2>3. \A x : x \in u .. v <=> x \in Int /\ u <= x /\ x <= v
    OBVIOUS
  <2> QED
    BY <2>1, <2>2, <2>3
<1> QED
  BY <1>2, <1>3, <1>5

LEMMA BlockNumbers ==
  ASSUME JoinInv, NEW p \in InTree, nwk[p].depth < nib.lm,
         NEW m \in Nat, m = nib.rm * nwk[p].cskip
  PROVE  /\ \A j : EdAddr(p, j) = nwk[p].addr + m + j + 1
         /\ \A x : x \in Block(p) <=> /\ x \in Int /\ nwk[p].addr <= x
                                      /\ x <= nwk[p].addr + m + nib.cm - nib.rm
<1>1. /\ nwk[p].addr \in Nat /\ nib.cm \in Nat /\ nib.rm \in Nat
      /\ Block(p) = nwk[p].addr .. nwk[p].addr + m + nib.cm - nib.rm
  BY BlockParts
<1> QED
  BY <1>1 DEF EdAddr

\* The slots of a parent are disjoint parts of its block, behind its own address.
LEMMA Slots ==
  ASSUME JoinInv, NEW p \in InTree, nwk[p].depth < nib.lm, nib.cm >= nib.rm,
         NEW j \in 0 .. nib.rm - 1
  PROVE  /\ Slot(p, j) \subseteq Block(p)
         /\ RouterAddr(p, j) \in Slot(p, j)
         /\ \A i \in 0 .. nib.rm - 1 : i # j => Slot(p, i) \cap Slot(p, j) = {}
<1>1. /\ nwk[p].addr \in Nat /\ nwk[p].cskip \in Nat \ {0} /\ nib.rm \in Nat /\ nib.cm \in Nat
      /\ j \in Nat /\ j < nib.rm
  BY BlockParts
<1>2. PICK m \in Nat, n \in Nat : /\ m = nib.rm * nwk[p].cskip /\ n = j * nwk[p].cskip
                                  /\ n + nwk[p].cskip <= m
  BY <1>1, SlotOrder
<1>3. /\ RouterAddr(p, j) = nwk[p].addr + n + 1
      /\ \A x : x \in Slot(p, j) <=> /\ x \in Int /\ nwk[p].addr + n + 1 <= x
                                     /\ x <= nwk[p].addr + n + nwk[p].cskip
  BY <1>1, <1>2, SlotNumbers
<1>4. \A x : x \in Block(p) <=> /\ x \in Int /\ nwk[p].addr <= x
                                /\ x <= nwk[p].addr + m + nib.cm - nib.rm
  BY <1>1, <1>2, BlockNumbers
<1>5. Slot(p, j) \subseteq Block(p)
  BY <1>1, <1>2, <1>3, <1>4
<1>6. RouterAddr(p, j) \in Slot(p, j)
  BY <1>1, <1>3
<1>7. ASSUME NEW i \in 0 .. nib.rm - 1, i # j
      PROVE  Slot(p, i) \cap Slot(p, j) = {}
  <2>1. i \in Nat
    BY <1>1
  <2>2. PICK k \in Nat : /\ k = i * nwk[p].cskip
                         /\ k + nwk[p].cskip <= n \/ n + nwk[p].cskip <= k
    BY <2>1, <1>1, <1>2, <1>7, SlotOrder
  <2>3. \A x : x \in Slot(p, i) <=> /\ x \in Int /\ nwk[p].addr + k + 1 <= x
                                    /\ x <= nwk[p].addr + k + nwk[p].cskip
    BY <2>1, <2>2, SlotNumbers
  <2> QED
    BY <2>2, <2>3, <1>1, <1>3
<1> QED
  BY <1>5, <1>6, <1>7

\* An address that p gave is in its block; if it is in a slot, it is its first one.
LEMMA GivenPlace ==
  ASSUME JoinInv, NEW p \in InTree, NEW a, GivenBy(p, a), nib.cm >= nib.rm,
         nwk[p].ednum <= nib.cm - nib.rm
  PROVE  /\ a \in Block(p)
         /\ \A j \in 0 .. nib.rm - 1 : a \in Slot(p, j) => a = RouterAddr(p, j)
<1>1. nwk[p].depth < nib.lm
  BY DEF GivenBy
<1>2. /\ nwk[p].addr \in Nat /\ nwk[p].cskip \in Nat \ {0} /\ nib.rm \in Nat /\ nib.cm \in Nat
      /\ nwk[p].rnum \in Nat /\ nwk[p].ednum \in Nat /\ nwk[p].rnum <= nib.rm
  BY <1>1, BlockParts
<1>3. CASE \E j \in 0 .. nwk[p].rnum - 1 : a = RouterAddr(p, j)
  <2>1. PICK j \in 0 .. nib.rm - 1 : a = RouterAddr(p, j)
    BY <1>2, <1>3
  <2>2. /\ Slot(p, j) \subseteq Block(p) /\ a \in Slot(p, j)
        /\ \A i \in 0 .. nib.rm - 1 : i # j => Slot(p, i) \cap Slot(p, j) = {}
    BY <2>1, <1>1, Slots
  <2> QED
    BY <2>1, <2>2
<1>4. CASE \E j \in 0 .. nwk[p].ednum - 1 : a = EdAddr(p, j)
  <2>1. PICK j \in Nat : j < nwk[p].ednum /\ a = EdAddr(p, j)
    BY <1>2, <1>4
  <2>2. PICK m \in Nat : m = nib.rm * nwk[p].cskip
    BY <1>2
  <2>3. /\ a = nwk[p].addr + m + j + 1
        /\ \A x : x \in Block(p) <=> /\ x \in Int /\ nwk[p].addr <= x
                                     /\ x <= nwk[p].addr + m + nib.cm - nib.rm
    BY <2>1, <2>2, <1>1, BlockNumbers
  <2>4. a \in Block(p)
    BY <2>1, <2>3, <1>2
  <2>5. ASSUME NEW k \in 0 .. nib.rm - 1
        PROVE  a \notin Slot(p, k)
    <3>1. k \in Nat /\ k < nib.rm
      BY <1>2
    <3>2. PICK n \in Nat : n = k * nwk[p].cskip /\ n + nwk[p].cskip <= m
      BY <2>2, <3>1, <1>2, SlotOrder
    <3>3. \A x : x \in Slot(p, k) <=> /\ x \in Int /\ nwk[p].addr + n + 1 <= x
                                      /\ x <= nwk[p].addr + n + nwk[p].cskip
      BY <3>1, <3>2, <1>1, SlotNumbers
    <3> QED
      BY <3>2, <3>3, <2>3, <1>2
  <2> QED
    BY <2>4, <2>5
<1> QED
  BY <1>3, <1>4 DEF GivenBy

\* The next address of p is in its block, in no slot that is taken, and not given yet.
LEMMA NextAddress ==
  ASSUME JoinInv, NEW p \in InTree, NEW router \in BOOLEAN, HasRoom(nwk[p], router),
         nib.cm >= nib.rm, router \/ nwk[p].ednum + 1 <= nib.cm - nib.rm,
         NEW a, a = Assigned(nwk[p], router)
  PROVE  /\ a \in Block(p) /\ a \in Nat /\ a > nwk[p].addr
         /\ \A j \in 0 .. nwk[p].rnum - 1 : a \notin Slot(p, j)
         /\ ~GivenBy(p, a)
<1>1. nwk[p].depth < nib.lm /\ (router => nwk[p].rnum < nib.rm)
  BY DEF HasRoom
<1>2. /\ nwk[p].addr \in Nat /\ nwk[p].cskip \in Nat \ {0} /\ nib.rm \in Nat /\ nib.cm \in Nat
      /\ nwk[p].rnum \in Nat /\ nwk[p].ednum \in Nat /\ nwk[p].rnum <= nib.rm
  BY <1>1, BlockParts
<1>3. PICK m \in Nat : m = nib.rm * nwk[p].cskip
  BY <1>2
<1>4. PICK n \in Nat : n = nwk[p].rnum * nwk[p].cskip
  BY <1>2
<1>5. router => n + nwk[p].cskip <= m
  BY <1>1, <1>2, <1>3, <1>4, SlotOrder
<1>6. a = IF router THEN nwk[p].addr + n + 1 ELSE nwk[p].addr + m + nwk[p].ednum + 1
  BY <1>3, <1>4 DEF Assigned
<1>11. router => a = nwk[p].addr + n + 1 /\ n + nwk[p].cskip <= m
  BY <1>5, <1>6
<1>7. /\ \A j : EdAddr(p, j) = nwk[p].addr + m + j + 1
      /\ \A x : x \in Block(p) <=> /\ x \in Int /\ nwk[p].addr <= x
                                   /\ x <= nwk[p].addr + m + nib.cm - nib.rm
  BY <1>1, <1>3, BlockNumbers
<1>8. a \in Block(p) /\ a \in Nat /\ a > nwk[p].addr
  <2>1. CASE router
    <3>1. a = nwk[p].addr + n + 1 /\ n + nwk[p].cskip <= m
      BY <2>1, <1>11
    <3>2. a \in Nat /\ a > nwk[p].addr
      BY <3>1, <1>2
    <3>3. a <= nwk[p].addr + m + nib.cm - nib.rm
      BY <3>1, <1>2
    <3> QED
      BY <3>2, <3>3, <1>2, <1>7
  <2>2. CASE ~router
    BY <2>2, <1>2, <1>6, <1>7
  <2> QED
    BY <2>1, <2>2
<1>9. ASSUME NEW j \in 0 .. nwk[p].rnum - 1
      PROVE  a \notin Slot(p, j) /\ a # RouterAddr(p, j)
  <2>1. j \in Nat /\ j < nwk[p].rnum /\ j < nib.rm
    BY <1>2
  <2>2. PICK k \in Nat : /\ k = j * nwk[p].cskip
                         /\ k + nwk[p].cskip <= n /\ k + nwk[p].cskip <= m
    BY <2>1, <1>2, <1>3, <1>4, SlotOrder
  <2>3. /\ RouterAddr(p, j) = nwk[p].addr + k + 1
        /\ \A x : x \in Slot(p, j) <=> /\ x \in Int /\ nwk[p].addr + k + 1 <= x
                                       /\ x <= nwk[p].addr + k + nwk[p].cskip
    BY <2>1, <2>2, <1>1, SlotNumbers
  <2>4. a > nwk[p].addr + k + nwk[p].cskip
    <3>1. CASE router
      <4>1. a = nwk[p].addr + n + 1
        BY <3>1, <1>11
      <4> QED
        BY <4>1, <2>2, <1>2
    <3>2. CASE ~router
      BY <3>2, <2>2, <1>2, <1>6
    <3> QED
      BY <3>1, <3>2
  <2> QED
    BY <2>2, <2>3, <2>4, <1>2, <1>8
<1>10. ASSUME NEW j \in 0 .. nwk[p].ednum - 1
       PROVE  a # EdAddr(p, j)
  <2>1. EdAddr(p, j) = nwk[p].addr + m + j + 1 /\ j \in Nat /\ j < nwk[p].ednum
    BY <1>2, <1>7
  <2>2. CASE router
    <3>1. a = nwk[p].addr + n + 1 /\ n + nwk[p].cskip <= m
      BY <2>2, <1>11
    <3> QED
      BY <3>1, <2>1, <1>2
  <2>3. CASE ~router
    BY <2>1, <2>3, <1>2, <1>6
  <2> QED
    BY <2>2, <2>3
<1> QED
  BY <1>8, <1>9, <1>10 DEF GivenBy

\* The next address of p was given by no router of the tree.
LEMMA NextAddressFree ==
  ASSUME JoinInv, Tree, WithinQuota,
         NEW p \in InTree, NEW router \in BOOLEAN, HasRoom(nwk[p], router),
         router \/ nwk[p].ednum + 1 <= nib.cm - nib.rm,
         NEW a, a = Assigned(nwk[p], router), NEW q \in InTree, GivenBy(q, a)
  PROVE  FALSE
<1>1. nib.cm >= nib.rm /\ nwk[q].ednum <= nib.cm - nib.rm /\ nib.rm \in Nat
  <2>1. nwk[q].ednum \in Nat /\ nib.cm \in Nat /\ nib.rm \in Nat /\ q \in Devices
    BY BlockParts DEF InTree
  <2> QED
    BY <2>1 DEF WithinQuota
<1>2. /\ a \in Block(p) /\ a > nwk[p].addr /\ nwk[p].addr \in Block(p)
      /\ \A j \in 0 .. nwk[p].rnum - 1 : a \notin Slot(p, j)
      /\ ~GivenBy(p, a)
  BY <1>1, NextAddress, BlockParts
<1>3. /\ a \in Block(q)
      /\ \A j \in 0 .. nib.rm - 1 : a \in Slot(q, j) => a = RouterAddr(q, j)
  BY <1>1, GivenPlace
<1>4. Apart(p, q) \/ Under(p, q) \/ Under(q, p)
  BY <1>2 DEF Tree
<1>5. ~Apart(p, q)
  BY <1>2, <1>3 DEF Apart
<1>6. ASSUME Under(p, q)
      PROVE  FALSE
  <2>1. PICK j \in 0 .. nwk[q].rnum - 1 : Block(p) \subseteq Slot(q, j)
    BY <1>6 DEF Under
  <2>2. /\ j \in 0 .. nib.rm - 1 /\ RouterAddr(q, j) \in Int
        /\ Slot(q, j) = RouterAddr(q, j) .. RouterAddr(q, j) + nwk[q].cskip - 1
    <3>1. /\ nwk[q].addr \in Nat /\ nwk[q].rnum \in Nat /\ nwk[q].rnum <= nib.rm
          /\ nwk[q].cskip \in Nat
      BY <1>6, BlockParts DEF Under
    <3> QED
      BY <3>1, <1>1 DEF RouterAddr, Slot
  <2>3. a = RouterAddr(q, j)
    BY <2>1, <2>2, <1>2, <1>3
  <2>4. nwk[p].addr >= RouterAddr(q, j)
    <3>1. nwk[q].cskip \in Nat
      BY <1>6, BlockParts DEF Under
    <3> QED
      BY <3>1, <2>1, <2>2, <1>2
  <2>5. nwk[p].addr \in Nat
    BY BlockParts
  <2> QED
    BY <2>2, <2>3, <2>4, <2>5, <1>2
<1>7. ASSUME Under(q, p)
      PROVE  FALSE
  BY <1>2, <1>3, <1>7 DEF Under
<1> QED
  BY <1>4, <1>5, <1>6, <1>7

-----------------------------------------------------------------------------
(* The tree grows.                                                          *)

\* Routers stay what they are; counts never go down.
Grown ==
    /\ nib' = nib
    /\ \A p \in InTree :
         /\ nwk'[p].joined /\ nwk'[p].router /\ nwk'[p].addr = nwk[p].addr
         /\ nwk'[p].depth = nwk[p].depth /\ nwk'[p].cskip = nwk[p].cskip
    /\ \A p \in Devices :
         /\ nwk[p].rnum \in Nat /\ nwk[p].ednum \in Nat
         /\ nwk'[p].rnum \in Nat /\ nwk'[p].ednum \in Nat
         /\ nwk'[p].rnum >= nwk[p].rnum /\ nwk'[p].ednum >= nwk[p].ednum

LEMMA StepGrows ==
  ASSUME RoutersStay, JoinInv, JoinInv', Kinds, JoinSteps
  PROVE  Background /\ Grown
<1>1. Background
  BY DEF JoinSteps, Quiet, Takes, Gives
<1>2. \A d \in Devices : Stays(d) \/ Leaves(d) \/ ~nwk[d].joined
  BY DEF JoinSteps, Quiet, Takes, Gives
<1>3. ASSUME NEW p \in InTree
      PROVE  p \in Devices /\ Stays(p) /\ nwk[p].joined /\ nwk[p].router
  <2>1. p \in Devices /\ nwk[p].joined /\ nwk[p].router /\ p \in RouterCap \cup {Coord}
    BY DEF InTree, Kinds
  <2>2. ~Leaves(p)
    BY <2>1, JoinAssumption DEF RoutersStay, Leaves
  <2> QED
    BY <2>1, <2>2, <1>2
<1>4. \A p \in Devices : /\ nwk[p].rnum \in Nat /\ nwk[p].ednum \in Nat
                         /\ nwk'[p].rnum \in Nat /\ nwk'[p].ednum \in Nat
  BY DEF JoinInv, JoinTyped, NwkTypes, Selves
<1>5. \A p \in Devices : nwk'[p].rnum >= nwk[p].rnum /\ nwk'[p].ednum >= nwk[p].ednum
  BY <1>1 DEF Background, CountsGrow
<1>6. nib' = nib
  BY <1>1 DEF Background
<1> QED
  BY <1>1, <1>3, <1>4, <1>5, <1>6 DEF Grown, Stays

LEMMA GrownPlaces ==
  ASSUME Grown, NEW p \in InTree
  PROVE  /\ p \in InTree' /\ Block(p)' = Block(p) /\ p \in Devices
         /\ \A j : RouterAddr(p, j)' = RouterAddr(p, j) /\ Slot(p, j)' = Slot(p, j)
                   /\ EdAddr(p, j)' = EdAddr(p, j)
<1>1. p \in Devices /\ nib' = nib
      /\ nwk'[p].joined /\ nwk'[p].router /\ nwk'[p].addr = nwk[p].addr
      /\ nwk'[p].depth = nwk[p].depth /\ nwk'[p].cskip = nwk[p].cskip
  BY DEF Grown, InTree
<1>2. p \in InTree'
  BY <1>1 DEF InTree
<1>3. Block(p)' = Block(p)
  BY <1>1 DEF Block
<1>4. \A j : RouterAddr(p, j)' = RouterAddr(p, j) /\ EdAddr(p, j)' = EdAddr(p, j)
  BY <1>1 DEF RouterAddr, EdAddr
<1>5. \A j : Slot(p, j)' = Slot(p, j)
  BY <1>1 DEF Slot, RouterAddr
<1> QED
  BY <1>1, <1>2, <1>3, <1>4, <1>5

LEMMA GivenStays ==
  ASSUME Grown, NEW p \in Devices, NEW a, GivenBy(p, a)
  PROVE  GivenBy(p, a)'
<1>1. p \in InTree /\ nwk[p].depth < nib.lm
  BY DEF GivenBy
<1>2. /\ p \in InTree'
      /\ \A j : RouterAddr(p, j)' = RouterAddr(p, j) /\ EdAddr(p, j)' = EdAddr(p, j)
  BY <1>1, GrownPlaces
<1>3. nwk'[p].depth < nib'.lm
  BY <1>1 DEF Grown
<1>4. /\ 0 .. nwk[p].rnum - 1 \subseteq 0 .. nwk'[p].rnum - 1
      /\ 0 .. nwk[p].ednum - 1 \subseteq 0 .. nwk'[p].ednum - 1
  BY DEF Grown
<1>5. CASE \E j \in 0 .. nwk[p].rnum - 1 : a = RouterAddr(p, j)
  <2>1. PICK j \in 0 .. nwk'[p].rnum - 1 : a = RouterAddr(p, j)'
    BY <1>2, <1>4, <1>5
  <2> QED
    BY <2>1, <1>2, <1>3 DEF GivenBy
<1>6. CASE \E j \in 0 .. nwk[p].ednum - 1 : a = EdAddr(p, j)
  <2>1. PICK j \in 0 .. nwk'[p].ednum - 1 : a = EdAddr(p, j)'
    BY <1>2, <1>4, <1>6
  <2> QED
    BY <2>1, <1>2, <1>3 DEF GivenBy
<1> QED
  BY <1>5, <1>6 DEF GivenBy

\* What a device gets to know is known already, or the next address of a parent.
LEMMA CopiedKnown ==
  ASSUME BeaconsTrue, NEW p \in Devices, NEW d \in Devices, NEW a, NEW router \in BOOLEAN,
         Copied(p, d, a, router)
  PROVE  Knows(d, a)
  BY DEF Copied, Announced, Beaconed, BeaconsTrue, Knows, InTree

LEMMA HeldRouters ==
  ASSUME JoinInv, NEW p \in Devices, NEW d \in Devices, NEW a, NEW router, Holds(p, d, a, router)
  PROVE  router \in BOOLEAN
<1>1. nbt[p][d].router \in BOOLEAN
  BY DEF JoinInv, JoinTyped, TableTypes, Entries
<1>2. \A k \in DOMAIN pendq[p] : pendq[p][k] \in Responses
  <2>1. pendq[p] \in Seq(Responses)
    BY DEF JoinInv, JoinTyped, QueueTypes
  <2> QED
    BY <2>1
<1>3. \A k \in DOMAIN pendq[p] : pendq[p][k].router \in BOOLEAN
  BY <1>2 DEF Responses
<1> QED
  BY <1>1, <1>3 DEF Holds

LEMMA LearnsNothing ==
  ASSUME JoinInv, JoinInv', ~CrossAnswers, BeaconsTrue,
         Quiet \/ \E d \in Devices \ {Coord} : Takes(d),
         NEW e \in Devices, NEW a, Knows(e, a)'
  PROVE  Knows(e, a)
<1>1. CASE nwk'[e].joined /\ a = nwk'[e].addr
  <2>1. CASE Stays(e)
    BY <1>1, <2>1 DEF Stays, Knows
  <2>2. CASE Takes(e)
    <3>1. PICK p \in Devices : Holds(p, e, nwk'[e].addr, join[e].router)
      BY <2>2 DEF Takes
    <3>2. join[e].router \in BOOLEAN
      BY <3>1, HeldRouters
    <3> QED
      BY <3>1, <3>2, <1>1 DEF Knows
  <2> QED
    BY <2>1, <2>2, <1>1 DEF Quiet, Takes, Leaves
<1>2. ASSUME NEW p \in Devices, NEW router \in BOOLEAN, Holds(p, e, a, router)'
      PROVE  Knows(e, a)
  <2>1. Copied(p, e, a, router)
    BY <1>2 DEF Quiet, Takes
  <2> QED
    BY <2>1, CopiedKnown
<1> QED
  BY <1>1, <1>2 DEF Knows

LEMMA LearnsNext ==
  ASSUME BeaconsTrue, NEW p \in Devices, NEW d \in Devices, NEW router \in BOOLEAN,
         Gives(p, d, router), NEW e \in Devices, NEW a, Knows(e, a)'
  PROVE  Knows(e, a) \/ (e = d /\ a = Assigned(nwk[p], router))
<1>1. CASE nwk'[e].joined /\ a = nwk'[e].addr
  BY <1>1 DEF Gives, Stays, Knows
<1>2. ASSUME NEW q \in Devices, NEW s \in BOOLEAN, Holds(q, e, a, s)'
      PROVE  Knows(e, a) \/ (e = d /\ a = Assigned(nwk[p], router))
  <2>1. Copied(q, e, a, s) \/ (e = d /\ a = Assigned(nwk[p], router))
    BY <1>2 DEF Gives
  <2> QED
    BY <2>1, CopiedKnown
<1> QED
  BY <1>1, <1>2 DEF Knows

\* The address that p gives to d counts as given.
LEMMA GivesGiven ==
  ASSUME Grown, NEW p \in Devices, NEW d \in Devices, NEW router \in BOOLEAN,
         Gives(p, d, router), NEW a, a = Assigned(nwk[p], router)
  PROVE  /\ p \in InTree /\ nwk[p].depth < nib.lm /\ GivenBy(p, a)'
         /\ router => SlotOf(p, a)'
<1>1. p \in InTree /\ nwk[p].depth < nib.lm
  BY DEF Gives, InTree, HasRoom
<1>2. /\ p \in InTree'
      /\ \A j : RouterAddr(p, j)' = RouterAddr(p, j) /\ EdAddr(p, j)' = EdAddr(p, j)
  BY <1>1, GrownPlaces
<1>3. nwk'[p].depth < nib'.lm
  BY <1>1 DEF Grown
<1>4. nwk[p].rnum \in Nat /\ nwk[p].ednum \in Nat
  BY DEF Grown
<1>5. CASE router
  <2>1. PICK j : j = nwk[p].rnum
    OBVIOUS
  <2>2. a = RouterAddr(p, j)
    BY <2>1, <1>5 DEF Assigned, RouterAddr
  <2>3. j \in 0 .. nwk'[p].rnum - 1
    BY <2>1, <1>4, <1>5 DEF Gives, OneMore
  <2>4. \E i \in 0 .. nwk'[p].rnum - 1 : a = RouterAddr(p, i)'
    BY <2>2, <2>3, <1>2
  <2> QED
    BY <2>4, <1>1, <1>2, <1>3 DEF GivenBy, SlotOf
<1>6. CASE ~router
  <2>1. PICK j : j = nwk[p].ednum
    OBVIOUS
  <2>2. a = EdAddr(p, j)
    BY <2>1, <1>6 DEF Assigned, EdAddr
  <2>3. j \in 0 .. nwk'[p].ednum - 1
    BY <2>1, <1>4, <1>6 DEF Gives, OneMore
  <2>4. \E i \in 0 .. nwk'[p].ednum - 1 : a = EdAddr(p, i)'
    BY <2>2, <2>3, <1>2
  <2> QED
    BY <2>4, <1>1, <1>2, <1>3, <1>6 DEF GivenBy
<1> QED
  BY <1>5, <1>6

\* A step seen from any of its kinds.
LEMMA StepCopies ==
  ASSUME JoinSteps, NEW p \in Devices, NEW d \in Devices, NEW a, NEW router,
         Holds(p, d, a, router)'
  PROVE  \/ Copied(p, d, a, router)
         \/ Gives(p, d, router) /\ d # Coord /\ router \in BOOLEAN /\ a = Assigned(nwk[p], router)
  BY DEF JoinSteps, Quiet, Takes, Gives

LEMMA KindsStep ==
  ASSUME JoinInv, Kinds, BeaconsTrue, JoinSteps, Background
  PROVE  Kinds'
<1>1. ASSUME NEW d \in InTree'
      PROVE  d \in RouterCap \cup {Coord}
  <2>1. d \in Devices /\ nwk'[d].joined /\ nwk'[d].router
    BY DEF InTree
  <2>2. CASE Stays(d)
    BY <2>1, <2>2 DEF Stays, InTree, Kinds
  <2>3. CASE Takes(d)
    BY <2>1, <2>3 DEF Takes, Kinds
  <2>4. ~Leaves(d)
    BY <2>1 DEF Leaves
  <2> QED
    BY <2>1, <2>2, <2>3, <2>4 DEF JoinSteps, Quiet, Takes, Gives
<1>2. \A d \in Devices : join'[d].st # "idle" /\ join'[d].router => d \in RouterCap
  BY DEF Background, AttemptsKept, Kinds
<1>3. ASSUME NEW p \in Devices, NEW d \in Devices, NEW a, Holds(p, d, a, TRUE)'
      PROVE  d \in RouterCap \cup {Coord}
  <2>1. CASE Holds(p, d, a, TRUE)
    BY <2>1 DEF Kinds
  <2>2. CASE Announced(p, d, a, TRUE)
    BY <2>2 DEF Announced, Kinds, InTree
  <2>3. CASE Beaconed(p, d, a, TRUE)
    BY <2>3 DEF Beaconed, BeaconsTrue, Kinds
  <2>4. CASE Gives(p, d, TRUE)
    BY <2>4 DEF Gives, Kinds
  <2> QED
    BY <1>3, <2>1, <2>2, <2>3, <2>4, StepCopies DEF Copied
<1> QED
  BY <1>1, <1>2, <1>3 DEF Kinds

LEMMA PlacesStep ==
  ASSUME Grown, Background, Root, CountsPlaced, BeaconsTrue
  PROVE  Root' /\ CountsPlaced' /\ BeaconsTrue'
<1>1. Root'
  BY DEF Root, Grown, InTree
<1>2. ASSUME NEW p \in InTree, nwk[p].depth < nib.lm
      PROVE  p \in InTree' /\ nwk'[p].depth < nib'.lm
  BY <1>2, GrownPlaces DEF Grown
<1>3. ASSUME NEW p \in Devices
      PROVE  \/ nwk'[p].rnum = 0 /\ nwk'[p].ednum = 0
             \/ p \in InTree' /\ nwk'[p].depth < nib'.lm
  <2>1. CASE nwk'[p].rnum = nwk[p].rnum /\ nwk'[p].ednum = nwk[p].ednum
    BY <2>1, <1>2 DEF CountsPlaced
  <2>2. CASE nwk[p].joined /\ nwk[p].router /\ nwk[p].depth < nib.lm
    <3>1. p \in InTree
      BY <2>2 DEF InTree
    <3> QED
      BY <3>1, <2>2, <1>2
  <2> QED
    BY <2>1, <2>2 DEF Background, CountsGrow
<1>4. ASSUME NEW d \in Devices, NEW p \in Devices, seen'[d][p].addr # NoAddr
      PROVE  p \in InTree' /\ seen'[d][p].addr = nwk'[p].addr /\ seen'[d][p].depth = nwk'[p].depth
  <2>1. p \in InTree /\ seen'[d][p].addr = nwk[p].addr /\ seen'[d][p].depth = nwk[p].depth
    BY <1>4 DEF Background, BeaconsKept, BeaconsTrue, InTree
  <2> QED
    BY <2>1, GrownPlaces DEF Grown
<1> QED
  BY <1>1, <1>3, <1>4 DEF CountsPlaced, BeaconsTrue

LEMMA PromisedStep ==
  ASSUME RoutersStay, Grown, Kinds', BeaconsTrue, Promised, JoinSteps
  PROVE  Promised'
<1> SUFFICES ASSUME NEW p \in Devices, NEW d \in Devices, NEW a,
                    Holds(p, d, a, TRUE)', ~nwk'[d].joined
             PROVE  SlotOf(p, a)'
  BY DEF Promised
<1>1. ~nwk[d].joined
  <2>1. d \in RouterCap \cup {Coord}
    BY DEF Kinds
  <2>2. ~Leaves(d)
    BY <2>1, JoinAssumption DEF Leaves, RoutersStay
  <2> QED
    BY <2>2 DEF JoinSteps, Quiet, Takes, Gives, Stays
<1>2. CASE Gives(p, d, TRUE) /\ a = Assigned(nwk[p], TRUE)
  BY <1>2, GivesGiven
<1>3. CASE Holds(p, d, a, TRUE)
  <2>1. /\ p \in InTree /\ nwk[p].depth < nib.lm
        /\ \E j \in 0 .. nwk[p].rnum - 1 : a = RouterAddr(p, j)
    <3>1. SlotOf(p, a)
      BY <1>1, <1>3, Zenon DEF Promised
    <3> QED
      BY <3>1 DEF SlotOf
  <2>2. PICK j \in 0 .. nwk[p].rnum - 1 : a = RouterAddr(p, j)
    BY <2>1
  <2>3. p \in InTree' /\ a = RouterAddr(p, j)'
    BY <2>1, <2>2, GrownPlaces
  <2>4. j \in 0 .. nwk'[p].rnum - 1
    BY DEF Grown
  <2>5. nwk'[p].depth < nib'.lm
    BY <2>1 DEF Grown
  <2> QED
    BY <2>3, <2>4, <2>5 DEF SlotOf
<1>4. ~Announced(p, d, a, TRUE) /\ ~Beaconed(p, d, a, TRUE)
  BY <1>1 DEF Announced, Beaconed, BeaconsTrue, InTree
<1> QED
  BY <1>2, <1>3, <1>4, StepCopies DEF Copied

LEMMA OriginStep ==
  ASSUME JoinInv, JoinInv', ~CrossAnswers, Grown, BeaconsTrue, Origin, JoinSteps
  PROVE  Origin'
<1> SUFFICES ASSUME NEW d \in Devices, NEW a, Knows(d, a)'
             PROVE  \/ d = Coord /\ a = 0
                    \/ d # Coord /\ \E p \in Devices : GivenBy(p, a)'
  BY DEF Origin
<1>1. CASE Knows(d, a)
  BY <1>1, GivenStays DEF Origin
<1>2. ASSUME NEW p \in Devices, NEW e \in Devices \ {Coord}, NEW router \in BOOLEAN,
             Gives(p, e, router), ~Knows(d, a)
      PROVE  d # Coord /\ GivenBy(p, a)'
  <2>1. d = e /\ a = Assigned(nwk[p], router)
    BY <1>2, LearnsNext
  <2> QED
    BY <2>1, <1>2, GivesGiven
<1>3. CASE Quiet \/ \E e \in Devices \ {Coord} : Takes(e)
  BY <1>1, <1>3, LearnsNothing
<1> QED
  BY <1>1, <1>2, <1>3 DEF JoinSteps

LEMMA NobodySharesStep ==
  ASSUME JoinInv, JoinInv', ~CrossAnswers, Grown, BeaconsTrue, Origin, JoinSteps,
         WithinQuota, WithinQuota', NobodyShares, Tree
  PROVE  NobodyShares'
<1> SUFFICES ASSUME NEW d \in Devices, NEW e \in Devices, d # e, NEW a, Knows(d, a)', Knows(e, a)'
             PROVE  FALSE
  BY DEF NobodyShares
<1>1. CASE Quiet \/ \E c \in Devices \ {Coord} : Takes(c)
  BY <1>1, LearnsNothing DEF NobodyShares
<1>2. ASSUME NEW p \in Devices, NEW c \in Devices \ {Coord}, NEW router \in BOOLEAN,
             Gives(p, c, router)
      PROVE  FALSE
  <2>1. PICK b : b = Assigned(nwk[p], router)
    OBVIOUS
  <2>2. PICK f \in {d, e} : Knows(f, a) /\ a = b
    BY <1>2, <2>1, LearnsNext DEF NobodyShares
  <2>3. p \in InTree /\ HasRoom(nwk[p], router)
    BY <1>2 DEF Gives, InTree
  <2>4. router \/ nwk[p].ednum + 1 <= nib.cm - nib.rm
    <3>1. nwk'[p].ednum <= nib.cm - nib.rm
      BY DEF WithinQuota, Grown
    <3> QED
      BY <3>1, <1>2 DEF Gives, OneMore
  <2>5. nib.cm >= nib.rm
    <3>1. nwk[p].ednum \in Nat /\ nib.cm \in Nat /\ nib.rm \in Nat /\ p \in Devices
      BY <2>3, BlockParts DEF InTree
    <3> QED
      BY <3>1 DEF WithinQuota
  <2>6. b > nwk[p].addr /\ b \in Nat /\ nwk[p].addr \in Nat
    BY <2>1, <2>3, <2>4, <2>5, NextAddress, BlockParts
  <2>7. PICK q \in Devices : GivenBy(q, a)
    <3>1. a # 0
      BY <2>2, <2>6
    <3> QED
      BY <3>1, <2>2 DEF Origin
  <2>8. q \in InTree
    BY <2>7 DEF GivenBy
  <2> QED
    BY <2>1, <2>2, <2>3, <2>4, <2>7, <2>8, NextAddressFree
<1> QED
  BY <1>1, <1>2 DEF JoinSteps

\* Blocks that were apart or nested stay so.
LEMMA PairStays ==
  ASSUME Grown, NEW p \in InTree, NEW q \in InTree
  PROVE  /\ Apart(p, q) => Apart(p, q)'
         /\ Under(p, q) => Under(p, q)'
<1>1. Block(p)' = Block(p) /\ Block(q)' = Block(q) /\ q \in InTree' /\ q \in Devices
      /\ \A j : RouterAddr(q, j)' = RouterAddr(q, j) /\ Slot(q, j)' = Slot(q, j)
  BY GrownPlaces
<1>2. Apart(p, q) => Apart(p, q)'
  BY <1>1 DEF Apart
<1>3. ASSUME Under(p, q)
      PROVE  Under(p, q)'
  <2>1. PICK j \in 0 .. nwk[q].rnum - 1, f \in InTree :
          Block(p) \subseteq Slot(q, j) /\ nwk[f].addr = RouterAddr(q, j)
    BY <1>3 DEF Under
  <2>2. f \in InTree' /\ nwk'[f].addr = nwk[f].addr
    BY GrownPlaces DEF Grown
  <2>3. Block(p)' \subseteq Slot(q, j)' /\ nwk'[f].addr = RouterAddr(q, j)'
    BY <2>1, <2>2, <1>1
  <2>4. j \in 0 .. nwk'[q].rnum - 1
    BY <1>1 DEF Grown
  <2>5. nwk'[q].depth < nib'.lm
    BY <1>3 DEF Grown, Under
  <2> QED
    BY <2>2, <2>3, <2>4, <2>5 DEF Under
<1> QED
  BY <1>2, <1>3

\* A router that joins gets the whole slot of its address.
LEMMA NewRouter ==
  ASSUME JoinInv, JoinInv', ~CrossAnswers, Grown, BeaconsTrue, Promised,
         NEW d \in Devices \ {Coord}, Takes(d), d \in InTree'
  PROVE  \E p \in InTree : \E j \in 0 .. nwk[p].rnum - 1 :
           /\ nwk[p].depth < nib.lm /\ Block(d)' = Slot(p, j)
           /\ nwk'[d].addr = RouterAddr(p, j) /\ Knows(d, nwk'[d].addr) /\ ~nwk[d].joined
<1>1. PICK p \in Devices :
        /\ ~nwk[d].joined /\ nwk'[d].joined /\ nwk'[d].router = join[d].router
        /\ join[d].st # "idle" /\ seen[d][p].addr # NoAddr
        /\ nwk'[d].depth = seen[d][p].depth + 1
        /\ Holds(p, d, nwk'[d].addr, join[d].router)
  BY DEF Takes
<1>2. join[d].router = TRUE
  <2>1. nwk'[d].router
    BY DEF InTree
  <2>2. join[d].router \in BOOLEAN
    BY <1>1, HeldRouters
  <2> QED
    BY <2>1, <2>2, <1>1
<1>3. p \in InTree /\ nwk'[d].depth = nwk[p].depth + 1
  BY <1>1 DEF BeaconsTrue
<1>4. SlotOf(p, nwk'[d].addr)
  BY <1>1, <1>2 DEF Promised
<1>5. PICK j \in 0 .. nwk[p].rnum - 1 : nwk'[d].addr = RouterAddr(p, j) /\ nwk[p].depth < nib.lm
  BY <1>4 DEF SlotOf
<1>6. nwk[p].cskip = Blocks(nib)[nib.lm - nwk[p].depth - 1] /\ nwk[p].depth \in Nat /\ nib.lm \in Nat
  BY <1>3, <1>5, BlockParts
<1>7. nib'.lm - nwk'[d].depth = nib.lm - nwk[p].depth - 1 /\ nib' = nib
  BY <1>3, <1>6 DEF Grown
<1>8. Block(d)' = Slot(p, j)
  BY <1>5, <1>6, <1>7 DEF Block, Slot
<1>9. Knows(d, nwk'[d].addr)
  BY <1>1, <1>2 DEF Knows
<1> QED
  BY <1>1, <1>3, <1>5, <1>8, <1>9

\* Its block is nested in those of its parent and of the routers above.
LEMMA NewBlock ==
  ASSUME JoinInv, Grown, nib.cm >= nib.rm, Tree, NobodyShares,
         NEW d \in Devices, ~nwk[d].joined, d \in InTree', Knows(d, nwk'[d].addr),
         NEW p \in InTree, NEW j \in 0 .. nwk[p].rnum - 1, nwk[p].depth < nib.lm,
         Block(d)' = Slot(p, j), nwk'[d].addr = RouterAddr(p, j),
         NEW q \in InTree
  PROVE  Apart(d, q)' \/ Under(d, q)'
<1>1. /\ Block(q)' = Block(q) /\ q \in InTree' /\ q \in Devices /\ p \in Devices
      /\ \A i : RouterAddr(q, i)' = RouterAddr(q, i) /\ Slot(q, i)' = Slot(q, i)
  BY GrownPlaces
<1>2. \A i \in 0 .. nwk[p].rnum - 1 : i \in 0 .. nib.rm - 1
  BY BlockParts
<1>3. Slot(p, j) \subseteq Block(p)
  BY <1>2, Slots
<1>4. CASE q = p
  <2>1. j \in 0 .. nwk'[q].rnum - 1 /\ nwk'[q].depth < nib'.lm
    BY <1>1, <1>4 DEF Grown
  <2>2. Block(d)' \subseteq Slot(q, j)' /\ nwk'[d].addr = RouterAddr(q, j)'
    BY <1>1, <1>4
  <2> QED
    BY <2>1, <2>2 DEF Under
<1>5. CASE q # p /\ Apart(p, q)
  BY <1>1, <1>3, <1>5 DEF Apart
<1>6. CASE Under(p, q)
  <2>1. Under(p, q)'
    BY <1>6, PairStays
  <2>2. Block(d)' \subseteq Block(p)'
    BY <1>3, GrownPlaces
  <2> QED
    BY <2>1, <2>2 DEF Under
<1>7. CASE Under(q, p)
  <2>1. PICK i \in 0 .. nwk[p].rnum - 1, f \in InTree :
          Block(q) \subseteq Slot(p, i) /\ nwk[f].addr = RouterAddr(p, i)
    BY <1>7 DEF Under
  <2>2. f \in Devices /\ f # d /\ nwk[f].joined
    BY DEF InTree
  <2>3. i # j
    <3>1. Knows(f, nwk[f].addr)
      BY <2>2 DEF Knows
    <3> QED
      BY <3>1, <2>1, <2>2 DEF NobodyShares
  <2>4. Slot(p, i) \cap Slot(p, j) = {}
    BY <2>3, <1>2, Slots
  <2> QED
    BY <2>1, <2>4, <1>1 DEF Apart
<1> QED
  BY <1>4, <1>5, <1>6, <1>7 DEF Tree

LEMMA TreeStep ==
  ASSUME JoinInv, JoinInv', ~CrossAnswers, Grown, BeaconsTrue, Promised, Root, JoinSteps,
         WithinQuota, NobodyShares, Tree
  PROVE  Tree'
<1>1. nib.cm >= nib.rm
  <2>1. nwk[Coord].ednum \in Nat /\ nib.cm \in Nat /\ nib.rm \in Nat /\ Coord \in Devices
    BY BlockParts DEF Root, InTree
  <2> QED
    BY <2>1 DEF WithinQuota
<1>2. ASSUME NEW p \in InTree', p \notin InTree
      PROVE  p \in Devices \ {Coord} /\ Takes(p)
  <2>1. p \in Devices /\ nwk'[p].joined /\ nwk'[p].router /\ p # Coord
    BY <1>2 DEF InTree, Root
  <2>2. ~Stays(p) /\ ~Leaves(p)
    BY <2>1, <1>2 DEF Stays, Leaves, InTree
  <2> QED
    BY <2>1, <2>2 DEF JoinSteps, Quiet, Takes, Gives
<1>3. ASSUME NEW d \in InTree', d \notin InTree, NEW q \in InTree
      PROVE  Apart(d, q)' \/ Under(d, q)'
  <2>1. d \in Devices \ {Coord} /\ Takes(d)
    BY <1>2, <1>3
  <2>2. PICK p \in InTree : \E j \in 0 .. nwk[p].rnum - 1 :
          /\ nwk[p].depth < nib.lm /\ Block(d)' = Slot(p, j)
          /\ nwk'[d].addr = RouterAddr(p, j) /\ Knows(d, nwk'[d].addr) /\ ~nwk[d].joined
    BY <2>1, NewRouter
  <2>3. PICK j \in 0 .. nwk[p].rnum - 1 :
          /\ nwk[p].depth < nib.lm /\ Block(d)' = Slot(p, j)
          /\ nwk'[d].addr = RouterAddr(p, j) /\ Knows(d, nwk'[d].addr) /\ ~nwk[d].joined
    BY <2>2
  <2> QED
    BY <2>1, <2>3, <1>1, NewBlock
<1>4. ASSUME NEW p \in InTree', NEW q \in InTree', p # q
      PROVE  Apart(p, q)' \/ Under(p, q)' \/ Under(q, p)'
  <2>1. CASE p \in InTree /\ q \in InTree
    BY <2>1, <1>4, PairStays DEF Tree
  <2>2. CASE p \notin InTree /\ q \in InTree
    BY <2>2, <1>3
  <2>3. CASE p \in InTree /\ q \notin InTree
    <3>1. Apart(q, p)' \/ Under(q, p)'
      BY <2>3, <1>3
    <3>2. Apart(q, p)' => Apart(p, q)'
      BY DEF Apart
    <3> QED
      BY <3>1, <3>2
  <2>4. CASE p \notin InTree /\ q \notin InTree
    <3>1. Takes(p) /\ Takes(q) /\ p \in Devices /\ q \in Devices
      BY <2>4, <1>2
    <3> QED
      BY <3>1, <1>4, <2>4 DEF Takes, Stays
  <2> QED
    BY <2>1, <2>2, <2>3, <2>4
<1> QED
  BY <1>4 DEF Tree

LEMMA TreeInvStep ==
  ASSUME RoutersStay, ~CrossAnswers, JoinInv, TreeInv, [JoinNext]_joinVars
  PROVE  TreeInv'
<1>1. JoinInv' /\ JoinSteps
  BY JoinStep
<1>2. TreeFacts
  BY DEF TreeInv
<1>3. Background /\ Grown
  BY <1>1, <1>2, StepGrows DEF TreeFacts
<1>4. Kinds'
  BY <1>1, <1>2, <1>3, KindsStep DEF TreeFacts
<1>5. Root' /\ CountsPlaced' /\ BeaconsTrue'
  BY <1>2, <1>3, PlacesStep DEF TreeFacts
<1>6. Promised'
  BY <1>1, <1>2, <1>3, <1>4, PromisedStep DEF TreeFacts
<1>7. Origin'
  BY <1>1, <1>2, <1>3, OriginStep DEF TreeFacts
<1>8. ASSUME WithinQuota'
      PROVE  NobodyShares' /\ Tree'
  <2>1. WithinQuota
    <3>1. ASSUME NEW d \in Devices
          PROVE  nwk[d].ednum <= nib.cm - nib.rm
      <4>1. nwk'[d].ednum <= nib.cm - nib.rm
        BY <1>3, <1>8 DEF WithinQuota, Grown
      <4>2. nib.cm \in Nat /\ nib.rm \in Nat
        BY Limits DEF JoinInv, JoinTyped
      <4> QED
        BY <4>1, <4>2, <1>3 DEF Grown
    <3> QED
      BY <3>1 DEF WithinQuota
  <2>2. NobodyShares /\ Tree
    BY <2>1 DEF TreeInv
  <2>3. NobodyShares'
    BY <2>1, <2>2, <1>1, <1>2, <1>3, <1>8, NobodySharesStep DEF TreeFacts
  <2>4. Tree'
    BY <2>1, <2>2, <1>1, <1>2, <1>3, TreeStep DEF TreeFacts
  <2> QED
    BY <2>3, <2>4
<1> QED
  BY <1>4, <1>5, <1>6, <1>7, <1>8 DEF TreeInv, TreeFacts

LEMMA TreeInitSound ==
  JoinInit => TreeInv
<1> SUFFICES ASSUME JoinInit
             PROVE  TreeInv
  OBVIOUS
<1>1. ASSUME NEW p \in Devices, NEW d \in Devices, NEW a, NEW router
      PROVE  ~Holds(p, d, a, router)
  <2>1. nbt[p][d].addr = NoAddr /\ pendq[p] = <<>>
    BY DEF JoinInit, Absent
  <2> QED
    BY <2>1 DEF Holds
<1>2. \A d \in Devices :
        /\ nwk[d].joined = (d = Coord) /\ nwk[d].router = (d \in RouterCap \cup {Coord})
        /\ nwk[d].addr = (IF d = Coord THEN 0 ELSE NoAddr)
        /\ nwk[d].rnum = 0 /\ nwk[d].ednum = 0
        /\ join[d].st = "idle"
  BY DEF JoinInit, NoJoin
<1>3. Coord \in Devices
  BY JoinAssumption
<1>4. InTree = {Coord} /\ nwk[Coord].addr = 0
  BY <1>2, <1>3 DEF InTree
<1>5. \A d \in Devices, p \in Devices : seen[d][p].addr = NoAddr
  BY DEF JoinInit, NoBeacons, NotSeen
<1>6. ASSUME NEW d \in Devices, NEW a, Knows(d, a)
      PROVE  d = Coord /\ a = 0
  BY <1>1, <1>2, <1>6 DEF Knows
<1>7. Kinds
  BY <1>1, <1>2, <1>4 DEF Kinds
<1>8. Root
  BY <1>4 DEF Root
<1>9. CountsPlaced
  BY <1>2 DEF CountsPlaced
<1>10. BeaconsTrue
  BY <1>5 DEF BeaconsTrue
<1>11. Promised
  BY <1>1 DEF Promised
<1>12. Origin
  BY <1>6 DEF Origin
<1>13. NobodyShares
  BY <1>6 DEF NobodyShares
<1>14. Tree
  BY <1>4 DEF Tree
<1> QED
  BY <1>7, <1>8, <1>9, <1>10, <1>11, <1>12, <1>13, <1>14 DEF TreeInv, TreeFacts

\* Where every known address comes from, and the tree of blocks, when routers do
\* not leave and no response is taken for another request.
THEOREM TreeInvariant ==
  ASSUME RoutersStay, ~CrossAnswers
  PROVE  JoinSpec => [](JoinInv /\ TreeInv)
<1>1. JoinInit => JoinInv /\ TreeInv
  BY JoinInitSound, TreeInitSound
<1>2. JoinInv /\ TreeInv /\ [JoinNext]_joinVars => (JoinInv /\ TreeInv)'
  BY JoinStep, TreeInvStep
<1> QED
  BY <1>1, <1>2, PTL DEF JoinSpec

\* No address is claimed by two devices, whatever responses are lost, come late or
\* lose their acknowledgement, as long as no parent counted more end devices than
\* its block has addresses for.
THEOREM AddressesUnique ==
  ASSUME RoutersStay, ~CrossAnswers
  PROVE  JoinSpec => []UniqueWithinQuota
<1>1. ASSUME JoinInv, NEW d \in Devices, NEW a \in Claims(d)
      PROVE  Knows(d, a)
  <2>1. CASE a \in IF nwk[d].joined THEN {nwk[d].addr} ELSE {}
    BY <2>1 DEF Knows
  <2>2. CASE \E p \in Devices : nbt[p][d].rel = "child" /\ a = nbt[p][d].addr
    <3>1. PICK p \in Devices : nbt[p][d].rel = "child" /\ a = nbt[p][d].addr
      BY <2>2
    <3>2. a # NoAddr /\ nbt[p][d].router \in BOOLEAN
      BY <3>1, <1>1 DEF JoinInv, JoinTyped, TableTypes, TablesSound, Entries
    <3> QED
      BY <3>1, <3>2 DEF Knows, Holds
  <2>3. CASE \E p \in Devices : \E r \in Range(pendq[p]) : r.dev = d /\ a = r.addr /\ a # NoAddr
    <3>1. PICK p \in Devices : \E r \in Range(pendq[p]) : r.dev = d /\ a = r.addr /\ a # NoAddr
      BY <2>3
    <3>4. PICK r \in Range(pendq[p]) : r.dev = d /\ a = r.addr /\ a # NoAddr
      BY <3>1
    <3>2. PICK k \in DOMAIN pendq[p] : r = pendq[p][k]
      BY DEF Range
    <3>3. Holds(p, d, a, r.router)
      BY <3>4, <3>2 DEF Holds
    <3> QED
      BY <3>3, <1>1, HeldRouters DEF Knows
  <2> QED
    BY <2>1, <2>2, <2>3 DEF Claims
<1>2. JoinInv /\ TreeInv => UniqueWithinQuota
  BY <1>1 DEF TreeInv, NobodyShares, UniqueWithinQuota
<1> QED
  BY <1>2, TreeInvariant, PTL

\* The blocks of the routers are nested or disjoint: what tree routing relies on.
THEOREM TreeBlocksNested ==
  ASSUME RoutersStay, ~CrossAnswers
  PROVE  JoinSpec => []BlocksNested
<1>1. ASSUME JoinInv, TreeInv, WithinQuota, NEW p \in InTree, NEW q \in InTree, Under(p, q)
      PROVE  Block(p) \subseteq Block(q)
  <2>1. nib.cm >= nib.rm
    <3>1. nwk[q].ednum \in Nat /\ nib.cm \in Nat /\ nib.rm \in Nat /\ q \in Devices
      BY <1>1, BlockParts DEF InTree
    <3> QED
      BY <3>1, <1>1 DEF WithinQuota
  <2>2. PICK j \in 0 .. nwk[q].rnum - 1 : Block(p) \subseteq Slot(q, j) /\ nwk[q].depth < nib.lm
    BY <1>1 DEF Under
  <2>3. j \in 0 .. nib.rm - 1
    BY <1>1, BlockParts
  <2>4. Slot(q, j) \subseteq Block(q)
    BY <2>1, <2>2, <2>3, <1>1, Slots
  <2> QED
    BY <2>2, <2>4
<1>2. JoinInv /\ TreeInv => BlocksNested
  <2> SUFFICES ASSUME JoinInv, TreeInv, WithinQuota, NEW d \in InTree, NEW e \in InTree
               PROVE  \/ Block(d) \cap Block(e) = {}
                      \/ Block(d) \subseteq Block(e)
                      \/ Block(e) \subseteq Block(d)
    BY DEF BlocksNested, InTree
  <2>1. CASE d = e
    BY <2>1
  <2>2. CASE d # e
    BY <2>2, <1>1 DEF TreeInv, Tree, Apart
  <2> QED
    BY <2>1, <2>2
<1> QED
  BY <1>2, TreeInvariant, PTL

=============================================================================
