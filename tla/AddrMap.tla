------------------------------ MODULE AddrMap ------------------------------
(***************************************************************************)
(* The address translation table (common/zb_address.c): an open hash by    *)
(* long address, addr_map[], and an index of its entries in the order of   *)
(* their short addresses, short_sorted[].  References into addr_map[] are  *)
(* kept by the neighbor table, the binding table and the security code;    *)
(* whoever keeps one locks the entry.                                      *)
(*                                                                         *)
(* Left out: the clock bits, which nothing reads (the reuse of old entries *)
(* is compiled out in addr_add()), and the memory of the duplicate check,  *)
(* which is in ApsReceive.  A failed ZB_ASSERT() ends the program.         *)
(***************************************************************************)
EXTENDS Integers, FiniteSets

CONSTANTS
    TableSize,         \* ZB_IEEE_ADDR_TABLE_SIZE
    Ieees, NoIeee,     \* long addresses, and the zero one
    Shorts, NoShort,   \* short addresses, and 0xffff
    Hash,              \* zb_address_compressed_ieee_hash()
    LockSize,          \* values of the 4 bit lock_cnt
    DoubleHits,        \* does the byte behind the index take part in deletions?
    MaxDeletes         \* bound: entries deleted

ASSUME AddrAssumption ==
    /\ TableSize \in Nat \ {0} /\ LockSize \in Nat \ {0, 1} /\ MaxDeletes \in Nat /\ DoubleHits \in BOOLEAN
    /\ Shorts \subseteq Nat /\ NoShort \in Nat /\ NoShort \notin Shorts
    /\ NoIeee \notin Ieees
    /\ Hash \in [Ieees -> 0 .. TableSize - 1]

VARIABLES
    addr,       \* ZG->addr: addr_map, short_sorted, n_sorted_elements, n_elements
    deletes,    \* entries deleted so far
    aborted     \* a ZB_ASSERT() failed

vars == <<addr, deletes, aborted>>

Refs  == 0 .. TableSize - 1
NoRef == TableSize

Entry == [used : BOOLEAN, ieee_addr : Ieees \cup {NoIeee},
          addr : Shorts \cup {NoShort, 0}, lock_cnt : 0 .. LockSize - 1]

Init ==
    /\ addr = [addr_map |-> [r \in Refs |-> [used |-> FALSE, ieee_addr |-> NoIeee,
                                            addr |-> 0, lock_cnt |-> 0]],
               short_sorted |-> [k \in Refs |-> 0],
               n_sorted_elements |-> 0, n_elements |-> 0]
    /\ deletes = 0
    /\ aborted = FALSE

-----------------------------------------------------------------------------
(* The two searches.  Operators take the table `a` and return a table, so   *)
(* that they compose the way the calls do.                                  *)

\* The short address at position k of the index.
ShortAt(a, k) == a.addr_map[a.short_sorted[k]].addr

\* The binary searches of short_search() and add_short_sorted(): from the
\* bounds b = <<l, r>> to the position where they meet.
LowerBound(a, short_addr) ==
    LET Positions == 0 .. TableSize
        search[b \in Positions \X Positions] ==
            LET i == b[1] + (b[2] - b[1]) \div 2 IN
            IF b[1] >= b[2] THEN b[1]
            ELSE IF short_addr > ShortAt(a, i) THEN search[<<i + 1, b[2]>>] ELSE search[<<b[1], i>>]
    IN search[<<0, a.n_sorted_elements>>]

UpperBound(a, short_addr) ==
    LET Positions == 0 .. TableSize
        search[b \in Positions \X Positions] ==
            LET i == b[1] + (b[2] - b[1]) \div 2 IN
            IF b[1] >= b[2] THEN b[1]
            ELSE IF short_addr >= ShortAt(a, i) THEN search[<<i + 1, b[2]>>] ELSE search[<<b[1], i>>]
    IN search[<<0, a.n_sorted_elements>>]

short_search(a, short_addr) ==
    LET l == IF a.n_sorted_elements > 1 THEN LowerBound(a, short_addr) ELSE 0 IN
    IF l < a.n_sorted_elements /\ ShortAt(a, l) = short_addr THEN a.short_sorted[l] ELSE NoRef

\* The first entry of the set wanted from position h on, in the order of the
\* open hash; NoRef if there is none.
Probe(h, wanted) ==
    LET hits == {k \in Refs : (h + k) % TableSize \in wanted} IN
    IF hits = {} THEN NoRef
    ELSE (h + (CHOOSE k \in hits : \A j \in hits : k <= j)) % TableSize

ieee_search(a, ieee) ==
    Probe(Hash[ieee], {r \in Refs : a.addr_map[r].used /\ a.addr_map[r].ieee_addr = ieee})

-----------------------------------------------------------------------------
(* Changes of the index.                                                    *)

\* The byte behind short_sorted[] is the low byte of n_elements.
SortedByte(a, k) == IF k \in Refs THEN a.short_sorted[k] ELSE a.n_elements

\* memmove() from position k + 1 to k, one element more than the index has.
MoveLeft(a, k) ==
    [a EXCEPT !.short_sorted = [p \in Refs |->
        IF p \in k .. a.n_sorted_elements - 1 THEN SortedByte(a, p + 1) ELSE @[p]]]

\* del_short_sorted(): the scan goes on after it has found ref, to the old
\* end of the index, where memmove() has put a byte from behind the index.
del_short_sorted(a, ref) ==
    LET n == a.n_sorted_elements
        scan[i \in 0 .. n] ==
            IF i = 0 THEN [a |-> a, dec |-> 0]
            ELSE LET s == scan[i - 1] IN
                 IF s.a.short_sorted[i - 1] # ref THEN s
                 ELSE [a |-> IF i - 1 # n - 1 THEN MoveLeft(s.a, i - 1) ELSE s.a,
                       dec |-> s.dec + 1]
        end == scan[n]
    IN [end.a EXCEPT !.n_sorted_elements = @ - end.dec]

\* One entry goes, not two: a deletion in which the scan does not meet ref
\* again behind the index.  Runs with DoubleHits = FALSE have no other.
SingleHit(a, ref) ==
    DoubleHits \/ del_short_sorted(a, ref).n_sorted_elements >= a.n_sorted_elements - 1

\* add_short_sorted()
add_short_sorted(a, ref, short_addr) ==
    LET n == a.n_sorted_elements
        b == IF n > 1 THEN UpperBound(a, short_addr) ELSE 0
        l == IF b < n /\ short_addr > ShortAt(a, b) THEN b + 1 ELSE b
    IN [a EXCEPT !.short_sorted = [p \in Refs |->
                     IF p = l THEN ref ELSE IF p \in l + 1 .. n THEN @[p - 1] ELSE @[p]],
                 !.n_sorted_elements = n + 1]

-----------------------------------------------------------------------------
(* Changes of the table.                                                    *)

\* addr_add(): takes the first free entry; the lock count stays what it was.
addr_add(a, ieee, short_addr) ==
    LET free == {r \in Refs : ~a.addr_map[r].used}
        r == Probe(IF ieee = NoIeee THEN 0 ELSE Hash[ieee], free)
        b == [a EXCEPT !.addr_map[r].addr = short_addr, !.addr_map[r].ieee_addr = ieee]
        c == IF short_addr # NoShort THEN add_short_sorted(b, r, short_addr) ELSE b
    IN IF r = NoRef THEN [a |-> a, ref |-> NoRef]
       ELSE [a |-> [c EXCEPT !.n_elements = @ + 1, !.addr_map[r].used = TRUE], ref |-> r]

\* zb_address_delete() without its caller.
Delete_NotFreed(a, ref) == [del_short_sorted(a, ref) EXCEPT !.n_elements = @ - 1]
Delete(a, ref) ==
    [del_short_sorted(a, ref) EXCEPT !.addr_map[ref].used = FALSE, !.n_elements = @ - 1]

\* The end of an operation that got reference ref in table a, and locks it or
\* not: zb_address_lock() asserts that the count does not overflow.
Finish_NoWrap(a, ref, lock) ==
    /\ addr' = IF ref # NoRef /\ lock THEN [a EXCEPT !.addr_map[ref].lock_cnt = @ + 1] ELSE a
    /\ UNCHANGED aborted
Finish(a, ref, lock) ==
    \/ /\ ref = NoRef \/ ~lock
       /\ addr' = a
       /\ UNCHANGED aborted
    \/ /\ ref # NoRef /\ lock
       /\ addr' = [a EXCEPT !.addr_map[ref].lock_cnt = (@ + 1) % LockSize]
       /\ aborted' = (addr'.addr_map[ref].lock_cnt = 0)

zb_address_by_ieee(ieee, create, lock) ==
    LET ref == ieee_search(addr, ieee)
        new == addr_add(addr, ieee, NoShort)
    IN /\ ~aborted
       /\ IF ref # NoRef \/ ~create THEN Finish(addr, ref, lock)
                                    ELSE Finish(new.a, new.ref, lock)
       /\ UNCHANGED deletes

zb_address_by_short(short_addr, create, lock) ==
    LET ref == short_search(addr, short_addr)
        new == addr_add(addr, NoIeee, short_addr)
    IN /\ ~aborted
       /\ IF ref # NoRef \/ ~create THEN Finish(addr, ref, lock)
                                    ELSE Finish(new.a, new.ref, lock)
       /\ UNCHANGED deletes

\* The end of zb_address_update(): entry ref gets both addresses.
SetPair_NoDel(a, ref, ieee, short_addr) ==
    LET b == [a EXCEPT !.addr_map[ref].ieee_addr = ieee, !.addr_map[ref].addr = short_addr]
    IN IF a.addr_map[ref].addr = short_addr \/ b.n_sorted_elements = TableSize
       THEN b ELSE add_short_sorted(b, ref, short_addr)
SetPair(a, ref, ieee, short_addr) ==
    LET old == a.addr_map[ref].addr
        b == [a EXCEPT !.addr_map[ref].ieee_addr = ieee]
        c == IF old # NoShort THEN del_short_sorted(b, ref) ELSE b
        d == [c EXCEPT !.addr_map[ref].addr = short_addr]
    IN IF old = short_addr THEN b ELSE add_short_sorted(d, ref, short_addr)

\* SetPair() meets no second hit: it deletes only if the address changes.
SetsPairCleanly(a, ref, short_addr) ==
    a.addr_map[ref].addr \notin {NoShort, short_addr} => SingleHit(a, ref)

\* May the entry be given up for another one?
Expendable_Always(ref) == TRUE
Expendable(ref) == addr.addr_map[ref].lock_cnt = 0

\* zb_address_update(): entries found by the short and by the long address are
\* made one, the one without a lock gives way.
zb_address_update(ieee, short_addr, lock) ==
    LET ref      == short_search(addr, short_addr)
        ref_long == ieee_search(addr, ieee)
        new      == addr_add(addr, ieee, short_addr)
        conflict == ref # NoRef /\ ref_long # NoRef /\ ref # ref_long
        merged   == Delete(addr, ref)
        keep     == IF ref_long = NoRef THEN ref ELSE ref_long
    IN
    /\ ~aborted
    /\ conflict => deletes < MaxDeletes
    /\ \/ /\ conflict /\ Expendable(ref)
          /\ SingleHit(addr, ref) /\ SetsPairCleanly(merged, ref_long, short_addr)
          /\ Finish(SetPair(merged, ref_long, ieee, short_addr), ref_long, lock)
          /\ deletes' = deletes + 1
       \/ /\ conflict /\ ~Expendable(ref) /\ Expendable(ref_long)
          /\ SingleHit(addr, ref_long)
          /\ Finish(SetPair(Delete(addr, ref_long), ref, ieee, short_addr), ref, lock)
          /\ deletes' = deletes + 1
       \/ /\ conflict /\ ~Expendable(ref) /\ ~Expendable(ref_long)
          /\ aborted' = TRUE
          /\ UNCHANGED <<addr, deletes>>
       \/ /\ ~conflict /\ keep # NoRef
          /\ SetsPairCleanly(addr, keep, short_addr)
          /\ Finish(SetPair(addr, keep, ieee, short_addr), keep, lock)
          /\ UNCHANGED deletes
       \/ /\ ~conflict /\ keep = NoRef
          /\ Finish(new.a, new.ref, lock)
          /\ UNCHANGED deletes

\* zb_address_delete(): a device is forgotten, locked or not.
zb_address_delete(ref) ==
    /\ ~aborted
    /\ addr.addr_map[ref].used
    /\ deletes < MaxDeletes
    /\ SingleHit(addr, ref)
    /\ deletes' = deletes + 1
    /\ addr' = Delete(addr, ref)
    /\ UNCHANGED aborted

\* zb_address_lock() by a table that keeps a reference it has just looked up.
zb_address_lock(ref) ==
    /\ ~aborted
    /\ addr.addr_map[ref].used
    /\ Finish(addr, ref, TRUE)
    /\ UNCHANGED deletes

\* zb_address_unlock() of an entry with a lock.
zb_address_unlock(ref) ==
    /\ ~aborted
    /\ addr.addr_map[ref].used /\ addr.addr_map[ref].lock_cnt > 0
    /\ addr' = [addr EXCEPT !.addr_map[ref].lock_cnt = @ - 1]
    /\ UNCHANGED <<deletes, aborted>>

Next ==
    \/ \E i \in Ieees, create, lock \in BOOLEAN : zb_address_by_ieee(i, create, lock)
    \/ \E s \in Shorts, create, lock \in BOOLEAN : zb_address_by_short(s, create, lock)
    \/ \E i \in Ieees, s \in Shorts, lock \in BOOLEAN : zb_address_update(i, s, lock)
    \/ \E r \in Refs : zb_address_delete(r) \/ zb_address_lock(r) \/ zb_address_unlock(r)

Spec == Init /\ [][Next]_vars

-----------------------------------------------------------------------------
(* Properties.                                                              *)

TypeOK ==
    /\ addr.addr_map \in [Refs -> Entry]
    /\ addr.short_sorted \in [Refs -> Refs \cup {NoRef}]
    /\ addr.n_sorted_elements \in 0 .. TableSize /\ addr.n_elements \in 0 .. TableSize
    /\ deletes \in 0 .. MaxDeletes /\ aborted \in BOOLEAN

Used == {r \in Refs : addr.addr_map[r].used}

\* short_sorted[] lists every entry with a short address exactly once, in
\* ascending order of these addresses, and nothing else, after every sequence
\* of insertions, deletions and changes of address: short_search() believes it.
IndexExact ==
    LET n == addr.n_sorted_elements IN
    /\ {addr.short_sorted[k] : k \in 0 .. n - 1}
           = {r \in Used : addr.addr_map[r].addr # NoShort}
    /\ \A k \in 1 .. n - 1 : ShortAt(addr, k - 1) < ShortAt(addr, k)

\* Both searches find an entry if and only if the table has one with that
\* address: the open hash stays searchable across deletions, and the binary
\* search agrees with a plain scan.
SearchExact ==
    /\ \A s \in Shorts :
          LET r == short_search(addr, s) IN
          IF r = NoRef THEN \A q \in Used : addr.addr_map[q].addr # s
          ELSE r \in Used /\ addr.addr_map[r].addr = s
    /\ \A i \in Ieees :
          LET r == ieee_search(addr, i) IN
          IF r = NoRef THEN \A q \in Used : addr.addr_map[q].ieee_addr # i
          ELSE r \in Used /\ addr.addr_map[r].ieee_addr = i

\* n_elements counts the used entries (zb_aps_check_timer_cb() scans until it
\* has seen that many, without looking at the end of the table), and no two
\* of them share an address.
EntriesExact ==
    /\ addr.n_elements = Cardinality(Used)
    /\ \A q, r \in Used : q # r =>
          /\ addr.addr_map[q].addr = addr.addr_map[r].addr => addr.addr_map[q].addr = NoShort
          /\ addr.addr_map[q].ieee_addr = addr.addr_map[r].ieee_addr
                => addr.addr_map[q].ieee_addr = NoIeee

\* Table, index, counters and both searches agree after every sequence of
\* insertions, changes of address, merges and deletions.
TableExact == IndexExact /\ SearchExact /\ EntriesExact

\* The table implements the set of address pairs it stands for (AddrPairs): what
\* zb_address_update() and the others do to the entries, with all the merging
\* and moving, changes the pairs the news is about and no other.
PairsView == INSTANCE AddrPairs
    WITH pairs <- {<<addr.addr_map[r].ieee_addr, addr.addr_map[r].addr>> : r \in Used}
ImplementsPairs == PairsView!Spec

\* A locked entry disappears only when its device is forgotten: the merging of
\* entries in zb_address_update() takes no reference away from who holds it.
LockedSurvives ==
    [][\A r \in Used :
          addr.addr_map[r].lock_cnt > 0 /\ ~addr'.addr_map[r].used =>
              zb_address_delete(r)]_vars

=============================================================================
