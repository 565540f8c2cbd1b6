----------------------------- MODULE FlatHashMap -----------------------------
(***************************************************************************)
(* The open-addressing hash map behind OrderBookV2's index                 *)
(* (cpp/include/flat_hash_map.h): identity hash, linear probing, growth by *)
(* doubling, and backward-shift deletion without tombstones.  The map is   *)
(* used by one thread; erase() is modelled slot by slot because its loop   *)
(* is where entries can be lost, every other operation is one step.        *)
(*                                                                         *)
(* contents is what an ideal map would hold after the same calls.  Empty   *)
(* slots keep stale entries in the code; nothing reads them.               *)
(***************************************************************************)
EXTENDS Integers, FiniteSetsExt

CONSTANTS
    Key,            \* the keys callers use
    Value,          \* the values callers store
    MinCapacity,    \* slots of a new map (16), a power of two
    MaxCapacity     \* a bound: calls that would grow the table past it are left out

ASSUME MapAssumption ==
    /\ Key \subseteq Nat
    /\ MinCapacity \in Nat \ {0, 1}
    /\ \E i \in 1 .. MinCapacity : MinCapacity = 2 ^ i
    /\ MaxCapacity \in Nat
    /\ MaxCapacity >= MinCapacity

Free == [used |-> FALSE]
EntryOf(k, v) == [used |-> TRUE, key |-> k, value |-> v]

VARIABLES
    size,       \* slots_.size(), which is mask_ + 1
    slots,      \* slots_
    live,       \* live_
    gap,        \* erase()'s i: the slot just emptied, or -1 between calls
    scan,       \* erase()'s j
    contents    \* the ideal map

mapVars == <<size, slots, live, gap, scan, contents>>

Idle == gap = -1

\* The size after i doublings.
Doubled[i \in 0 .. MaxCapacity] == IF i = 0 THEN MinCapacity ELSE Doubled[i - 1] * 2

\* Sizes the table can have: the first one doubled any number of times.
Capacities == {n \in MinCapacity .. MaxCapacity : \E i \in 0 .. n : n = Doubled[i]}

MapInit ==
    /\ size = MinCapacity
    /\ slots = [i \in 0 .. (MinCapacity - 1) |-> Free]
    /\ live = 0
    /\ gap = -1
    /\ scan = -1
    /\ contents = [k \in {} |-> 0]

\* hash_key(key) & mask_
Home(k, n) == k % n

\* The slots of a table tb of n slots that a probe for k visits, by distance:
\* up to the first that is free or holds k.  The probe does not end when
\* there is none.
Stops(k, tb, n) ==
    {d \in 0 .. (n - 1) :
        LET s == tb[(Home(k, n) + d) % n] IN s.used => s.key = k}

\* probe_for_insert() and probe_existing().
ProbeEnd(k, tb, n) == (Home(k, n) + Min(Stops(k, tb, n))) % n

\* find()
Found(k) == slots[ProbeEnd(k, slots, size)].used

\* As TooFull, at full load.
TooFullAtFullLoad(entries, n) == entries > n

\* More entries than kMaxLoad of n slots.
TooFull(entries, n) == entries * 10 > n * 7

\* As Moved, into slots numbered for the old table.
MovedUnhashed(n) == [i \in 0 .. (n - 1) |-> IF i < size THEN slots[i] ELSE Free]

\* rehash(): the entries in slot order, each put where a probe in the new
\* table of n slots finds room.
Moved(n) ==
    LET moved[i \in 0 .. size] ==
            IF i = 0 THEN [j \in 0 .. (n - 1) |-> Free]
            ELSE IF slots[i - 1].used
                 THEN [moved[i - 1] EXCEPT ![ProbeEnd(slots[i - 1].key, moved[i - 1], n)] = slots[i - 1]]
                 ELSE moved[i - 1]
    IN moved[size]
------------------------------------------------------------------------------
\* operator[] and the assignment through it; maybe_grow() comes first, for a
\* key that is there already too.
Put(k, v) ==
    LET n == IF TooFull(live + 1, size) THEN size * 2 ELSE size
        tb == IF n = size THEN slots ELSE Moved(n)
        i == ProbeEnd(k, tb, n)
    IN
    /\ Idle
    /\ n <= MaxCapacity
    /\ size' = n
    /\ slots' = [tb EXCEPT ![i] = EntryOf(k, v)]
    /\ live' = IF tb[i].used THEN live ELSE live + 1
    /\ contents' = [o \in DOMAIN contents \cup {k} |-> IF o = k THEN v ELSE contents[o]]
    /\ UNCHANGED <<gap, scan>>

\* reserve() of more entries than the table takes ends at a larger capacity of
\* n slots; of fewer it does nothing.
Reserve(n) ==
    /\ Idle
    /\ n > size
    /\ size' = n
    /\ slots' = Moved(n)
    /\ UNCHANGED <<live, gap, scan, contents>>

\* for_each_mut(): every value is rewritten in place.
ForEachMut(new) ==
    /\ Idle
    /\ slots' = [i \in DOMAIN slots |->
                    IF slots[i].used THEN EntryOf(slots[i].key, new[slots[i].value]) ELSE slots[i]]
    /\ contents' = [k \in DOMAIN contents |-> new[contents[k]]]
    /\ UNCHANGED <<size, live, gap, scan>>

\* erase() of a key that is there empties its slot ...
EraseFound(k) ==
    LET i == ProbeEnd(k, slots, size) IN
    /\ Idle
    /\ Found(k)
    /\ slots' = [slots EXCEPT ![i] = Free]
    /\ live' = live - 1
    /\ gap' = i
    /\ scan' = i
    /\ contents' = [o \in DOMAIN contents \ {k} |-> contents[o]]
    /\ UNCHANGED size

\* As EraseMissing, with the entry counted out all the same.
EraseMissingCounted(k) ==
    /\ Idle
    /\ ~Found(k)
    /\ live' = live - 1
    /\ UNCHANGED <<size, slots, gap, scan, contents>>

\* ... and of one that is not returns false.
EraseMissing(k) ==
    /\ Idle
    /\ ~Found(k)
    /\ UNCHANGED mapVars

\* As MustStay, without the case of a cluster that wraps round.
MustStayUnwrapped(i, j, h) == i < h /\ h <= j

\* An entry at j whose home is h must not move back to i when h lies in (i, j],
\* cyclically.
MustStay(i, j, h) ==
    IF i <= j THEN i < h /\ h <= j ELSE i < h \/ h <= j

\* One iteration of erase()'s loop: the entry after j moves into the gap or
\* stays, and the loop ends at a free slot.
ShiftBack ==
    LET j == (scan + 1) % size IN
    /\ ~Idle
    /\ slots[j].used
    /\ scan' = j
    /\ IF MustStay(gap, j, Home(slots[j].key, size))
       THEN UNCHANGED <<slots, gap>>
       ELSE /\ slots' = [slots EXCEPT ![gap] = slots[j], ![j] = Free]
            /\ gap' = j
    /\ UNCHANGED <<size, live, contents>>

EraseDone ==
    /\ ~Idle
    /\ ~slots[(scan + 1) % size].used
    /\ gap' = -1
    /\ scan' = -1
    /\ UNCHANGED <<size, slots, live, contents>>

MapNext ==
    \/ \E k \in Key, v \in Value : Put(k, v)
    \/ \E n \in Capacities : Reserve(n)
    \/ \E new \in [Value -> Value] : ForEachMut(new)
    \/ \E k \in Key : EraseFound(k) \/ EraseMissing(k)
    \/ ShiftBack
    \/ EraseDone

MapSpec == MapInit /\ [][MapNext]_mapVars
------------------------------------------------------------------------------
\* The table is an array of free and used slots, and live_ counts the used ones.
MapTypeOK ==
    /\ size \in Capacities
    /\ DOMAIN slots = 0 .. (size - 1)
    /\ \A i \in DOMAIN slots : slots[i] = Free \/ \E k \in Key, v \in Value : slots[i] = EntryOf(k, v)
    /\ live = Cardinality({i \in DOMAIN slots : slots[i].used})
    /\ gap \in DOMAIN slots \cup {-1}
    /\ scan \in DOMAIN slots \cup {-1}

\* Between calls find() sees exactly what an ideal map would hold, through
\* every collision, wrap-around, growth and backward shift.
FindsWhatWasPut ==
    Idle => \A k \in Key :
        /\ Found(k) <=> k \in DOMAIN contents
        /\ Found(k) => slots[ProbeEnd(k, slots, size)].value = contents[k]

\* No key is stored twice: a second copy would come back to life when the
\* first is erased.
NoSecondCopy ==
    \A i, j \in DOMAIN slots :
        slots[i].used /\ slots[j].used /\ slots[i].key = slots[j].key => i = j

\* Some slot is always free: every probe and erase()'s loop stop at one.
ProbesEnd == \E i \in DOMAIN slots : ~slots[i].used
==============================================================================
