-------------------------------- MODULE JSMap --------------------------------
(***************************************************************************)
(* Map and Set of QuickJS: a hash table of chains and a list of records in *)
(* the order of insertion.  A record that is deleted while an iterator or  *)
(* forEach stands on it stays in the list as a zombie until the last of    *)
(* them moves on.  forEach is an iterator that only its own call knows.    *)
(*                                                                         *)
(* JavaScript code does one operation at a time, in any order.  It may     *)
(* store an iterator of the map as a value in the map.  WeakMaps are the   *)
(* instance Weak: their keys may die, and they have no iterators.          *)
(***************************************************************************)
EXTENDS Integers, Sequences, SequencesExt, FiniteSetsExt

CONSTANTS
    Ids,     \* addresses of records
    Keys,    \* keys, numbers here
    Iters,   \* iterators
    Weak,    \* is_weak
    MaxLog,  \* bound: entries ever added
    Null,    \* no record, no iterator, no key
    Done     \* what next says at the end

MapAssumption == Keys \subseteq Nat /\ Weak \in BOOLEAN /\ MaxLog \in Nat

VARIABLES
    map,  \* the map and its iterators, see NewMap
    dead, \* keys of a WeakMap that nothing else refers to
    log,  \* history: the entries ever added
    idx,  \* history: the entry of each record
    out   \* what the last step gave to the program

vars == <<map, dead, log, idx, out>>

NoRecord == [key |-> Null, value |-> Null, rc |-> 0, empty |-> TRUE]
NoIter == [obj |-> FALSE, cur |-> Null, stored |-> FALSE]

\* js_map_constructor
NewMap ==
    [alive |-> TRUE,
     list  |-> <<>>,                      \* records
     rec   |-> [r \in Ids |-> NoRecord],  \* JSMapRecord
     alloc |-> {},                        \* the records that are allocated
     bits  |-> 1,                         \* hash_bits
     table |-> << <<>>, <<>> >>,          \* hash_table
     limit |-> 4,                         \* record_count_threshold
     count |-> 0,                         \* record_count
     it    |-> [i \in Iters |-> NoIter],  \* iterators: obj is undefined, cur_record
     nested |-> FALSE,                    \* history: clear freed the record it was to go on with
     fault |-> FALSE]                     \* an assert failed, or freed memory was used

Init ==
    /\ map = NewMap
    /\ dead = {}
    /\ log = <<>>
    /\ idx = [r \in Ids |-> 0]
    /\ out = Null

-----------------------------------------------------------------------------
(***************************************************************************)
(* Records, the list and the hash table.                                   *)
(***************************************************************************)
Fault(m, really) == [m EXCEPT !.fault = @ \/ really]

\* map_hash_key, of which only this matters: one more bit splits each chain in two.
Hash(k, bits) == (k % 2^bits) + 1

Free(m, r) ==
    [Fault(m, r \notin m.alloc) EXCEPT !.alloc = @ \ {r}, !.rec[r] = NoRecord,
                                      !.list = Remove(@, r)]

\* map_decref_record: asserts that the record is a zombie when it frees it.
Decref(m, r) ==
    LET d == [Fault(m, r \notin m.alloc) EXCEPT !.rec[r].rc = @ - 1] IN
    IF d.rec[r].rc # 0 THEN d ELSE Free(Fault(d, ~d.rec[r].empty), r)

\* Mutant: the record stays locked.
FinalizeLocked(m, i) == [m EXCEPT !.it[i] = NoIter]

\* js_map_iterator_finalizer
Finalize(m, i) ==
    LET c == m.it[i].cur
        d == IF m.alive /\ c # Null THEN Decref(m, c) ELSE m
    IN [d EXCEPT !.it[i] = NoIter]

\* JS_FreeValue of the value of a record: the iterator it was goes with it.
FreeOld(m, r) == IF m.rec[r].value = Null THEN m ELSE Finalize(m, m.rec[r].value)

\* Mutant: the record is taken out of the list in any case.
DeleteRecordAlways(m, r) ==
    IF m.rec[r].empty THEN m ELSE [Free(FreeOld(m, r), r) EXCEPT !.count = @ - 1]

\* map_delete_record: the key and the value first, then the record.
DeleteRecord(m, r) ==
    LET v == FreeOld(m, r)
        d == [v EXCEPT !.rec[r].rc = @ - 1, !.count = @ - 1]
    IN
    IF m.rec[r].empty THEN m
    ELSE IF d.rec[r].rc = 0 THEN Free(d, r)
    ELSE [d EXCEPT !.rec[r].empty = TRUE, !.rec[r].key = Null, !.rec[r].value = Null]

\* A record that may be found: not a zombie, its key alive.
Valid(m, r) == ~m.rec[r].empty /\ m.rec[r].key \notin dead

\* map_find_record walks one chain.
Found(m, k) ==
    SelectSeq(m.table[Hash(k, m.bits)], LAMBDA r : Valid(m, r) /\ m.rec[r].key = k)
Find(m, k) == IF Found(m, k) = <<>> THEN Null ELSE Head(Found(m, k))

\* Mutant: the record stays in its chain.
UnhashNot(m, r) == m

Unhash(m, r) ==
    LET h == Hash(m.rec[r].key, m.bits) IN [m EXCEPT !.table[h] = Remove(@, r)]

\* Mutant: the chains also get the zombies, whose key is undefined.
ResizeAll(m) ==
    LET b == m.bits + 1
        HashOf(r) == IF m.rec[r].empty THEN 1 ELSE Hash(m.rec[r].key, b)
    IN
    [m EXCEPT !.bits = b, !.limit = 2 * 2^b,
              !.table = [h \in 1..2^b |-> SelectSeq(Reverse(m.list), LAMBDA r : HashOf(r) = h)]]

\* map_hash_resize: each record goes to the head of its new chain.
Resize(m) ==
    LET b == m.bits + 1
        valid == Reverse(SelectSeq(m.list, LAMBDA r : Valid(m, r)))
    IN
    [m EXCEPT !.bits = b, !.limit = 2 * 2^b,
              !.table = [h \in 1..2^b |->
                            SelectSeq(valid, LAMBDA r : Hash(m.rec[r].key, b) = h)]]

\* map_add_record
AddRecord(m, r, k) ==
    LET d == [m EXCEPT !.alloc = @ \cup {r}, !.count = @ + 1, !.list = Append(@, r),
                       !.rec[r] = [key |-> k, value |-> Null, rc |-> 1, empty |-> FALSE],
                       !.table[Hash(k, m.bits)] = <<r>> \o @]
    IN  IF d.count >= d.limit THEN Resize(d) ELSE d

-----------------------------------------------------------------------------
(***************************************************************************)
(* Operations.                                                             *)
(***************************************************************************)
SetValue(m, r, v) ==
    [FreeOld(m, r) EXCEPT !.rec[r].value = v,
                          !.it = [i \in Iters |-> IF i = v THEN [@[i] EXCEPT !.stored = TRUE] ELSE @[i]]]

\* Values: plain, or an iterator that the program gives away.
Storable == {Null} \cup {i \in Iters : map.it[i].obj /\ ~map.it[i].stored}

\* js_map_set
Set(k, v) ==
    /\ map.alive
    /\ k \notin dead
    /\ out' = Null
    /\ IF Find(map, k) # Null
       THEN map' = SetValue(map, Find(map, k), v) /\ UNCHANGED <<log, idx>>
       ELSE /\ Len(log) < MaxLog
            /\ log' = Append(log, [key |-> k, live |-> TRUE])
            /\ \E r \in Ids \ map.alloc :
                  /\ map' = SetValue(AddRecord(map, r, k), r, v)
                  /\ idx' = [idx EXCEPT ![r] = Len(log) + 1]
    /\ UNCHANGED dead

Deleted(ks) ==
    log' = [n \in DOMAIN log |-> [log[n] EXCEPT !.live = @ /\ log[n].key \notin ks]]

\* js_map_delete
Delete(k) ==
    /\ map.alive
    /\ k \notin dead
    /\ Find(map, k) # Null
    /\ map' = DeleteRecord(Unhash(map, Find(map, k)), Find(map, k))
    /\ Deleted({k})
    /\ out' = Null
    /\ UNCHANGED <<dead, idx>>

After(m, r) == IF r = Null THEN m.list ELSE SubSeq(m.list, IndexFirstSubSeq(<<r>>, m.list) + 1, Len(m.list))
HeadOrNull(s) == IF s = <<>> THEN Null ELSE Head(s)

\* One round of list_for_each_safe in js_map_clear: the next record was
\* looked up before this one is deleted.
ClearRecord(a, r) ==
    IF r # a.next THEN a
    ELSE IF r \notin a.m.alloc
    THEN [a EXCEPT !.m = [@ EXCEPT !.nested = TRUE, !.fault = TRUE], !.next = Null]
    ELSE [m |-> DeleteRecord(a.m, r), next |-> HeadOrNull(After(a.m, r))]

Clear ==
    LET e == [map EXCEPT !.table = [h \in DOMAIN @ |-> <<>>]] IN
    /\ map.alive
    /\ ~Weak
    /\ map' = FoldLeft(ClearRecord, [m |-> e, next |-> HeadOrNull(e.list)], e.list).m
    /\ Deleted(Keys)
    /\ out' = Null
    /\ UNCHANGED <<dead, idx>>

\* js_create_map_iterator, or the beginning of forEach
NewIterator(i) ==
    /\ map.alive
    /\ ~Weak
    /\ ~map.it[i].obj
    /\ map' = [map EXCEPT !.it[i].obj = TRUE]
    /\ out' = Null
    /\ UNCHANGED <<dead, log, idx>>

\* Mutant: the first zombie ends the iteration.
NextLiveOrEnd(m, r) ==
    LET s == After(m, r) IN IF s = <<>> \/ m.rec[Head(s)].empty THEN Null ELSE Head(s)

\* The first record after r that is not a zombie.
NextLive(m, r) == HeadOrNull(SelectSeq(After(m, r), LAMBDA s : ~m.rec[s].empty))

\* js_map_iterator_next, or the next round of forEach: the old record is
\* unlocked, and may be freed; the new one is locked.
Advance(i) ==
    LET c == map.it[i].cur
        n == NextLive(map, c)
        d == IF c = Null THEN map ELSE Decref(Fault(map, c \notin map.alloc), c)
    IN
    /\ map.it[i].obj
    /\ ~map.it[i].stored
    /\ IF n = Null
       THEN map' = [d EXCEPT !.it[i] = NoIter] /\ out' = Done
       ELSE /\ map' = [d EXCEPT !.rec[n].rc = @ + 1, !.it[i].cur = n]
            /\ out' = map.rec[n].key
    /\ UNCHANGED <<dead, log, idx>>

\* The program drops an iterator, or a callback of forEach throws.
DropIterator(i) ==
    /\ map.it[i].obj
    /\ ~map.it[i].stored
    /\ map' = Finalize(map, i)
    /\ out' = Null
    /\ UNCHANGED <<dead, log, idx>>

\* js_map_finalizer: nothing but the records is left to free.
FreeMap(m) == [m EXCEPT !.alive = FALSE, !.alloc = {}, !.list = <<>>, !.rec = [r \in Ids |-> NoRecord],
                        !.table = << <<>> >>]

\* The map is dropped.  Iterators of the map that are stored in it form cycles
\* with it: the collector finalizes them before or after the map.
DropMap ==
    /\ map.alive
    /\ \A i \in Iters : map.it[i].obj => map.it[i].stored
    /\ \E before \in SUBSET {i \in Iters : map.it[i].obj} :
          LET m1 == FoldLeft(Finalize, map, SetToSeq(before))
              after == {i \in Iters : m1.it[i].obj}
          IN map' = FoldLeft(Finalize, FreeMap(m1), SetToSeq(after))
    /\ Deleted(Keys)
    /\ out' = Null
    /\ UNCHANGED <<dead, idx>>

-----------------------------------------------------------------------------
(***************************************************************************)
(* Keys of a WeakMap.                                                      *)
(***************************************************************************)
\* The last reference to a key goes away.
KeyDies(k) ==
    /\ Weak
    /\ k \notin dead
    /\ dead' = dead \cup {k}
    /\ Deleted({k})
    /\ out' = Null
    /\ UNCHANGED <<map, idx>>

DeleteWeak(m, r) == IF m.rec[r].key \in dead THEN DeleteRecord(Unhash(m, r), r) ELSE m

\* map_delete_weakrefs, called by the collector.  Afterwards the memory of a
\* key may be used for another one.
DeleteWeakrefs ==
    /\ map.alive
    /\ dead # {}
    /\ map' = FoldLeft(DeleteWeak, map, map.list)
    /\ dead' = {}
    /\ out' = Null
    /\ UNCHANGED <<log, idx>>

Next ==
    \/ \E k \in Keys, v \in Storable : Set(k, v)
    \/ \E k \in Keys : Delete(k) \/ KeyDies(k)
    \/ \E i \in Iters : NewIterator(i) \/ Advance(i) \/ DropIterator(i)
    \/ Clear \/ DropMap \/ DeleteWeakrefs

Spec == Init /\ [][Next]_vars

-----------------------------------------------------------------------------
(***************************************************************************)
(* Properties.                                                             *)
(***************************************************************************)
TypeOK ==
    /\ map.list \in Seq(Ids) /\ IsInjective(map.list)
    /\ map.rec \in [Ids -> [key : Keys \cup {Null}, value : Iters \cup {Null}, rc : Nat, empty : BOOLEAN]]
    /\ map.it \in [Iters -> [obj : BOOLEAN, cur : Ids \cup {Null}, stored : BOOLEAN]]
    /\ map.count \in Nat
    /\ DOMAIN map.table = 1..Len(map.table)

\* No record is used after it was freed, and map_decref_record frees zombies
\* only, although operations and iterators come in any order.  The exception:
\* js_map_clear keeps a pointer to the next record while it frees a value,
\* and a value that is an iterator may take that record with it.
NoFault == map.fault => map.nested

Lockers(r) == Cardinality({i \in Iters : map.it[i].cur = r})

\* A record counts its place in the map and whoever stands on it, so a zombie
\* is there only while somebody does.
RecordsCounted ==
    ~map.nested => \A r \in map.alloc :
        /\ map.rec[r].rc = Lockers(r) + (IF map.rec[r].empty THEN 0 ELSE 1)
        /\ map.rec[r].rc > 0
        /\ Contains(map.list, r)

\* The hash table holds the records that are not zombies, each in the chain
\* of its key, and no key that is alive twice; record_count counts them.
TableExact ==
    (map.alive /\ ~map.nested) =>
        /\ map.count = Cardinality({r \in map.alloc : ~map.rec[r].empty})
        /\ \A r \in map.alloc : Valid(map, r) =>
              Contains(map.table[Hash(map.rec[r].key, map.bits)], r)
        /\ \A h \in DOMAIN map.table :
              /\ IsInjective(map.table[h])
              /\ \A r \in Range(map.table[h]) :
                    r \in map.alloc /\ ~map.rec[r].empty /\ Hash(map.rec[r].key, map.bits) = h
        /\ \A r, s \in map.alloc :
              (Valid(map, r) /\ Valid(map, s) /\ map.rec[r].key = map.rec[s].key) => r = s

\* Iteration while the map changes is iteration over a log from which nothing
\* is taken: the map implements OrderedMap, with the position of an iterator
\* the entry of the record it stands on.
Abstract == INSTANCE OrderedMap WITH
    Nothing <- Null,
    pos <- [i \in Iters |-> IF ~map.it[i].obj THEN -1
                            ELSE IF map.it[i].cur = Null THEN 0 ELSE idx[map.it[i].cur]]
IteratesInOrder == [][~map.nested' => Abstract!Next]_(Abstract!vars)
=============================================================================
