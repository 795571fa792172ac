------------------------------ MODULE SymTable ------------------------------
(***************************************************************************)
(* symtable.c: the open-addressing hash table behind every scope of the    *)
(* interpreter (globals, locals of a frame, environment of a closure).     *)
(*                                                                         *)
(* One table, one caller.  An operation is one action, except that the     *)
(* loop of symtable_resize takes one step per old bucket: a call that has  *)
(* to grow the table is "growing" until the last bucket has been moved.    *)
(* A bucket abstracts the key word of SymTableEntry: its two tag bits give *)
(* the state, the rest of the word the identifier.  The stored hash is     *)
(* Hash[key].                                                              *)
(***************************************************************************)
EXTENDS Integers, FiniteSets

CONSTANTS Key,              \* identifiers
          Val,              \* pointers to the associated data
          NoVal,            \* the NULL pointer
          Hash,             \* fnv1_hash_string, any function
          InitialCapacity,  \* INITIAL_CAPACITY, 16 in the code
          MaxCapacity       \* bound: the table is not grown beyond this

(* Above four buckets the load factor leaves a bucket free (see            *)
(* SymTable_proofs); at four or fewer a full table would be reached.       *)
ASSUME CapacityAssumption == InitialCapacity \in Nat /\ InitialCapacity > 4
ASSUME HashAssumption     == Hash \in [Key -> Nat]
ASSUME BoundAssumption    == MaxCapacity \in Nat
ASSUME NullAssumption     == NoVal \notin Val

VARIABLES
  buckets,   \* [0..capacity-1 -> Bucket]
  capacity,  \* SymTable.capacity
  count,     \* SymTable.count
  pc,        \* "ready", "growing" (inside symtable_resize) or "hung"
  grow,      \* locals of the insertion that is growing the table
  last       \* the operation that returned last, and what it returned

table == <<buckets, capacity, count>>
vars  == <<buckets, capacity, count, pc, grow, last>>

---------------------------------------------------------------------------
(* Buckets.                                                                *)

Free        == [state |-> "free"]
Entry(k, v) == [state |-> "used", key |-> k, val |-> v]

Bucket == {Free} \cup [state : {"used", "tomb"}, key : Key, val : Val]

(* A zeroed array of n buckets. *)
EmptyBuckets(n) == [p \in 0 .. n - 1 |-> Free]

UsedIn(b) == {p \in DOMAIN b : b[p].state = "used"}

Holds(b, p, k) == b[p].state = "used" /\ b[p].key = k

---------------------------------------------------------------------------
(* Probing: from Hash[k] % n, one bucket at a time, wrapping.              *)

Pos(k, i, n) == LET start == Hash[k] % n
                IN  IF start + i < n THEN start + i ELSE start + i - n

(* The distances from the start at which each of the three probing loops   *)
(* would stop; a loop stops at the nearest of them, and never when there   *)
(* is none.  symtable_search cannot get past a tombstone: its `continue`   *)
(* comes before the step to the next bucket.                               *)
TombStops(b, n, k)   == {i \in 0 .. n - 1 : b[Pos(k, i, n)].state = "tomb"}
FreeStops(b, n, k)   == {i \in 0 .. n - 1 : b[Pos(k, i, n)].state = "free"}
InsertStops(b, n, k) == {i \in 0 .. n - 1 : \/ b[Pos(k, i, n)].state = "free"
                                            \/ Holds(b, Pos(k, i, n), k)}
SearchStops(b, n, k) == InsertStops(b, n, k) \cup TombStops(b, n, k)

Nearest(S) == CHOOSE i \in S : \A j \in S : i <= j

(* The bucket where symtable_search for the key ends. *)
Landing(k) == Pos(k, Nearest(SearchStops(buckets, capacity, k)), capacity)

(* The search returns: it finds a bucket to stop at, not a tombstone. *)
SearchReturns(k) == /\ SearchStops(buckets, capacity, k) # {}
                    /\ buckets[Landing(k)].state # "tomb"

Found(k) == Holds(buckets, Landing(k), k)

---------------------------------------------------------------------------
Result(op, k, v) == [op |-> op, key |-> k, value |-> v]

NoGrow == [op |-> "none"]

Init == /\ buckets = EmptyBuckets(InitialCapacity)
        /\ capacity = InitialCapacity
        /\ count = 0
        /\ pc = "ready"
        /\ grow = NoGrow
        /\ last = [op |-> "init"]

(* A loop that never stops. *)
Hang == pc' = "hung" /\ UNCHANGED <<buckets, capacity, count, grow, last>>

(* symtable_insert after the resize, on n buckets b of which c are         *)
(* counted.  A tombstone on the way only suppresses the increment of the   *)
(* count: the entry goes to the free bucket where the loop stops.          *)
Put(op, b, n, c, k, v) ==
    LET stops == InsertStops(b, n, k)
        p     == Pos(k, Nearest(stops), n)
        tombs == {i \in TombStops(b, n, k) : i < Nearest(stops)}
    IN  IF stops = {}
        THEN Hang
        ELSE /\ pc' = "ready"
             /\ grow' = NoGrow
             /\ capacity' = n
             /\ IF b[p].state = "used"
                THEN /\ buckets' = b
                     /\ count' = c
                     /\ last' = Result(op, k, b[p].val)
                ELSE /\ buckets' = [b EXCEPT ![p] = Entry(k, v)]
                     /\ count' = IF tombs = {} THEN c + 1 ELSE c
                     /\ last' = Result(op, k, NoVal)

(* count / capacity > LOAD_FACTOR *)
OverLoaded == 4 * count > 3 * capacity

(* Mutant: the new array has the capacity of the old one.                  *)
StartGrowing_same_size(op, k, v) ==
    /\ 2 * capacity <= MaxCapacity
    /\ pc' = "growing"
    /\ grow' = [op |-> op, key |-> k, val |-> v, from |-> 0, count |-> 0,
                buckets |-> EmptyBuckets(capacity)]
    /\ UNCHANGED <<buckets, capacity, count, last>>

StartGrowing(op, k, v) ==
    /\ 2 * capacity <= MaxCapacity
    /\ pc' = "growing"
    /\ grow' = [op |-> op, key |-> k, val |-> v, from |-> 0, count |-> 0,
                buckets |-> EmptyBuckets(2 * capacity)]
    /\ UNCHANGED <<buckets, capacity, count, last>>

StartInsert(op, k, v) ==
    IF OverLoaded THEN StartGrowing(op, k, v)
                  ELSE Put(op, buckets, capacity, count, k, v)

Insert(k, v) == pc = "ready" /\ StartInsert("insert", k, v)

(* Mutant: an entry keeps its index in the new array.                      *)
Rehash_same_index ==
    LET old == buckets[grow.from]
    IN  /\ pc = "growing"
        /\ grow.from < capacity
        /\ grow' = IF old.state # "used"
                   THEN [grow EXCEPT !.from = @ + 1]
                   ELSE [grow EXCEPT !.from = @ + 1,
                                     !.count = @ + 1,
                                     !.buckets = [@ EXCEPT ![grow.from] = old]]
        /\ UNCHANGED <<table, pc, last>>

(* Mutant: the entries moved are not counted.                              *)
Rehash_uncounted ==
    LET n     == 2 * capacity
        old   == buckets[grow.from]
        p     == Pos(old.key, Nearest(FreeStops(grow.buckets, n, old.key)), n)
    IN  /\ pc = "growing"
        /\ grow.from < capacity
        /\ grow' = IF old.state # "used"
                   THEN [grow EXCEPT !.from = @ + 1]
                   ELSE [grow EXCEPT !.from = @ + 1, !.buckets = [@ EXCEPT ![p] = old]]
        /\ UNCHANGED <<table, pc, last>>

(* One turn of the loop of symtable_resize over the old buckets. *)
Rehash ==
    LET n     == 2 * capacity
        old   == buckets[grow.from]
        stops == FreeStops(grow.buckets, n, old.key)
        p     == Pos(old.key, Nearest(stops), n)
    IN  /\ pc = "growing"
        /\ grow.from < capacity
        /\ IF old.state # "used"
           THEN /\ grow' = [grow EXCEPT !.from = @ + 1]
                /\ UNCHANGED <<table, pc, last>>
           ELSE IF stops = {}
           THEN Hang
           ELSE /\ grow' = [grow EXCEPT !.from = @ + 1,
                                        !.count = @ + 1,
                                        !.buckets = [@ EXCEPT ![p] = old]]
                /\ UNCHANGED <<table, pc, last>>

(* Mutant: the loop of symtable_resize stops before the last bucket.       *)
FinishInsert_early ==
    /\ pc = "growing"
    /\ grow.from = capacity - 1
    /\ Put(grow.op, grow.buckets, 2 * capacity, grow.count, grow.key, grow.val)

(* The new buckets replace the old ones and the insertion goes on. *)
FinishInsert ==
    /\ pc = "growing"
    /\ grow.from = capacity
    /\ Put(grow.op, grow.buckets, 2 * capacity, grow.count, grow.key, grow.val)

Update(k, v) ==
    /\ pc = "ready"
    /\ IF ~SearchReturns(k)
       THEN Hang
       ELSE IF ~Found(k)
       THEN StartInsert("update", k, v)
       ELSE /\ buckets' = [buckets EXCEPT ![Landing(k)] = Entry(k, v)]
            /\ last' = Result("update", k, buckets[Landing(k)].val)
            /\ UNCHANGED <<capacity, count, pc, grow>>

(* Mutant: symtable_remove creates the tombstone its comment announces.    *)
Removed_tomb(bucket) == [bucket EXCEPT !.state = "tomb"]

(* What symtable_remove makes of a bucket: it clears USED_BIT and sets no  *)
(* other bit, so the bucket is free again.                                 *)
Removed(bucket) == Free

Remove(k) ==
    /\ pc = "ready"
    /\ IF ~SearchReturns(k)
       THEN Hang
       ELSE /\ IF Found(k)
               THEN /\ buckets' = [buckets EXCEPT ![Landing(k)] = Removed(@)]
                    /\ last' = Result("remove", k, buckets[Landing(k)].val)
               ELSE /\ last' = Result("remove", k, NoVal)
                    /\ UNCHANGED buckets
            /\ UNCHANGED <<capacity, count, pc, grow>>

Get(k) ==
    /\ pc = "ready"
    /\ IF ~SearchReturns(k)
       THEN Hang
       ELSE /\ last' = Result("get", k, IF Found(k) THEN buckets[Landing(k)].val
                                                    ELSE NoVal)
            /\ UNCHANGED <<table, pc, grow>>

(* symtable_entry_count. *)
EntryCount ==
    /\ pc = "ready"
    /\ last' = [op |-> "count", value |-> Cardinality(UsedIn(buckets))]
    /\ UNCHANGED <<table, pc, grow>>

(* Everything but symtable_remove, which the repository never calls. *)
NextNoRemove == \/ Rehash
                \/ FinishInsert
                \/ EntryCount
                \/ \E k \in Key : Get(k)
                \/ \E k \in Key, v \in Val : Insert(k, v)
                \/ \E k \in Key, v \in Val : Update(k, v)

Next == NextNoRemove \/ \E k \in Key : Remove(k)

SpecNoRemove == Init /\ [][NextNoRemove]_vars
Spec         == Init /\ [][Next]_vars

---------------------------------------------------------------------------
(* Properties.                                                             *)

Growing == [op : {"insert", "update"}, key : Key, val : Val, from : 0 .. capacity,
            count : Nat, buckets : [0 .. 2 * capacity - 1 -> Bucket]]

TypeOK ==
    /\ capacity \in Nat
    /\ buckets \in [0 .. capacity - 1 -> Bucket]
    /\ count \in Nat
    /\ pc \in {"ready", "growing", "hung"}
    /\ pc = "growing" => grow \in Growing

(* Every probing loop of every operation stops: the table always keeps a   *)
(* free bucket to stop at, also when removals have left `count` above the  *)
(* number of entries, and no search meets a tombstone (line 85).           *)
OperationsReturn == pc # "hung"

(* An entry of the table is where symtable_search for its key ends.  Hence *)
(* symtable_get finds it and symtable_insert does not store its key twice. *)
(* Line 93 relies on this: a search gives up at the first free bucket.     *)
EntriesReachable ==
    \A p \in UsedIn(buckets) :
        LET k == buckets[p].key
        IN  /\ SearchStops(buckets, capacity, k) # {}
            /\ Landing(k) = p

(* `count` is never below the number of entries: the load factor is        *)
(* applied to an upper bound of the real load, so a removal can make the   *)
(* table grow early but never late.                                        *)
CountCoversEntries == Cardinality(UsedIn(buckets)) <= count

(* What makes the two facts above inductive.  Fits: at most three quarters *)
(* of the buckets and one more are counted, which is less than all of them *)
(* when there are more than four.                                          *)
Fits(b, n, c) == Cardinality(UsedIn(b)) <= c /\ 4 * c <= 3 * n + 4

NoTomb(b) == \A p \in DOMAIN b : b[p].state # "tomb"

Load ==
    /\ capacity > 4
    /\ NoTomb(buckets)
    /\ Fits(buckets, capacity, count)
    /\ pc = "growing" => /\ NoTomb(grow.buckets)
                         /\ Cardinality(UsedIn(grow.buckets)) <= grow.count
                         /\ grow.count <= grow.from

LoadInv == TypeOK /\ OperationsReturn /\ Load

(* What makes EntriesReachable inductive where nothing is removed.         *)
(* Chained: a probe for the key of an entry meets only entries of other    *)
(* keys before it.                                                         *)
Chained(b, n) ==
    \A p \in UsedIn(b) : \E i \in 0 .. n - 1 :
        /\ Pos(b[p].key, i, n) = p
        /\ \A j \in 0 .. i - 1 : /\ b[Pos(b[p].key, j, n)].state = "used"
                                 /\ b[Pos(b[p].key, j, n)].key # b[p].key

(* The buckets below an index that are entries.                            *)
Entries(b, limit) == {b[p] : p \in {q \in UsedIn(b) : q < limit}}

(* While the table grows: the new array has the entries of the old buckets *)
(* already visited, and an update that has to insert did not find its key. *)
Moved ==
    /\ Chained(grow.buckets, 2 * capacity)
    /\ Entries(grow.buckets, 2 * capacity) = Entries(buckets, grow.from)
    /\ grow.op = "update" => \A p \in UsedIn(buckets) : buckets[p].key # grow.key

MapInv ==
    /\ LoadInv
    /\ Chained(buckets, capacity)
    /\ pc = "growing" => Moved

(* The entries of the table, as the map the header describes. *)
MapOf(b) == [k \in Key |->
               IF \E p \in UsedIn(b) : b[p].key = k
               THEN b[CHOOSE p \in UsedIn(b) : b[p].key = k].val
               ELSE NoVal]
Contents == MapOf(buckets)

Abstract == INSTANCE SymMap WITH map <- Contents

(* The table implements the map of symtable.h: each operation returns what *)
(* the map would return and changes one entry at most; growing the table   *)
(* loses, duplicates and changes no entry.                                 *)
ImplementsMap == Abstract!Spec
=============================================================================
