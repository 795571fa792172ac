--------------------------- MODULE SymTable_proofs ---------------------------
(***************************************************************************)
(* Proofs about SymTable, for every set of keys, every hash function and   *)
(* every initial capacity above four: its types, that all probing loops    *)
(* end, and, where nothing is removed, that it is the map of SymMap.       *)
(***************************************************************************)
EXTENDS SymTable, FiniteSetTheorems, WellFoundedInduction, TLAPS

(* The nearest of some stops is one of them, and no other is nearer.       *)
LEMMA NearestStop ==
    ASSUME NEW S \in SUBSET Nat, S # {}
    PROVE  /\ Nearest(S) \in S
           /\ \A j \in S : Nearest(S) <= j
<1> DEFINE Less == {pair \in Nat \X Nat : pair[1] < pair[2]}
<1>1. IsWellFoundedOn(Less, Nat)
  BY NatLessThanWellFounded, Zenon DEF OpToRel
<1>2. \A i, j \in Nat : j < i => <<j, i>> \in Less
  OBVIOUS
<1>3. \E i \in S : \A j \in S : i <= j
  <2> HIDE DEF Less
  <2>1. PICK i \in S : \A j \in S : ~ (<<j, i>> \in Less)
    BY <1>1, WFMin, Zenon
  <2>2. \A j \in S : ~ (j < i)
    BY <1>2, <2>1, Zenon
  <2>3. \A j \in S : i <= j
    BY <2>2
  <2> QED
    BY <2>3
<1> QED
  BY <1>3 DEF Nearest

(* A probe stays inside the array ...                                      *)
LEMMA PosInside ==
    ASSUME NEW k \in Key, NEW n \in Nat, n > 0, NEW i \in 0 .. n - 1
    PROVE  Pos(k, i, n) \in 0 .. n - 1
<1>1. Hash[k] \in Nat
  BY HashAssumption
<1>2. Hash[k] % n \in 0 .. n - 1
  BY <1>1
<1> QED
  BY <1>2 DEF Pos

(* ... and visits all of it.                                               *)
LEMMA PosOnto ==
    ASSUME NEW k \in Key, NEW n \in Nat, n > 0, NEW p \in 0 .. n - 1
    PROVE  \E i \in 0 .. n - 1 : Pos(k, i, n) = p
<1> DEFINE start == Hash[k] % n
<1>1. start \in 0 .. n - 1
  BY HashAssumption
<1>2. CASE start <= p
  <2>1. Pos(k, p - start, n) = p
    BY <1>1, <1>2 DEF Pos
  <2> QED
    BY <1>1, <1>2, <2>1
<1>3. CASE start > p
  <2>1. Pos(k, p - start + n, n) = p
    BY <1>1, <1>3 DEF Pos
  <2> QED
    BY <1>1, <1>3, <2>1
<1> QED
  BY <1>1, <1>2, <1>3

(* The used buckets are finitely many, and fewer than n of them leave a    *)
(* probe of any key a free bucket to stop at.                              *)
LEMMA UsedFinite ==
    ASSUME NEW n \in Nat, NEW b \in [0 .. n - 1 -> Bucket]
    PROVE  /\ IsFiniteSet(UsedIn(b))
           /\ Cardinality(UsedIn(b)) \in Nat
<1>1. IsFiniteSet(0 .. n - 1)
  BY FS_Interval
<1>2. UsedIn(b) \in SUBSET (0 .. n - 1)
  BY DEF UsedIn
<1> QED
  BY <1>1, <1>2, FS_Subset, FS_CardinalityType

(* With fewer entries than buckets and no tombstone, the probes of a key   *)
(* meet a free bucket.                                                     *)
LEMMA FreeStop ==
    ASSUME NEW k \in Key, NEW n \in Nat, n > 0, NEW b \in [0 .. n - 1 -> Bucket],
           NoTomb(b), Cardinality(UsedIn(b)) < n
    PROVE  FreeStops(b, n, k) # {}
<1>1. Cardinality(0 .. n - 1) = n
  BY FS_Interval
<1>2. UsedIn(b) # 0 .. n - 1
  BY <1>1, UsedFinite
<1>3. PICK p \in 0 .. n - 1 : b[p].state # "used"
  BY <1>2 DEF UsedIn
<1>4. b[p].state = "free"
  BY <1>3 DEF NoTomb, Bucket, Free
<1>5. PICK i \in 0 .. n - 1 : Pos(k, i, n) = p
  BY PosOnto
<1> QED
  BY <1>4, <1>5 DEF FreeStops

(* Where a probe for the key stops when its loop is that of symtable_insert, *)
(* of symtable_search or of symtable_resize.                               *)
LEMMA StopInside ==
    ASSUME NEW k \in Key, NEW n \in Nat, n > 0, NEW S \in SUBSET (0 .. n - 1), S # {}
    PROVE  /\ Nearest(S) \in S
           /\ \A j \in S : Nearest(S) <= j
           /\ Pos(k, Nearest(S), n) \in 0 .. n - 1
<1>1. Nearest(S) \in S /\ \A j \in S : Nearest(S) <= j
  <2>1. S \in SUBSET Nat
    OBVIOUS
  <2> QED
    BY <2>1, NearestStop
<1> QED
  BY <1>1, PosInside

(* Without tombstones no search stops at one.                              *)
LEMMA NoTombStop ==
    ASSUME NEW k \in Key, NEW n \in Nat, n > 0, NEW b \in [0 .. n - 1 -> Bucket],
           NoTomb(b)
    PROVE  TombStops(b, n, k) = {}
<1>1. \A i \in 0 .. n - 1 : b[Pos(k, i, n)].state # "tomb"
  BY PosInside DEF NoTomb
<1> QED
  BY <1>1 DEF TombStops

(* Filling a bucket adds one used bucket at most.                          *)
LEMMA UsedGrows ==
    ASSUME NEW n \in Nat, NEW b \in [0 .. n - 1 -> Bucket], NEW p \in 0 .. n - 1,
           NEW e \in Bucket, e.state = "used"
    PROVE  LET new == [b EXCEPT ![p] = e]
           IN  /\ new \in [0 .. n - 1 -> Bucket]
               /\ Cardinality(UsedIn(new)) <= Cardinality(UsedIn(b)) + 1
               /\ NoTomb(b) => NoTomb(new)
<1> DEFINE new == [b EXCEPT ![p] = e]
<1>1. UsedIn(new) = UsedIn(b) \cup {p}
  BY DEF UsedIn
<1>2. Cardinality(UsedIn(b) \cup {p}) <= Cardinality(UsedIn(b)) + 1
  <2>1. IsFiniteSet(UsedIn(b)) /\ Cardinality(UsedIn(b)) \in Nat
    BY UsedFinite
  <2>2. Cardinality(UsedIn(b) \cup {p}) =
          IF p \in UsedIn(b) THEN Cardinality(UsedIn(b))
                            ELSE Cardinality(UsedIn(b)) + 1
    BY <2>1, FS_AddElement, Zenon
  <2> QED
    BY <2>1, <2>2
<1>3. NoTomb(b) => NoTomb(new)
  BY DEF NoTomb
<1> QED
  BY <1>1, <1>2, <1>3

(* Freeing or overwriting a used bucket adds none.                         *)
LEMMA UsedShrinks ==
    ASSUME NEW n \in Nat, NEW b \in [0 .. n - 1 -> Bucket], NEW p \in UsedIn(b),
           NEW e \in Bucket, e.state # "tomb"
    PROVE  LET new == [b EXCEPT ![p] = e]
           IN  /\ new \in [0 .. n - 1 -> Bucket]
               /\ Cardinality(UsedIn(new)) <= Cardinality(UsedIn(b))
               /\ NoTomb(b) => NoTomb(new)
<1> DEFINE new == [b EXCEPT ![p] = e]
<1>1. UsedIn(new) \in SUBSET UsedIn(b)
  BY DEF UsedIn
<1>2. Cardinality(UsedIn(new)) <= Cardinality(UsedIn(b))
  BY <1>1, UsedFinite, FS_Subset
<1>3. NoTomb(b) => NoTomb(new)
  BY DEF NoTomb
<1> QED
  BY <1>2, <1>3 DEF UsedIn

(* An entry is a bucket, and a used one.                                   *)
LEMMA EntryIsBucket ==
    ASSUME NEW k \in Key, NEW v \in Val
    PROVE  Entry(k, v) \in Bucket /\ Entry(k, v).state = "used"
BY DEF Entry, Bucket

(* The insertion proper, on buckets of which at most three quarters count. *)
LEMMA PutLoad ==
    ASSUME NEW op, NEW n \in Nat, n > 4, NEW b \in [0 .. n - 1 -> Bucket],
           NEW c \in Nat, NEW k \in Key, NEW v \in Val,
           NoTomb(b), Cardinality(UsedIn(b)) <= c, 4 * c <= 3 * n,
           Put(op, b, n, c, k, v)
    PROVE  /\ capacity' = n
           /\ buckets' \in [0 .. n - 1 -> Bucket]
           /\ count' \in Nat
           /\ pc' = "ready"
           /\ NoTomb(buckets')
           /\ Fits(buckets', n, count')
<1> DEFINE stops == InsertStops(b, n, k)
           p     == Pos(k, Nearest(stops), n)
<1>1. Cardinality(UsedIn(b)) \in Nat
  BY UsedFinite
<1>2. stops # {}
  <2>1. FreeStops(b, n, k) # {}
    BY <1>1, FreeStop
  <2> QED
    BY <2>1 DEF FreeStops, InsertStops
<1>3. p \in 0 .. n - 1
  <2>1. stops \in SUBSET (0 .. n - 1)
    BY DEF InsertStops
  <2> HIDE DEF stops
  <2> QED
    BY <1>2, <2>1, StopInside
<1>4. capacity' = n /\ pc' = "ready"
  BY <1>2 DEF Put
<1>5. CASE b[p].state = "used"
  <2>1. buckets' = b /\ count' = c
    BY <1>2, <1>5 DEF Put
  <2> QED
    BY <1>4, <2>1 DEF Fits
<1>6. CASE b[p].state # "used"
  <2>1. buckets' = [b EXCEPT ![p] = Entry(k, v)]
    BY <1>2, <1>6 DEF Put
  <2>2. TombStops(b, n, k) = {}
    BY NoTombStop
  <2>3. count' = c + 1
    BY <1>2, <1>6, <2>2 DEF Put
  <2>4. /\ buckets' \in [0 .. n - 1 -> Bucket]
        /\ Cardinality(UsedIn(buckets')) <= Cardinality(UsedIn(b)) + 1
        /\ NoTomb(buckets')
    BY <1>3, <2>1, EntryIsBucket, UsedGrows
  <2>5. Cardinality(UsedIn(buckets')) \in Nat
    BY <2>4, UsedFinite
  <2> QED
    BY <1>1, <1>4, <2>3, <2>4, <2>5 DEF Fits
<1> QED
  BY <1>5, <1>6

(* A search returns, and when it finds the key it is in a used bucket.     *)
LEMMA SearchLoad ==
    ASSUME NEW k \in Key, TypeOK, Load
    PROVE  SearchReturns(k) /\ Landing(k) \in DOMAIN buckets
<1> DEFINE stops == SearchStops(buckets, capacity, k)
<1>1. /\ capacity \in Nat /\ capacity > 4
      /\ buckets \in [0 .. capacity - 1 -> Bucket]
      /\ NoTomb(buckets)
  BY DEF TypeOK, Load
<1>2. Cardinality(UsedIn(buckets)) < capacity
  <2>1. Cardinality(UsedIn(buckets)) \in Nat
    BY <1>1, UsedFinite
  <2> QED
    BY <1>1, <2>1 DEF Load, Fits, TypeOK
<1>3. stops # {} /\ stops \in SUBSET (0 .. capacity - 1)
  <2>1. FreeStops(buckets, capacity, k) # {}
    BY <1>1, <1>2, FreeStop
  <2> QED
    BY <2>1 DEF FreeStops, InsertStops, TombStops, SearchStops
<1>4. Landing(k) \in 0 .. capacity - 1
  <2>1. Pos(k, Nearest(stops), capacity) \in 0 .. capacity - 1
    <3> HIDE DEF stops
    <3> QED
      BY <1>1, <1>3, StopInside
  <2> QED
    BY <2>1 DEF Landing
<1> QED
  BY <1>1, <1>3, <1>4 DEF SearchReturns, NoTomb

(* The invariant holds of the table symtable_init makes.                   *)
LEMMA LoadInit == Init => LoadInv
<1> SUFFICES ASSUME Init PROVE LoadInv
  OBVIOUS
<1>1. InitialCapacity \in Nat /\ InitialCapacity > 4
  BY CapacityAssumption
<1>2. buckets \in [0 .. capacity - 1 -> Bucket] /\ NoTomb(buckets)
  BY DEF Init, EmptyBuckets, Bucket, Free, NoTomb
<1>3. UsedIn(buckets) = {}
  BY DEF Init, EmptyBuckets, Free, UsedIn
<1>4. Fits(buckets, capacity, count)
  BY <1>1, <1>3, FS_EmptySet DEF Init, Fits
<1> QED
  BY <1>1, <1>2, <1>4 DEF Init, LoadInv, TypeOK, OperationsReturn, Load

(* Beginning an insertion: at once, or by growing the table.               *)
LEMMA StartInsertLoad ==
    ASSUME NEW op \in {"insert", "update"}, NEW k \in Key, NEW v \in Val,
           LoadInv, StartInsert(op, k, v)
    PROVE  LoadInv'
<1>1. /\ capacity \in Nat /\ capacity > 4 /\ count \in Nat
      /\ buckets \in [0 .. capacity - 1 -> Bucket]
      /\ NoTomb(buckets) /\ Fits(buckets, capacity, count)
  BY DEF LoadInv, TypeOK, Load
<1>2. CASE OverLoaded
  <2>1. StartGrowing(op, k, v)
    BY <1>2 DEF StartInsert
  <2>2. /\ UNCHANGED <<buckets, capacity, count>> /\ pc' = "growing"
        /\ grow'.buckets = EmptyBuckets(2 * capacity)
        /\ grow'.count = 0 /\ grow'.from = 0
    BY <2>1 DEF StartGrowing
  <2>3. EmptyBuckets(2 * capacity) \in [0 .. 2 * capacity - 1 -> Bucket]
    BY <1>1 DEF EmptyBuckets, Bucket, Free
  <2>4. grow' \in Growing'
    BY <1>1, <2>1, <2>2, <2>3 DEF StartGrowing, Growing
  <2>5. NoTomb(grow'.buckets) /\ UsedIn(grow'.buckets) = {}
    BY <2>2 DEF EmptyBuckets, Free, NoTomb, UsedIn
  <2>6. Cardinality(UsedIn(grow'.buckets)) = 0
    BY <2>5, FS_EmptySet
  <2> QED
    BY <1>1, <2>2, <2>4, <2>5, <2>6 DEF LoadInv, TypeOK, OperationsReturn, Load
<1>3. CASE ~OverLoaded
  <2>1. Put(op, buckets, capacity, count, k, v)
    BY <1>3 DEF StartInsert
  <2>2. 4 * count <= 3 * capacity
    BY <1>1, <1>3 DEF OverLoaded
  <2>3. /\ capacity' = capacity
        /\ buckets' \in [0 .. capacity - 1 -> Bucket]
        /\ count' \in Nat /\ pc' = "ready"
        /\ NoTomb(buckets') /\ Fits(buckets', capacity, count')
    BY <1>1, <2>1, <2>2, PutLoad DEF Fits
  <2> QED
    BY <1>1, <2>3 DEF LoadInv, TypeOK, OperationsReturn, Load
<1> QED
  BY <1>2, <1>3

(* A turn of the loop of symtable_resize: the entry moved finds a free     *)
(* bucket because fewer buckets are filled than have been visited.         *)
LEMMA RehashLoad == LoadInv /\ Rehash => LoadInv'
<1> SUFFICES ASSUME LoadInv, Rehash PROVE LoadInv'
  OBVIOUS
<1> DEFINE n     == 2 * capacity
           old   == buckets[grow.from]
           stops == FreeStops(grow.buckets, n, old.key)
           p     == Pos(old.key, Nearest(stops), n)
<1>1. /\ capacity \in Nat /\ capacity > 4 /\ pc = "growing"
      /\ buckets \in [0 .. capacity - 1 -> Bucket]
      /\ grow \in Growing /\ grow.from \in 0 .. capacity - 1 /\ grow.count \in Nat
      /\ grow.buckets \in [0 .. n - 1 -> Bucket]
      /\ NoTomb(grow.buckets)
      /\ Cardinality(UsedIn(grow.buckets)) <= grow.count
      /\ grow.count <= grow.from
  BY DEF LoadInv, TypeOK, Load, Rehash, Growing
<1>2. n \in Nat /\ n > 0
  BY <1>1
<1>3. CASE old.state # "used"
  <2>1. /\ UNCHANGED <<buckets, capacity, count, pc>>
        /\ grow' = [grow EXCEPT !.from = @ + 1]
    BY <1>3 DEF Rehash, table
  <2>2. grow' \in Growing'
    <3>1. Growing' = Growing
      BY <2>1 DEF Growing
    <3>2. grow.from + 1 \in 0 .. capacity
      BY <1>1
    <3>3. [grow EXCEPT !.from = @ + 1] \in Growing
      BY <1>1, <3>2 DEF Growing
    <3> QED
      BY <2>1, <3>1, <3>3
  <2>3. grow'.from = grow.from + 1 /\ grow'.count = grow.count
        /\ grow'.buckets = grow.buckets
    BY <1>1, <2>1 DEF Growing
  <2> QED
    BY <1>1, <2>1, <2>2, <2>3 DEF LoadInv, TypeOK, OperationsReturn, Load
<1>4. CASE old.state = "used"
  <2>1. old \in Bucket /\ old.key \in Key
    BY <1>1, <1>4 DEF Bucket, Free
  <2>2. Cardinality(UsedIn(grow.buckets)) \in Nat
    BY <1>1, <1>2, UsedFinite
  <2>3. stops # {}
    <3>1. Cardinality(UsedIn(grow.buckets)) < n
      BY <1>1, <2>2
    <3> QED
      BY <1>1, <1>2, <2>1, <3>1, FreeStop
  <2>4. p \in 0 .. n - 1
    <3>1. stops \in SUBSET (0 .. n - 1)
      BY DEF FreeStops
    <3> HIDE DEF stops
    <3> QED
      BY <1>2, <2>1, <2>3, <3>1, StopInside
  <2>5. /\ UNCHANGED <<buckets, capacity, count, pc>>
        /\ grow' = [grow EXCEPT !.from = @ + 1, !.count = @ + 1,
                                !.buckets = [@ EXCEPT ![p] = old]]
    BY <1>4, <2>3 DEF Rehash, table
  <2>6. grow'.from = grow.from + 1 /\ grow'.count = grow.count + 1
        /\ grow'.buckets = [grow.buckets EXCEPT ![p] = old]
    BY <1>1, <2>5 DEF Growing
  <2>7. /\ grow'.buckets \in [0 .. n - 1 -> Bucket]
        /\ Cardinality(UsedIn(grow'.buckets)) <= Cardinality(UsedIn(grow.buckets)) + 1
        /\ NoTomb(grow'.buckets)
    <3> HIDE DEF p, old, n
    <3> QED
      BY <1>1, <1>2, <1>4, <2>1, <2>4, <2>6, UsedGrows
  <2>8. grow' \in Growing'
    <3> DEFINE filled == [grow.buckets EXCEPT ![p] = old]
    <3>1. filled \in [0 .. 2 * capacity - 1 -> Bucket]
      BY <2>6, <2>7
    <3>2. grow' = [grow EXCEPT !.from = @ + 1, !.count = @ + 1, !.buckets = filled]
      BY <1>1, <2>5 DEF Growing
    <3>3. capacity' = capacity
      BY <2>5
    <3>4. grow.from + 1 \in 0 .. capacity /\ grow.count + 1 \in Nat
      BY <1>1
    <3>5. grow \in Growing
      BY <1>1
    <3> HIDE DEF filled, p, stops, old, n
    <3>6. grow' \in Growing
      BY <3>1, <3>2, <3>4, <3>5 DEF Growing
    <3> QED
      BY <3>3, <3>6 DEF Growing
  <2>9. Cardinality(UsedIn(grow'.buckets)) \in Nat
    BY <1>2, <2>7, UsedFinite
  <2>10. Cardinality(UsedIn(grow'.buckets)) <= grow'.count
    BY <1>1, <2>2, <2>6, <2>7, <2>9
  <2>11. grow'.count <= grow'.from
    BY <1>1, <2>6
  <2> QED
    BY <1>1, <2>5, <2>7, <2>8, <2>10, <2>11
       DEF LoadInv, TypeOK, OperationsReturn, Load
<1> QED
  BY <1>3, <1>4

(* The new table is at most half full when the insertion resumes.          *)
LEMMA FinishLoad == LoadInv /\ FinishInsert => LoadInv'
<1> SUFFICES ASSUME LoadInv, FinishInsert PROVE LoadInv'
  OBVIOUS
<1> DEFINE n == 2 * capacity
<1>1. /\ capacity \in Nat /\ capacity > 4
      /\ grow.key \in Key /\ grow.val \in Val /\ grow.count \in Nat
      /\ grow.buckets \in [0 .. n - 1 -> Bucket] /\ NoTomb(grow.buckets)
      /\ Cardinality(UsedIn(grow.buckets)) <= grow.count
      /\ grow.count <= capacity
  BY DEF LoadInv, TypeOK, Load, FinishInsert, Growing
<1>2. n \in Nat /\ n > 4 /\ 4 * grow.count <= 3 * n
  BY <1>1
<1>3. Put(grow.op, grow.buckets, n, grow.count, grow.key, grow.val)
  BY DEF FinishInsert
<1>4. /\ capacity' = n /\ count' \in Nat /\ pc' = "ready"
      /\ buckets' \in [0 .. n - 1 -> Bucket]
      /\ NoTomb(buckets') /\ Fits(buckets', n, count')
  <2> HIDE DEF n
  <2> QED
    BY <1>1, <1>2, <1>3, PutLoad
<1> QED
  BY <1>2, <1>4 DEF LoadInv, TypeOK, OperationsReturn, Load

(* The operations that look the key up first.                              *)
LEMMA UpdateLoad ==
    ASSUME NEW k \in Key, NEW v \in Val, LoadInv, Update(k, v)
    PROVE  LoadInv'
<1>1. SearchReturns(k) /\ Landing(k) \in DOMAIN buckets
  BY SearchLoad DEF LoadInv
<1>2. CASE ~Found(k)
  <2>1. StartInsert("update", k, v)
    BY <1>1, <1>2 DEF Update
  <2> QED
    BY <2>1, StartInsertLoad
<1>3. CASE Found(k)
  <2>1. /\ capacity \in Nat /\ buckets \in [0 .. capacity - 1 -> Bucket]
        /\ pc = "ready" /\ count \in Nat
    BY DEF LoadInv, TypeOK, Update
  <2>2. /\ buckets' = [buckets EXCEPT ![Landing(k)] = Entry(k, v)]
        /\ UNCHANGED <<capacity, count, pc, grow>>
    BY <1>1, <1>3 DEF Update
  <2>3. Landing(k) \in UsedIn(buckets)
    BY <1>1, <1>3 DEF Found, Holds, UsedIn
  <2>4. /\ buckets' \in [0 .. capacity - 1 -> Bucket]
        /\ Cardinality(UsedIn(buckets')) <= Cardinality(UsedIn(buckets))
        /\ NoTomb(buckets) => NoTomb(buckets')
    BY <2>1, <2>2, <2>3, EntryIsBucket, UsedShrinks
  <2>5. Cardinality(UsedIn(buckets')) \in Nat /\ Cardinality(UsedIn(buckets)) \in Nat
    BY <2>1, <2>4, UsedFinite
  <2> QED
    BY <2>1, <2>2, <2>4, <2>5 DEF LoadInv, TypeOK, OperationsReturn, Load, Fits
<1> QED
  BY <1>2, <1>3

(* symtable_remove keeps the invariant: count may only be too high.        *)
LEMMA RemoveLoad ==
    ASSUME NEW k \in Key, LoadInv, Remove(k)
    PROVE  LoadInv'
<1>1. SearchReturns(k) /\ Landing(k) \in DOMAIN buckets
  BY SearchLoad DEF LoadInv
<1>2. /\ capacity \in Nat /\ buckets \in [0 .. capacity - 1 -> Bucket]
      /\ pc = "ready" /\ count \in Nat
      /\ UNCHANGED <<capacity, count, pc, grow>>
  BY <1>1 DEF LoadInv, TypeOK, Remove
<1>3. CASE ~Found(k)
  BY <1>1, <1>2, <1>3 DEF Remove, LoadInv, TypeOK, OperationsReturn, Load
<1>4. CASE Found(k)
  <2>1. buckets' = [buckets EXCEPT ![Landing(k)] = Free]
    BY <1>1, <1>4 DEF Remove, Removed
  <2>2. Landing(k) \in UsedIn(buckets)
    BY <1>1, <1>4 DEF Found, Holds, UsedIn
  <2>3. Free \in Bucket /\ Free.state # "tomb"
    BY DEF Free, Bucket
  <2>4. /\ buckets' \in [0 .. capacity - 1 -> Bucket]
        /\ Cardinality(UsedIn(buckets')) <= Cardinality(UsedIn(buckets))
        /\ NoTomb(buckets) => NoTomb(buckets')
    BY <1>2, <2>1, <2>2, <2>3, UsedShrinks
  <2>5. Cardinality(UsedIn(buckets')) \in Nat /\ Cardinality(UsedIn(buckets)) \in Nat
    BY <1>2, <2>4, UsedFinite
  <2> QED
    BY <1>2, <2>4, <2>5 DEF LoadInv, TypeOK, OperationsReturn, Load, Fits
<1> QED
  BY <1>3, <1>4

(* symtable_get keeps the invariant.                                       *)
LEMMA GetLoad ==
    ASSUME NEW k \in Key, LoadInv, Get(k)
    PROVE  LoadInv'
<1>1. SearchReturns(k)
  BY SearchLoad DEF LoadInv
<1>2. pc = "ready" /\ UNCHANGED <<buckets, capacity, count, pc, grow>>
  BY <1>1 DEF Get, table
<1> QED
  BY <1>2 DEF LoadInv, TypeOK, OperationsReturn, Load

(* Every step, removals included, keeps the load below the capacity.       *)
LEMMA LoadStep == LoadInv /\ [Next]_vars => LoadInv'
<1> SUFFICES ASSUME LoadInv, [Next]_vars PROVE LoadInv'
  OBVIOUS
<1>1. CASE Rehash
  BY <1>1, RehashLoad
<1>2. CASE FinishInsert
  BY <1>2, FinishLoad
<1>3. ASSUME NEW k \in Key, NEW v \in Val, Insert(k, v) PROVE LoadInv'
  BY <1>3, StartInsertLoad DEF Insert
<1>4. ASSUME NEW k \in Key, NEW v \in Val, Update(k, v) PROVE LoadInv'
  BY <1>4, UpdateLoad
<1>5. ASSUME NEW k \in Key, Remove(k) PROVE LoadInv'
  BY <1>5, RemoveLoad
<1>6. ASSUME NEW k \in Key, Get(k) PROVE LoadInv'
  BY <1>6, GetLoad
<1>7. CASE EntryCount
  BY <1>7 DEF EntryCount, table, LoadInv, TypeOK, OperationsReturn, Load, Growing
<1>8. CASE UNCHANGED vars
  BY <1>8 DEF vars, LoadInv, TypeOK, OperationsReturn, Load, Growing
<1> QED
  BY <1>1, <1>2, <1>3, <1>4, <1>5, <1>6, <1>7, <1>8 DEF Next, NextNoRemove

(* Every reachable state satisfies the invariant.                          *)
THEOREM LoadInvariant == Spec => []LoadInv
  BY LoadInit, LoadStep, PTL DEF Spec

(* The bucket array always has its capacity of buckets, and each of them   *)
(* is empty, a tombstone or an entry.                                      *)
THEOREM BucketsAreTyped == Spec => []TypeOK
<1>1. LoadInv => TypeOK
  BY DEF LoadInv
<1> QED
  BY <1>1, LoadInvariant, PTL

(* Every operation of the table terminates, for every sequence of          *)
(* insertions, updates, removals and look-ups: each probing loop of        *)
(* symtable.c meets a bucket to stop at, although `count` is only an upper *)
(* bound of the load and nothing in the loops counts the buckets visited.  *)
THEOREM OperationsTerminate == Spec => []OperationsReturn
<1>1. LoadInv => OperationsReturn
  BY DEF LoadInv
<1> QED
  BY <1>1, LoadInvariant, PTL

(* `count`, which the load factor is applied to, never falls below the     *)
(* number of entries.                                                      *)
THEOREM CountIsUpperBound == Spec => []CountCoversEntries
<1>1. LoadInv => CountCoversEntries
  BY DEF LoadInv, Load, Fits, CountCoversEntries
<1> QED
  BY <1>1, LoadInvariant, PTL

-----------------------------------------------------------------------------
(* Where nothing is removed: the map of SymMap.                            *)


(* Of the used buckets of a chained array at most one has a given key, and *)
(* it is where the probes for the key stop.                                *)
LEMMA ChainedStop ==
    ASSUME NEW n \in Nat, n > 0, NEW b \in [0 .. n - 1 -> Bucket], Chained(b, n),
           NEW p \in UsedIn(b)
    PROVE  /\ b[p].key \in Key
           /\ InsertStops(b, n, b[p].key) # {}
           /\ Pos(b[p].key, Nearest(InsertStops(b, n, b[p].key)), n) = p
<1> DEFINE k     == b[p].key
           stops == InsertStops(b, n, k)
<1>1. k \in Key
  BY DEF UsedIn, Bucket, Free
<1>2. PICK i \in 0 .. n - 1 :
          /\ Pos(k, i, n) = p
          /\ \A j \in 0 .. i - 1 : b[Pos(k, j, n)].state = "used" /\ b[Pos(k, j, n)].key # k
  BY Zenon DEF Chained
<1>3. i \in stops
  BY <1>2 DEF InsertStops, Holds, UsedIn
<1>4. \A j \in stops : ~ (j < i)
  BY <1>2 DEF InsertStops, Holds
<1>5. stops \in SUBSET (0 .. n - 1)
  BY DEF InsertStops
<1>6. Nearest(stops) = i
  <2> HIDE DEF stops
  <2>1. Nearest(stops) \in stops /\ \A j \in stops : Nearest(stops) <= j
    BY <1>1, <1>3, <1>5, StopInside
  <2>2. Nearest(stops) \in 0 .. n - 1
    BY <1>5, <2>1
  <2>3. Nearest(stops) <= i /\ ~ (Nearest(stops) < i)
    BY <1>3, <1>4, <2>1
  <2> QED
    BY <2>2, <2>3
<1> QED
  BY <1>1, <1>2, <1>3, <1>6

LEMMA ChainedUnique ==
    ASSUME NEW n \in Nat, n > 0, NEW b \in [0 .. n - 1 -> Bucket], Chained(b, n),
           NEW p \in UsedIn(b), NEW q \in UsedIn(b), b[p].key = b[q].key
    PROVE  p = q
BY ChainedStop

(* The value the map has for the key of an entry, and for no other.        *)
LEMMA MapOfEntry ==
    ASSUME NEW n \in Nat, n > 0, NEW b \in [0 .. n - 1 -> Bucket], Chained(b, n),
           NEW p \in UsedIn(b)
    PROVE  MapOf(b)[b[p].key] = b[p].val /\ b[p].val \in Val
<1> DEFINE k == b[p].key
           q == CHOOSE q \in UsedIn(b) : b[q].key = k
<1>1. k \in Key /\ b[p].val \in Val
  BY DEF UsedIn, Bucket, Free
<1>2. q \in UsedIn(b) /\ b[q].key = k
  OBVIOUS
<1>3. q = p
  <2> HIDE DEF q
  <2> QED
    BY <1>2, ChainedUnique
<1>4. MapOf(b)[k] = b[q].val
  BY <1>1 DEF MapOf
<1> QED
  BY <1>1, <1>3, <1>4

LEMMA MapOfAbsent ==
    ASSUME NEW b, NEW k \in Key, \A p \in UsedIn(b) : b[p].key # k
    PROVE  MapOf(b)[k] = NoVal
BY DEF MapOf

(* Arrays with the same entries are the same map.                          *)
LEMMA SameEntries ==
    ASSUME NEW n \in Nat, n > 0, NEW b \in [0 .. n - 1 -> Bucket], Chained(b, n),
           NEW m \in Nat, m > 0, NEW d \in [0 .. m - 1 -> Bucket], Chained(d, m),
           \A p \in UsedIn(b) : \E q \in UsedIn(d) : d[q] = b[p],
           \A q \in UsedIn(d) : \E p \in UsedIn(b) : b[p] = d[q]
    PROVE  MapOf(b) = MapOf(d)
<1>1. ASSUME NEW k \in Key PROVE MapOf(b)[k] = MapOf(d)[k]
  <2>1. CASE \E p \in UsedIn(b) : b[p].key = k
    <3>1. PICK p \in UsedIn(b) : b[p].key = k
      BY <2>1
    <3>2. PICK q \in UsedIn(d) : d[q] = b[p]
      OBVIOUS
    <3>3. MapOf(b)[k] = b[p].val
      BY <3>1, MapOfEntry
    <3>4. MapOf(d)[k] = d[q].val
      BY <3>1, <3>2, MapOfEntry
    <3> QED
      BY <3>2, <3>3, <3>4
  <2>2. CASE \A p \in UsedIn(b) : b[p].key # k
    <3>1. \A q \in UsedIn(d) : d[q].key # k
      BY <2>2
    <3> QED
      BY <2>2, <3>1, MapOfAbsent
  <2> QED
    BY <2>1, <2>2
<1> QED
  BY <1>1 DEF MapOf

(* A probe for a key without an entry stops at a free bucket only.         *)
LEMMA AbsentStop ==
    ASSUME NEW n \in Nat, n > 0, NEW b \in [0 .. n - 1 -> Bucket], NEW k \in Key,
           \A p \in UsedIn(b) : b[p].key # k
    PROVE  InsertStops(b, n, k) = FreeStops(b, n, k)
<1>1. \A i \in 0 .. n - 1 : ~ Holds(b, Pos(k, i, n), k)
  BY PosInside DEF Holds, UsedIn
<1> QED
  BY <1>1 DEF InsertStops, FreeStops

(* A new entry in the first free bucket of its probe.                      *)
LEMMA Placed ==
    ASSUME NEW n \in Nat, n > 0, NEW b \in [0 .. n - 1 -> Bucket], NoTomb(b),
           Chained(b, n), NEW k \in Key, FreeStops(b, n, k) # {},
           \A p \in UsedIn(b) : b[p].key # k,
           NEW e \in Bucket, e.state = "used", e.key = k,
           NEW p, p = Pos(k, Nearest(FreeStops(b, n, k)), n),
           NEW new \in [0 .. n - 1 -> Bucket], new[p] = e,
           \A q \in 0 .. n - 1 : q # p => new[q] = b[q]
    PROVE  /\ p \in 0 .. n - 1
           /\ p \notin UsedIn(b)
           /\ UsedIn(new) = UsedIn(b) \cup {p}
           /\ \A q \in UsedIn(b) : new[q] = b[q]
           /\ Chained(new, n)
<1> DEFINE stops == FreeStops(b, n, k)
           i     == Nearest(stops)
<1>1. /\ i \in stops /\ (\A j \in stops : i <= j)
      /\ p = Pos(k, i, n) /\ p \in 0 .. n - 1
  <2>1. stops \in SUBSET (0 .. n - 1) /\ stops # {} /\ p = Pos(k, i, n)
    BY DEF FreeStops
  <2> HIDE DEF stops
  <2>2. i \in stops /\ \A j \in stops : i <= j
    BY <2>1, StopInside
  <2>3. i \in 0 .. n - 1
    BY <2>1, <2>2
  <2> HIDE DEF i
  <2> QED
    BY <2>1, <2>2, <2>3, PosInside
<1>2. i \in 0 .. n - 1 /\ b[p].state = "free"
  BY <1>1 DEF FreeStops
<1> HIDE DEF i
<1>3. p \notin UsedIn(b)
  BY <1>2 DEF UsedIn
<1>4. UsedIn(new) = UsedIn(b) \cup {p}
  BY <1>1 DEF UsedIn
<1>5. new[p] = e /\ \A q \in 0 .. n - 1 : q # p => new[q] = b[q]
  BY <1>1
<1>6. \A q \in UsedIn(b) : q \in 0 .. n - 1 /\ new[q] = b[q]
  BY <1>3, <1>5 DEF UsedIn
<1>7. ASSUME NEW j \in 0 .. i - 1
      PROVE  new[Pos(k, j, n)].state = "used" /\ new[Pos(k, j, n)].key # k
  <2>1. j \in 0 .. n - 1 /\ j \notin stops
    BY <1>1, <1>2
  <2>2. Pos(k, j, n) \in 0 .. n - 1
    BY <2>1, PosInside
  <2>3. b[Pos(k, j, n)].state = "used"
    BY <2>1, <2>2 DEF FreeStops, NoTomb, Bucket, Free
  <2>4. Pos(k, j, n) \in UsedIn(b)
    BY <2>2, <2>3 DEF UsedIn
  <2> QED
    BY <1>6, <2>3, <2>4
<1>8. ASSUME NEW q \in UsedIn(b)
      PROVE  \E h \in 0 .. n - 1 :
                /\ Pos(new[q].key, h, n) = q
                /\ \A j \in 0 .. h - 1 : /\ new[Pos(new[q].key, j, n)].state = "used"
                                         /\ new[Pos(new[q].key, j, n)].key # new[q].key
  <2>1. new[q] = b[q] /\ b[q].key \in Key
    BY <1>6, ChainedStop
  <2>2. PICK h \in 0 .. n - 1 :
            /\ Pos(b[q].key, h, n) = q
            /\ \A j \in 0 .. h - 1 : /\ b[Pos(b[q].key, j, n)].state = "used"
                                     /\ b[Pos(b[q].key, j, n)].key # b[q].key
    BY Zenon DEF Chained
  <2>3. ASSUME NEW j \in 0 .. h - 1
        PROVE  /\ new[Pos(b[q].key, j, n)].state = "used"
               /\ new[Pos(b[q].key, j, n)].key # b[q].key
    <3>1. Pos(b[q].key, j, n) \in 0 .. n - 1
      <4>1. j \in 0 .. n - 1
        OBVIOUS
      <4> QED
        BY <2>1, <4>1, PosInside
    <3>2. Pos(b[q].key, j, n) \in UsedIn(b)
      BY <2>2, <3>1 DEF UsedIn
    <3> QED
      BY <1>6, <2>2, <3>2
  <2> QED
    BY <2>1, <2>2, <2>3
<1>9. Chained(new, n)
  <2> SUFFICES ASSUME NEW q \in UsedIn(new)
               PROVE  \E h \in 0 .. n - 1 :
                         /\ Pos(new[q].key, h, n) = q
                         /\ \A j \in 0 .. h - 1 :
                               /\ new[Pos(new[q].key, j, n)].state = "used"
                               /\ new[Pos(new[q].key, j, n)].key # new[q].key
    BY DEF Chained
  <2>1. CASE q = p
    BY <1>1, <1>2, <1>5, <1>7, <2>1
  <2>2. CASE q \in UsedIn(b)
    BY <1>8, <2>2
  <2> QED
    BY <1>4, <2>1, <2>2
<1> QED
  BY <1>1, <1>3, <1>4, <1>5, <1>6, <1>9

(* Another value for an entry.                                             *)
LEMMA Overwritten ==
    ASSUME NEW n \in Nat, n > 0, NEW b \in [0 .. n - 1 -> Bucket], Chained(b, n),
           NEW p \in UsedIn(b), NEW e \in Bucket, e.state = "used", e.key = b[p].key,
           NEW new \in [0 .. n - 1 -> Bucket], new[p] = e,
           \A q \in 0 .. n - 1 : q # p => new[q] = b[q]
    PROVE  /\ UsedIn(new) = UsedIn(b)
           /\ \A q \in UsedIn(b) : q # p => new[q] = b[q]
           /\ Chained(new, n)
<1>1. p \in 0 .. n - 1 /\ b[p].state = "used"
  BY DEF UsedIn
<1>2. /\ UsedIn(new) = UsedIn(b) /\ new[p] = e
      /\ \A q \in 0 .. n - 1 : q # p => new[q] = b[q]
      /\ \A q \in 0 .. n - 1 : new[q].state = b[q].state
      /\ \A q \in 0 .. n - 1 : new[q].key = b[q].key
  BY <1>1 DEF UsedIn
<1>3. Chained(new, n)
  <2> SUFFICES ASSUME NEW q \in UsedIn(b)
               PROVE  \E h \in 0 .. n - 1 :
                         /\ Pos(new[q].key, h, n) = q
                         /\ \A j \in 0 .. h - 1 :
                               /\ new[Pos(new[q].key, j, n)].state = "used"
                               /\ new[Pos(new[q].key, j, n)].key # new[q].key
    BY <1>2 DEF Chained
  <2>1. new[q].key = b[q].key /\ b[q].key \in Key
    BY <1>2, ChainedStop DEF UsedIn
  <2>2. PICK h \in 0 .. n - 1 :
            /\ Pos(b[q].key, h, n) = q
            /\ \A j \in 0 .. h - 1 : /\ b[Pos(b[q].key, j, n)].state = "used"
                                     /\ b[Pos(b[q].key, j, n)].key # b[q].key
    BY Zenon DEF Chained
  <2>3. ASSUME NEW j \in 0 .. h - 1 PROVE Pos(b[q].key, j, n) \in 0 .. n - 1
    <3>1. j \in 0 .. n - 1
      OBVIOUS
    <3> QED
      BY <2>1, <3>1, PosInside
  <2> QED
    BY <1>2, <2>1, <2>2, <2>3
<1> QED
  BY <1>2, <1>3 DEF UsedIn

-----------------------------------------------------------------------------
(* The steps.                                                              *)

(* A search finds the entry of its key if there is one.                    *)
LEMMA SearchFinds ==
    ASSUME NEW k \in Key, MapInv
    PROVE  /\ SearchReturns(k)
           /\ Found(k) => Landing(k) \in UsedIn(buckets) /\ buckets[Landing(k)].key = k
           /\ ~ Found(k) => \A p \in UsedIn(buckets) : buckets[p].key # k
<1>1. /\ capacity \in Nat /\ capacity > 0
      /\ buckets \in [0 .. capacity - 1 -> Bucket]
      /\ NoTomb(buckets) /\ Chained(buckets, capacity)
  BY DEF MapInv, LoadInv, TypeOK, Load
<1>2. SearchReturns(k) /\ Landing(k) \in DOMAIN buckets
  BY SearchLoad DEF MapInv, LoadInv
<1>3. SearchStops(buckets, capacity, k) = InsertStops(buckets, capacity, k)
  <2>1. TombStops(buckets, capacity, k) = {}
    BY <1>1, NoTombStop
  <2> QED
    BY <2>1 DEF SearchStops
<1>4. Found(k) => Landing(k) \in UsedIn(buckets) /\ buckets[Landing(k)].key = k
  BY <1>2 DEF Found, Holds, UsedIn
<1>5. ASSUME NEW p \in UsedIn(buckets), buckets[p].key = k PROVE Found(k)
  <2>1. Pos(k, Nearest(InsertStops(buckets, capacity, k)), capacity) = p
    BY <1>1, <1>5, ChainedStop
  <2>2. Landing(k) = p
    BY <1>3, <2>1 DEF Landing
  <2> QED
    BY <1>5, <2>2 DEF Found, Holds, UsedIn
<1> QED
  BY <1>2, <1>4, <1>5

(* The insertion proper, on buckets with a free one: an entry of the key   *)
(* stays as it is and its value is returned, else one is added.            *)
LEMMA PutMap ==
    ASSUME NEW op, NEW n \in Nat, n > 0, NEW b \in [0 .. n - 1 -> Bucket], NEW c,
           NEW k \in Key, NEW v \in Val,
           NoTomb(b), Chained(b, n), Cardinality(UsedIn(b)) < n,
           Put(op, b, n, c, k, v)
    PROVE  /\ capacity' = n /\ pc' = "ready"
           /\ Chained(buckets', n)
           /\ last' = Result(op, k, MapOf(b)[k])
           /\ \/ /\ \E p \in UsedIn(b) : b[p].key = k
                 /\ MapOf(b)[k] # NoVal
                 /\ MapOf(buckets') = MapOf(b)
              \/ /\ MapOf(b)[k] = NoVal
                 /\ MapOf(buckets') = [MapOf(b) EXCEPT ![k] = v]
<1> DEFINE stops == InsertStops(b, n, k)
           p     == Pos(k, Nearest(stops), n)
<1>1. FreeStops(b, n, k) # {} /\ stops # {}
  <2>1. FreeStops(b, n, k) # {}
    BY FreeStop
  <2> QED
    BY <2>1 DEF FreeStops, InsertStops
<1>2. capacity' = n /\ pc' = "ready"
  BY <1>1 DEF Put
<1>3. CASE \E q \in UsedIn(b) : b[q].key = k
  <2>1. PICK q \in UsedIn(b) : b[q].key = k
    BY <1>3
  <2>2. p = q
    BY <2>1, ChainedStop
  <2>3. b[p].state = "used"
    BY <2>2 DEF UsedIn
  <2>4. buckets' = b /\ last' = Result(op, k, b[p].val)
    BY <1>1, <2>3 DEF Put
  <2>5. MapOf(b)[k] = b[p].val /\ b[p].val \in Val
    BY <2>1, <2>2, MapOfEntry
  <2> QED
    BY <1>2, <1>3, <2>4, <2>5, NullAssumption
<1>4. CASE \A q \in UsedIn(b) : b[q].key # k
  <2>1. stops = FreeStops(b, n, k)
    BY <1>4, AbsentStop
  <2>2. PICK e \in Bucket : e = Entry(k, v) /\ e.state = "used" /\ e.key = k /\ e.val = v
    BY EntryIsBucket DEF Entry
  <2>3. PICK new : new = [b EXCEPT ![p] = e]
    OBVIOUS
  <2>4. /\ p \in 0 .. n - 1 /\ p \notin UsedIn(b)
        /\ UsedIn(new) = UsedIn(b) \cup {p}
        /\ new[p] = e /\ (\A q \in UsedIn(b) : new[q] = b[q])
        /\ Chained(new, n)
    <3>1. p = Pos(k, Nearest(FreeStops(b, n, k)), n)
      BY <2>1
    <3>2. p \in 0 .. n - 1
      BY <1>1, <2>1, StopInside DEF FreeStops
    <3>3. /\ new \in [0 .. n - 1 -> Bucket] /\ new[p] = e
          /\ \A q \in 0 .. n - 1 : q # p => new[q] = b[q]
      BY <2>2, <2>3, <3>2
    <3>4. FreeStops(b, n, k) # {}
      BY <1>1
    <3> HIDE DEF p, stops
    <3> QED
      BY <1>4, <2>2, <3>1, <3>3, <3>4, Placed
  <2>5. b[p].state # "used"
    BY <2>4 DEF UsedIn
  <2>6. buckets' = new /\ last' = Result(op, k, NoVal)
    BY <1>1, <2>2, <2>5, <2>3 DEF Put
  <2>7. MapOf(b)[k] = NoVal
    BY <1>4, MapOfAbsent
  <2>8. new \in [0 .. n - 1 -> Bucket]
    BY <2>2, <2>4, <2>3
  <2> HIDE DEF p
  <2>9. ASSUME NEW x \in Key PROVE MapOf(new)[x] = IF x = k THEN v ELSE MapOf(b)[x]
    <3>1. CASE x = k
      <4>1. p \in UsedIn(new) /\ new[p].key = k /\ new[p].val = v
        BY <2>2, <2>4
      <4> QED
        BY <2>4, <2>8, <3>1, <4>1, MapOfEntry
    <3>2. CASE x # k /\ \E q \in UsedIn(b) : b[q].key = x
      <4>1. PICK q \in UsedIn(b) : b[q].key = x
        BY <3>2
      <4>2. q \in UsedIn(new) /\ new[q] = b[q]
        BY <2>4
      <4>3. MapOf(new)[x] = new[q].val
        BY <2>4, <2>8, <4>1, <4>2, MapOfEntry
      <4>4. MapOf(b)[x] = b[q].val
        BY <4>1, MapOfEntry
      <4> QED
        BY <3>2, <4>2, <4>3, <4>4
    <3>3. CASE x # k /\ \A q \in UsedIn(b) : b[q].key # x
      <4>1. \A q \in UsedIn(new) : new[q].key # x
        BY <2>2, <2>4, <3>3
      <4>2. MapOf(new)[x] = NoVal /\ MapOf(b)[x] = NoVal
        BY <3>3, <4>1, MapOfAbsent
      <4> QED
        BY <3>3, <4>2
    <3> QED
      BY <3>1, <3>2, <3>3
  <2>10. MapOf(new) = [MapOf(b) EXCEPT ![k] = v]
    BY <2>9 DEF MapOf
  <2> QED
    BY <1>2, <2>4, <2>6, <2>7, <2>10
<1> QED
  BY <1>3, <1>4

(* MapInv but for LoadInv, after a step, and the step of the map.          *)
MapStep ==
    /\ Chained(buckets, capacity)'
    /\ pc' = "growing" => Moved'
    /\ [Abstract!Next]_<<Contents, last>>

LEMMA MapInit == Init => MapInv /\ Abstract!Init
<1> SUFFICES ASSUME Init PROVE MapInv /\ Abstract!Init
  OBVIOUS
<1>1. LoadInv /\ pc = "ready" /\ last = [op |-> "init"]
  BY LoadInit DEF Init
<1>2. UsedIn(buckets) = {}
  BY DEF Init, EmptyBuckets, Free, UsedIn
<1>3. Contents = [k \in Key |-> NoVal]
  BY <1>2 DEF Contents, MapOf
<1> QED
  BY <1>1, <1>2, <1>3 DEF MapInv, Chained, Abstract!Init

LEMMA StartGrowingMap ==
    ASSUME NEW op \in {"insert", "update"}, NEW k \in Key, NEW v \in Val, MapInv,
           StartGrowing(op, k, v),
           op = "update" => \A p \in UsedIn(buckets) : buckets[p].key # k
    PROVE  MapStep
<1>1. /\ UNCHANGED <<buckets, capacity, last>>
      /\ grow'.buckets = EmptyBuckets(2 * capacity) /\ grow'.from = 0
      /\ grow'.op = op /\ grow'.key = k
  BY DEF StartGrowing
<1>2. UsedIn(grow'.buckets) = {}
  BY <1>1 DEF EmptyBuckets, Free, UsedIn
<1>3. Chained(grow'.buckets, 2 * capacity)
  BY <1>2 DEF Chained
<1>4. Entries(grow'.buckets, 2 * capacity) = {}
  BY <1>2 DEF Entries
<1>5. Entries(buckets, 0) = {}
  <2>1. UsedIn(buckets) \in SUBSET (0 .. capacity - 1) /\ capacity \in Nat
    BY DEF MapInv, LoadInv, TypeOK, UsedIn
  <2> QED
    BY <2>1 DEF Entries
<1>6. Moved'
  BY <1>1, <1>3, <1>4, <1>5 DEF Moved
<1>7. UNCHANGED <<Contents, last>>
  BY <1>1 DEF Contents
<1> QED
  BY <1>1, <1>6, <1>7 DEF MapStep, MapInv

(* At once or by growing the table.                                        *)
LEMMA StartInsertMap ==
    ASSUME NEW op \in {"insert", "update"}, NEW k \in Key, NEW v \in Val, MapInv,
           StartInsert(op, k, v),
           op = "update" => \A p \in UsedIn(buckets) : buckets[p].key # k
    PROVE  MapStep
<1>1. CASE OverLoaded
  BY <1>1, StartGrowingMap DEF StartInsert
<1>2. CASE ~ OverLoaded
  <2>1. /\ capacity \in Nat /\ capacity > 4 /\ count \in Nat
        /\ buckets \in [0 .. capacity - 1 -> Bucket]
        /\ NoTomb(buckets) /\ Chained(buckets, capacity)
        /\ Cardinality(UsedIn(buckets)) <= count
    BY DEF MapInv, LoadInv, TypeOK, Load, Fits
  <2>2. Cardinality(UsedIn(buckets)) < capacity
    <3>1. Cardinality(UsedIn(buckets)) \in Nat
      BY <2>1, UsedFinite
    <3> QED
      BY <1>2, <2>1, <3>1 DEF OverLoaded
  <2>3. Put(op, buckets, capacity, count, k, v)
    BY <1>2 DEF StartInsert
  <2>4. /\ capacity' = capacity /\ pc' = "ready" /\ Chained(buckets', capacity)
        /\ last' = Result(op, k, Contents[k])
        /\ \/ /\ \E p \in UsedIn(buckets) : buckets[p].key = k
              /\ Contents[k] # NoVal /\ Contents' = Contents
           \/ Contents[k] = NoVal /\ Contents' = [Contents EXCEPT ![k] = v]
    BY <2>1, <2>2, <2>3, PutMap DEF Contents
  <2>5. CASE op = "insert"
    BY <2>4, <2>5 DEF MapStep, Abstract!Next, Abstract!Insert, Abstract!Result, Result
  <2>6. CASE op = "update"
    BY <2>4, <2>6 DEF MapStep, Abstract!Next, Abstract!Update, Abstract!Result, Result
  <2> QED
    BY <2>5, <2>6
<1> QED
  BY <1>1, <1>2

(* symtable_update of a key that is there.                                 *)
LEMMA OverrideMap ==
    ASSUME NEW k \in Key, NEW v \in Val, MapInv, Update(k, v), Found(k)
    PROVE  MapStep
<1>1. /\ capacity \in Nat /\ capacity > 0
      /\ buckets \in [0 .. capacity - 1 -> Bucket]
      /\ Chained(buckets, capacity) /\ pc = "ready"
  BY DEF MapInv, LoadInv, TypeOK, Load, Update
<1>2. PICK p \in UsedIn(buckets) : p = Landing(k) /\ buckets[p].key = k
  BY SearchFinds
<1>3. PICK e \in Bucket : e = Entry(k, v) /\ e.state = "used" /\ e.key = k /\ e.val = v
  BY EntryIsBucket DEF Entry
<1>4. /\ buckets' = [buckets EXCEPT ![p] = e]
      /\ last' = Result("update", k, buckets[p].val)
      /\ UNCHANGED <<capacity, pc>>
  BY <1>2, <1>3, SearchFinds DEF Update
<1>5. PICK new \in [0 .. capacity - 1 -> Bucket] :
          /\ new = buckets' /\ new[p] = e
          /\ \A q \in 0 .. capacity - 1 : q # p => new[q] = buckets[q]
  BY <1>1, <1>4 DEF UsedIn
<1>6. /\ UsedIn(new) = UsedIn(buckets)
      /\ \A q \in UsedIn(buckets) : q # p => new[q] = buckets[q]
      /\ Chained(new, capacity)
  BY <1>1, <1>2, <1>3, <1>5, Overwritten
<1>7. Contents[k] = buckets[p].val
  BY <1>1, <1>2, MapOfEntry DEF Contents
<1>8. ASSUME NEW x \in Key PROVE MapOf(new)[x] = IF x = k THEN v ELSE MapOf(buckets)[x]
  <2>1. CASE x = k
    BY <1>1, <1>2, <1>3, <1>5, <1>6, <2>1, MapOfEntry
  <2>2. CASE x # k /\ \E q \in UsedIn(buckets) : buckets[q].key = x
    <3>1. PICK q \in UsedIn(buckets) : buckets[q].key = x
      BY <2>2
    <3>2. q \in UsedIn(new) /\ new[q] = buckets[q]
      BY <1>2, <1>6, <2>2, <3>1
    <3>3. MapOf(new)[x] = new[q].val
      BY <1>1, <1>5, <1>6, <3>1, <3>2, MapOfEntry
    <3>4. MapOf(buckets)[x] = buckets[q].val
      BY <1>1, <3>1, MapOfEntry
    <3> QED
      BY <2>2, <3>2, <3>3, <3>4
  <2>3. CASE x # k /\ \A q \in UsedIn(buckets) : buckets[q].key # x
    <3>1. \A q \in UsedIn(new) : new[q].key # x
      BY <1>3, <1>5, <1>6, <2>3
    <3>2. MapOf(new)[x] = NoVal /\ MapOf(buckets)[x] = NoVal
      BY <2>3, <3>1, MapOfAbsent
    <3> QED
      BY <2>3, <3>2
  <2> QED
    BY <2>1, <2>2, <2>3
<1>9. Contents' = [Contents EXCEPT ![k] = v]
  <2>1. Contents' = MapOf(new)
    BY <1>5 DEF Contents
  <2>2. MapOf(new) = [MapOf(buckets) EXCEPT ![k] = v]
    BY <1>8 DEF MapOf
  <2> QED
    BY <2>1, <2>2 DEF Contents
<1>10. Abstract!Update(k, v)
  BY <1>4, <1>7, <1>9 DEF Abstract!Update, Abstract!Result, Result
<1>11. Chained(buckets', capacity') /\ pc' = "ready"
  BY <1>1, <1>4, <1>5, <1>6
<1> QED
  BY <1>10, <1>11 DEF MapStep, Abstract!Next

LEMMA UpdateMap ==
    ASSUME NEW k \in Key, NEW v \in Val, MapInv, Update(k, v)
    PROVE  MapStep
<1>1. CASE Found(k)
  BY <1>1, OverrideMap
<1>2. CASE ~ Found(k)
  <2>1. SearchReturns(k) /\ \A p \in UsedIn(buckets) : buckets[p].key # k
    BY <1>2, SearchFinds
  <2>2. StartInsert("update", k, v)
    BY <1>2, <2>1 DEF Update
  <2> QED
    BY <2>1, <2>2, StartInsertMap
<1> QED
  BY <1>1, <1>2

(* The look-up returns the value of the map.                               *)
LEMMA GetMap ==
    ASSUME NEW k \in Key, MapInv, Get(k)
    PROVE  MapStep
<1>1. SearchReturns(k)
  BY SearchFinds
<1>2. /\ UNCHANGED <<buckets, capacity, pc>> /\ pc = "ready"
      /\ last' = Result("get", k, IF Found(k) THEN buckets[Landing(k)].val ELSE NoVal)
  BY <1>1 DEF Get, table
<1>3. /\ capacity \in Nat /\ capacity > 0
      /\ buckets \in [0 .. capacity - 1 -> Bucket]
      /\ Chained(buckets, capacity)
  BY DEF MapInv, LoadInv, TypeOK, Load
<1>4. Contents[k] = IF Found(k) THEN buckets[Landing(k)].val ELSE NoVal
  <2>1. CASE Found(k)
    BY <1>3, <2>1, SearchFinds, MapOfEntry DEF Contents
  <2>2. CASE ~ Found(k)
    BY <2>2, SearchFinds, MapOfAbsent DEF Contents
  <2> QED
    BY <2>1, <2>2
<1>5. Abstract!Get(k)
  BY <1>2, <1>4 DEF Abstract!Get, Abstract!Result, Result, Contents
<1>6. Chained(buckets, capacity)' /\ pc' = "ready"
  BY <1>2, <1>3
<1> QED
  BY <1>5, <1>6 DEF MapStep, Abstract!Next

(* Cardinality in SymMap is that of SymTable.                              *)
LEMMA SameCardinality == \A S : Abstract!Cardinality(S) = Cardinality(S)
BY DEF Abstract!Cardinality, Cardinality

(* There are as many entries as keys with a value.                         *)
LEMMA EntryCountMap == MapInv /\ EntryCount => MapStep
<1> SUFFICES ASSUME MapInv, EntryCount PROVE MapStep
  OBVIOUS
<1>1. /\ capacity \in Nat /\ capacity > 0
      /\ buckets \in [0 .. capacity - 1 -> Bucket]
      /\ Chained(buckets, capacity)
  BY DEF MapInv, LoadInv, TypeOK, Load
<1>2. /\ UNCHANGED <<buckets, capacity, pc>> /\ pc = "ready"
      /\ last' = [op |-> "count", value |-> Cardinality(UsedIn(buckets))]
  BY DEF EntryCount, table
<1> DEFINE present == {k \in Key : Contents[k] # NoVal}
           keyOf   == [p \in UsedIn(buckets) |-> buckets[p].key]
<1>3. \A p \in UsedIn(buckets) : keyOf[p] \in present
  <2> TAKE p \in UsedIn(buckets)
  <2>1. buckets[p].key \in Key
    BY <1>1, ChainedStop
  <2>2. Contents[buckets[p].key] = buckets[p].val /\ buckets[p].val \in Val
    BY <1>1, MapOfEntry DEF Contents
  <2> QED
    BY <2>1, <2>2, NullAssumption
<1>4. \A p, q \in UsedIn(buckets) : keyOf[p] = keyOf[q] => p = q
  BY <1>1, ChainedUnique
<1>5. \A k \in present : \E p \in UsedIn(buckets) : keyOf[p] = k
  <2> TAKE k \in present
  <2>1. ~ \A p \in UsedIn(buckets) : buckets[p].key # k
    BY MapOfAbsent DEF Contents
  <2> QED
    BY <2>1
<1>6. Cardinality(present) = Cardinality(UsedIn(buckets))
  <2> HIDE DEF present
  <2>1. keyOf \in Bijection(UsedIn(buckets), present)
    BY <1>3, <1>4, <1>5 DEF Bijection, Injection, Surjection, IsInjective
  <2>2. ExistsBijection(UsedIn(buckets), present)
    BY <2>1 DEF ExistsBijection
  <2>3. IsFiniteSet(UsedIn(buckets))
    BY <1>1, UsedFinite
  <2> QED
    BY <2>2, <2>3, FS_Bijection
<1>7. Abstract!EntryCount
  <2>1. Contents' = Contents
    BY <1>2 DEF Contents
  <2>2. Abstract!Present = present
    BY DEF Abstract!Present
  <2> QED
    BY <1>2, <1>6, <2>1, <2>2, SameCardinality DEF Abstract!EntryCount
<1>8. Chained(buckets, capacity)' /\ pc' = "ready"
  BY <1>1, <1>2
<1> QED
  BY <1>7, <1>8 DEF MapStep, Abstract!Next

(* A turn of the loop of symtable_resize adds the entry of the bucket to   *)
(* the new array, where no entry of its key is.                            *)
LEMMA RehashMap == MapInv /\ Rehash => MapStep
<1> SUFFICES ASSUME MapInv, Rehash PROVE MapStep
  OBVIOUS
<1> DEFINE n   == 2 * capacity
           b   == grow.buckets
           old == buckets[grow.from]
<1>1. /\ capacity \in Nat /\ capacity > 0 /\ n \in Nat /\ n > 0
      /\ buckets \in [0 .. capacity - 1 -> Bucket] /\ Chained(buckets, capacity)
      /\ grow \in Growing /\ grow.from \in 0 .. capacity - 1
      /\ b \in [0 .. n - 1 -> Bucket] /\ NoTomb(b) /\ Chained(b, n)
      /\ Cardinality(UsedIn(b)) <= grow.count /\ grow.count <= grow.from
      /\ Entries(b, n) = Entries(buckets, grow.from)
      /\ grow.op = "update" => \A p \in UsedIn(buckets) : buckets[p].key # grow.key
  BY DEF MapInv, Moved, LoadInv, TypeOK, Load, Rehash, Growing
<1>2. /\ \A p \in UsedIn(b) : p \in 0 .. n - 1
      /\ \A p \in UsedIn(buckets) : p \in 0 .. capacity - 1
  BY <1>1 DEF UsedIn
<1>3. UNCHANGED <<buckets, capacity, last>> =>
          /\ Chained(buckets, capacity)' /\ UNCHANGED <<Contents, last>>
  BY <1>1 DEF Contents
<1>4. CASE old.state # "used"
  <2>1. UNCHANGED <<buckets, capacity, last>> /\ grow' = [grow EXCEPT !.from = @ + 1]
    BY <1>4 DEF Rehash, table
  <2>2. /\ grow'.from = grow.from + 1 /\ grow'.buckets = b
        /\ grow'.op = grow.op /\ grow'.key = grow.key
    BY <1>1, <2>1 DEF Growing
  <2>3. Entries(buckets, grow.from + 1) = Entries(buckets, grow.from)
    BY <1>1, <1>2, <1>4 DEF Entries, UsedIn
  <2>4. Moved'
    BY <1>1, <2>1, <2>2, <2>3 DEF Moved
  <2> QED
    BY <1>3, <2>1, <2>4 DEF MapStep
<1>5. CASE old.state = "used"
  <2> DEFINE k == old.key
  <2>1. grow.from \in UsedIn(buckets) /\ old \in Bucket /\ k \in Key
    BY <1>1, <1>5 DEF UsedIn, Bucket, Free
  <2>2. ASSUME NEW q \in UsedIn(b) PROVE b[q].key # k
    <3>1. b[q] \in Entries(b, n)
      BY <1>1, <1>2 DEF Entries
    <3>2. PICK p \in UsedIn(buckets) : p < grow.from /\ b[q] = buckets[p]
      BY <1>1, <3>1 DEF Entries
    <3>3. p # grow.from
      BY <1>1, <1>2, <3>2
    <3> QED
      BY <1>1, <2>1, <3>2, <3>3, ChainedUnique
  <2>3. FreeStops(b, n, k) # {}
    <3>1. Cardinality(UsedIn(b)) \in Nat /\ grow.count \in Nat
      BY <1>1, UsedFinite DEF Growing
    <3>2. Cardinality(UsedIn(b)) < n
      BY <1>1, <3>1
    <3> QED
      BY <1>1, <2>1, <3>2, FreeStop
  <2>4. PICK p : p = Pos(k, Nearest(FreeStops(b, n, k)), n)
    OBVIOUS
  <2>5. p \in 0 .. n - 1
    <3>1. FreeStops(b, n, k) \in SUBSET (0 .. n - 1)
      BY DEF FreeStops
    <3> HIDE DEF n, k, b
    <3> QED
      BY <1>1, <2>1, <2>3, <2>4, <3>1, StopInside
  <2>6. PICK new \in [0 .. n - 1 -> Bucket] :
            /\ new = [b EXCEPT ![p] = old] /\ new[p] = old
            /\ \A q \in 0 .. n - 1 : q # p => new[q] = b[q]
    <3> DEFINE f == [b EXCEPT ![p] = old]
    <3>1. f \in [0 .. n - 1 -> Bucket] /\ f[p] = old
      BY <1>1, <2>1, <2>5
    <3>2. \A q \in 0 .. n - 1 : q # p => f[q] = b[q]
      BY <1>1, <2>5
    <3> HIDE DEF n, b, old
    <3> QED
      BY <3>1, <3>2
  <2>7. /\ UNCHANGED <<buckets, capacity, last>>
        /\ grow' = [grow EXCEPT !.from = @ + 1, !.count = @ + 1, !.buckets = new]
    BY <1>1, <1>5, <2>3, <2>4, <2>6 DEF Rehash, table, Growing
  <2>8. /\ grow'.from = grow.from + 1 /\ grow'.buckets = new
        /\ grow'.op = grow.op /\ grow'.key = grow.key
    BY <1>1, <2>7 DEF Growing
  <2>9. /\ p \notin UsedIn(b) /\ UsedIn(new) = UsedIn(b) \cup {p}
        /\ \A q \in UsedIn(b) : new[q] = b[q]
        /\ Chained(new, n)
    <3>1. PICK e \in Bucket : e = old /\ e.state = "used" /\ e.key = k
      BY <1>5, <2>1
    <3>2. new[p] = e /\ \A q \in 0 .. n - 1 : q # p => new[q] = b[q]
      BY <2>6, <3>1
    <3>3. /\ n \in Nat /\ n > 0 /\ b \in [0 .. n - 1 -> Bucket]
          /\ NoTomb(b) /\ Chained(b, n) /\ k \in Key
      BY <1>1, <2>1
    <3> HIDE DEF n, b, old, k
    <3> QED
      BY <2>2, <2>3, <2>4, <3>1, <3>2, <3>3, Placed
  <2>10. Entries(new, n) = Entries(b, n) \cup {old}
    <3>1. /\ Entries(new, n) = {new[q] : q \in UsedIn(new)}
          /\ Entries(b, n) = {b[q] : q \in UsedIn(b)}
      BY <1>1, <1>2, <2>5, <2>9 DEF Entries
    <3>2. new[p] = old
      BY <2>6
    <3> HIDE DEF n, b, old, k
    <3> QED
      BY <2>9, <3>1, <3>2
  <2>11. Entries(buckets, grow.from + 1) = Entries(buckets, grow.from) \cup {old}
    BY <1>1, <1>2, <2>1 DEF Entries
  <2>12. Moved'
    BY <1>1, <2>7, <2>8, <2>9, <2>10, <2>11 DEF Moved
  <2> QED
    BY <1>3, <2>7, <2>12 DEF MapStep
<1> QED
  BY <1>4, <1>5

(* The new array is the same map as the old, and the insertion goes on.    *)
LEMMA FinishMap == MapInv /\ FinishInsert => MapStep
<1> SUFFICES ASSUME MapInv, FinishInsert PROVE MapStep
  OBVIOUS
<1> DEFINE n == 2 * capacity
           b == grow.buckets
           k == grow.key
           v == grow.val
<1>1. /\ capacity \in Nat /\ capacity > 0 /\ n \in Nat /\ n > 0
      /\ buckets \in [0 .. capacity - 1 -> Bucket] /\ Chained(buckets, capacity)
      /\ grow.op \in {"insert", "update"} /\ k \in Key /\ v \in Val
      /\ b \in [0 .. n - 1 -> Bucket] /\ NoTomb(b) /\ Chained(b, n)
      /\ Cardinality(UsedIn(b)) <= grow.count /\ grow.count \in Nat
      /\ grow.count <= capacity
      /\ Entries(b, n) = Entries(buckets, capacity)
      /\ grow.op = "update" => \A p \in UsedIn(buckets) : buckets[p].key # k
  BY DEF MapInv, Moved, LoadInv, TypeOK, Load, FinishInsert, Growing
<1>2. Cardinality(UsedIn(b)) < n
  <2>1. Cardinality(UsedIn(b)) \in Nat
    BY <1>1, UsedFinite
  <2> QED
    BY <1>1, <2>1
<1>3. /\ \A p \in UsedIn(b) : \E q \in UsedIn(buckets) : buckets[q] = b[p]
      /\ \A q \in UsedIn(buckets) : \E p \in UsedIn(b) : b[p] = buckets[q]
  <2>1. ASSUME NEW p \in UsedIn(b) PROVE b[p] \in Entries(b, n)
    BY <1>1 DEF Entries, UsedIn
  <2>2. ASSUME NEW q \in UsedIn(buckets) PROVE buckets[q] \in Entries(buckets, capacity)
    BY <1>1 DEF Entries, UsedIn
  <2> QED
    BY <1>1, <2>1, <2>2 DEF Entries
<1>4. MapOf(b) = Contents
  <2> HIDE DEF n, b
  <2> QED
    BY <1>1, <1>3, SameEntries DEF Contents
<1>5. Put(grow.op, b, n, grow.count, k, v)
  BY DEF FinishInsert
<1>6. /\ capacity' = n /\ pc' = "ready" /\ Chained(buckets', n)
      /\ last' = Result(grow.op, k, MapOf(b)[k])
      /\ \/ /\ \E p \in UsedIn(b) : b[p].key = k
            /\ MapOf(b)[k] # NoVal /\ MapOf(buckets') = MapOf(b)
         \/ MapOf(b)[k] = NoVal /\ MapOf(buckets') = [MapOf(b) EXCEPT ![k] = v]
  <2>1. /\ n \in Nat /\ n > 0 /\ b \in [0 .. n - 1 -> Bucket]
        /\ NoTomb(b) /\ Chained(b, n) /\ k \in Key /\ v \in Val
    BY <1>1
  <2> DEFINE op == grow.op
             c  == grow.count
  <2>2. Put(op, b, n, c, k, v)
    BY <1>5
  <2>3. Cardinality(UsedIn(b)) < n
    BY <1>2
  <2> HIDE DEF n, b, k, v, op, c
  <2>4. /\ capacity' = n /\ pc' = "ready" /\ Chained(buckets', n)
        /\ last' = Result(op, k, MapOf(b)[k])
        /\ \/ /\ \E p \in UsedIn(b) : b[p].key = k
              /\ MapOf(b)[k] # NoVal /\ MapOf(buckets') = MapOf(b)
           \/ MapOf(b)[k] = NoVal /\ MapOf(buckets') = [MapOf(b) EXCEPT ![k] = v]
    BY <2>1, <2>2, <2>3, PutMap, SMTT(60)
  <2> QED
    BY <2>4 DEF op
<1>7. Contents' = MapOf(buckets')
  BY DEF Contents
<1> HIDE DEF n, b, k, v
<1>8. CASE grow.op = "insert"
  <2>1. Abstract!Insert(k, v)
    BY <1>4, <1>6, <1>7, <1>8 DEF Abstract!Insert, Abstract!Result, Result
  <2> QED
    BY <1>1, <1>6, <2>1 DEF MapStep, Abstract!Next
<1>9. CASE grow.op = "update"
  <2>1. \A p \in UsedIn(b) : b[p].key # k
    BY <1>1, <1>3, <1>9
  <2>2. Abstract!Update(k, v)
    BY <1>4, <1>6, <1>7, <1>9, <2>1 DEF Abstract!Update, Abstract!Result, Result
  <2> QED
    BY <1>1, <1>6, <2>2 DEF MapStep, Abstract!Next
<1> QED
  BY <1>1, <1>8, <1>9

(* Every step keeps the invariant, and is a step of the map or none.       *)
LEMMA MapStepOfNext ==
    MapInv /\ [NextNoRemove]_vars => MapInv' /\ [Abstract!Next]_<<Contents, last>>
<1> SUFFICES ASSUME MapInv, [NextNoRemove]_vars
             PROVE  MapInv' /\ [Abstract!Next]_<<Contents, last>>
  OBVIOUS
<1>1. LoadInv'
  BY LoadStep DEF MapInv, Next
<1>2. ASSUME NEW k \in Key, NEW v \in Val, Insert(k, v) PROVE MapStep
  BY <1>2, StartInsertMap DEF Insert
<1>3. ASSUME UNCHANGED vars PROVE MapStep
  <2>1. /\ UNCHANGED <<Contents, last>>
        /\ Chained(buckets, capacity)' <=> Chained(buckets, capacity)
    BY <1>3 DEF vars, Contents
  <2>2. Moved' <=> Moved
    BY <1>3 DEF vars, Moved
  <2> QED
    BY <1>3, <2>1, <2>2 DEF vars, MapStep, MapInv
<1>4. MapStep
  BY <1>2, <1>3, RehashMap, FinishMap, EntryCountMap, GetMap, UpdateMap DEF NextNoRemove
<1> QED
  BY <1>1, <1>4 DEF MapStep, MapInv

(* Every entry of the table is where the search for its key ends, whatever *)
(* the hashes: growing the table moves each entry to where it is found.    *)
THEOREM EveryEntryReachable == SpecNoRemove => []EntriesReachable
<1>1. MapInv => EntriesReachable
  <2> SUFFICES ASSUME MapInv, NEW p \in UsedIn(buckets)
               PROVE  /\ SearchStops(buckets, capacity, buckets[p].key) # {}
                      /\ Landing(buckets[p].key) = p
    BY DEF EntriesReachable
  <2>1. /\ capacity \in Nat /\ capacity > 0
        /\ buckets \in [0 .. capacity - 1 -> Bucket]
        /\ Chained(buckets, capacity)
    BY DEF MapInv, LoadInv, TypeOK, Load
  <2> DEFINE k == buckets[p].key
  <2>2. k \in Key
    BY <2>1, ChainedStop
  <2>3. SearchReturns(k) /\ ~ ~ Found(k)
    BY <2>2, SearchFinds
  <2>4. Landing(k) \in UsedIn(buckets) /\ buckets[Landing(k)].key = k
    BY <2>2, <2>3, SearchFinds
  <2>5. Landing(k) = p
    BY <2>1, <2>4, ChainedUnique
  <2> QED
    BY <2>3, <2>5 DEF SearchReturns
<1> QED
  BY MapInit, MapStepOfNext, <1>1, PTL DEF SpecNoRemove

(* The table implements the map of symtable.h: each operation returns what *)
(* the map would return and changes one entry at most; growing the table   *)
(* loses, duplicates and changes no entry.                                 *)
THEOREM TableIsMap == SpecNoRemove => ImplementsMap
<1> QED
  BY MapInit, MapStepOfNext, PTL DEF SpecNoRemove, ImplementsMap, Abstract!Spec
=============================================================================
