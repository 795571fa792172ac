------------------------------- MODULE SymMap -------------------------------
(***************************************************************************)
(* What symtable.h promises: a partial map from identifiers to values.     *)
(* No buckets, no probing, no capacity.  SymTable.tla shows how far        *)
(* symtable.c keeps the promise.                                           *)
(***************************************************************************)
EXTENDS FiniteSets

CONSTANTS Key,      \* identifiers
          Val,      \* pointers to the associated data
          NoVal     \* the NULL pointer, no element of Val

VARIABLES map,      \* [Key -> Val \cup {NoVal}], NoVal where the key is absent
          last      \* the operation that returned last, and what it returned

TypeOK == map \in [Key -> Val \cup {NoVal}]

Result(op, k, v) == [op |-> op, key |-> k, value |-> v]

Init == /\ map = [k \in Key |-> NoVal]
        /\ last = [op |-> "init"]

(* Adds an entry unless the key is there; returns the value already there. *)
Insert(k, v) ==
    /\ last' = Result("insert", k, map[k])
    /\ map' = IF map[k] = NoVal THEN [map EXCEPT ![k] = v] ELSE map

(* Adds or overrides an entry; returns the value that was overridden.      *)
Update(k, v) ==
    /\ last' = Result("update", k, map[k])
    /\ map' = [map EXCEPT ![k] = v]

(* Removes the entry of the key; returns the value it had.                 *)
Remove(k) ==
    /\ last' = Result("remove", k, map[k])
    /\ map' = [map EXCEPT ![k] = NoVal]

Get(k) ==
    /\ last' = Result("get", k, map[k])
    /\ UNCHANGED map

(* How many keys have an entry. *)
Present    == {k \in Key : map[k] # NoVal}
EntryCount == /\ last' = [op |-> "count", value |-> Cardinality(Present)]
              /\ UNCHANGED map

Next == \/ EntryCount
        \/ \E k \in Key :
              \/ Get(k)
              \/ Remove(k)
              \/ \E v \in Val : Insert(k, v) \/ Update(k, v)

Spec == Init /\ [][Next]_<<map, last>>
=============================================================================
