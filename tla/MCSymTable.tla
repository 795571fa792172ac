----------------------------- MODULE MCSymTable -----------------------------
(***************************************************************************)
(* SymTable on small tables.  The hashes collide in the last bucket, so    *)
(* that probe chains wrap around the array; some of the collisions are     *)
(* resolved when the table grows from 5 to 10 buckets and others appear.   *)
(***************************************************************************)
EXTENDS SymTable, TLC

CONSTANTS a, b, c, d, e

(* Modulo 5, a, b and c meet in bucket 4 and spill over to 0; modulo 10, a *)
(* and b still meet, and so do c and d.                                    *)
HashOf == (a :> 4) @@ (b :> 14) @@ (c :> 9) @@ (d :> 19) @@ (e :> 10)
MCHash == [k \in Key |-> HashOf[k]]
=============================================================================
