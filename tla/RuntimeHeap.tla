---------------------------- MODULE RuntimeHeap -----------------------------
(***************************************************************************)
(* Copying and dropping values in cocodol_rt.c.  A function value has an   *)
(* environment, a block of values on the heap (0: none); every other value *)
(* is Plain.  A heap is a sequence of blocks, in the order of their        *)
(* allocation, and keeps the blocks that are freed.  `undefined` says that *)
(* a freed block has been read or freed again.                             *)
(***************************************************************************)
EXTENDS Integers, Sequences, SequencesExt

Function(fun, env) == [fun |-> fun, env |-> env]
Plain              == Function(0, 0)

Block(values) == [live |-> TRUE, values |-> values]
EmptyHeap     == [blocks |-> <<>>, undefined |-> FALSE]

IsLive(heap, env) == heap.blocks[env].live
Undefine(heap)    == [heap EXCEPT !.undefined = TRUE]
Free(heap, env)   == [heap EXCEPT !.blocks[env].live = FALSE]

(* The address of the block that malloc returns next.                      *)
NextBlock(heap) == Len(heap.blocks) + 1

RECURSIVE Drop(_, _), Copy(_, _)

(* Mutant: the environment is freed, and not what it holds.                *)
Drop_shallow(heap, value) ==
    IF value.env = 0 THEN heap
    ELSE IF ~IsLive(heap, value.env) THEN Undefine(heap)
    ELSE Free(heap, value.env)

(* _cocodol_drop: first what the environment holds, then itself.           *)
Drop(heap, value) ==
    IF value.env = 0 THEN heap
    ELSE IF ~IsLive(heap, value.env) THEN Undefine(heap)
    ELSE Free(FoldLeft(Drop, heap, heap.blocks[value.env].values), value.env)

(* Mutant: the new environment holds the values themselves.                *)
NewEnvironment_shared(heap, values) ==
    [heap EXCEPT !.blocks = Append(@, Block(values))]

(* A new environment with copies of the values.                            *)
NewEnvironment(heap, values) ==
    LET new == NextBlock(heap)
        Put(h, v) == LET c == Copy(h, v)
                     IN  [c.heap EXCEPT !.blocks[new].values = Append(@, c.value)]
    IN  FoldLeft(Put, [heap EXCEPT !.blocks = Append(@, Block(<<>>))], values)

(* _cocodol_copy.                                                          *)
Copy(heap, value) ==
    IF value.env = 0 THEN [heap |-> heap, value |-> value]
    ELSE IF ~IsLive(heap, value.env) THEN [heap |-> Undefine(heap), value |-> Plain]
    ELSE [heap  |-> NewEnvironment(heap, heap.blocks[value.env].values),
          value |-> Function(value.fun, NextBlock(heap))]
=============================================================================
