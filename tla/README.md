# Cocodol: formal models and proofs

Cocodol is a small language with a C front end, a C interpreter that walks the
syntax tree, and a Swift code generator over LLVM with a C runtime library. This
directory holds TLA+ models of its core, the TLC runs that check them and TLAPS
proofs about them. Paths below are relative to `src/Sources/CCocodol/src/`
unless they say otherwise.

## The system

| Component | State it keeps | Operations | What makes it correct |
|---|---|---|---|
| Symbol table `symtable.c` | bucket array, capacity, `count` | insert, update, remove, get, count, map, foreach; grows on insert | behaves as a map; every probing loop ends; growing loses nothing |
| Interpreter `eval.c` | value stack and its index, chain of frames with their tables, globals, status | `eval_node` per node and phase, `eval_program`, init, deinit | programs mean what they say; the stack and the frames are balanced; an error stops everything; nobody keeps a pointer to what is gone |
| AST `ast.c` | nodes | `node_walk`, `capture_set` | children in order, early exit as the visitor asks; captures are the free names |
| Node arena `context.c` | growing array of nodes | new node, resize | nobody keeps a pointer across a resize |
| Parser `parser.c` | token ring, scope, buffers | one function per production, recovery | always advances; recovery loses no good statement; lists within their bounds |
| Lexer `lexer.c`, `token.c` | position in the source | next token | longest match, keywords apart from names |
| Runtime `src/Runtime/src/cocodol_rt.c` | heap environments | drop, copy, print, operators | agrees with the interpreter; every environment freed once |
| Code generator `src/Sources/CodeGen/Emitter.swift` | scopes of values to drop | one method per node | every exit of a scope drops its values once |
| Swift wrappers, drivers, hashing | none | accessors, input and output | - |

Everything runs on one thread. What is hard here is not concurrency but
*re-entrance*: `eval_node` is a callback of `node_walk`, starts nested walks of
its own in the middle of a visit (conditions, bodies, calls, right-hand sides,
lazy globals), ignores what they return, and goes on with pointers and indices
it noted before. A walk can be cut short at any depth by an error, a `brk`, a
`nxt` or a `ret`, each of which leaves a different mess for the waiting visits
to clean up. The tables below it are hash tables with open addressing, where
one entry's fate depends on where every other was put.

How the parts interact: the parser fills the node arena with nodes and, in
each block, a list of its declarations; `capture_set` reads those lists when
the interpreter declares a function in a block; the interpreter keeps every
scope (globals, locals of a frame, environment of a closure) in a symbol table
that owns the heap values it points to. The lexer gives the parser a token per
call. The code generator reads the same tree and the same `capture_set`, and
what it emits calls the runtime library, whose operators must agree with the
interpreter's and whose `drop` and `copy` must be called in pairs that the
generator lays down on every way through a function.

`PROJECT.json` lists the hazards line by line, with the properties aimed at
each.

## Modules

| Module | What it is |
|---|---|
| `SymMap` | what `symtable.h` promises: a partial map |
| `SymTable` | `symtable.c`, bucket by bucket; refines `SymMap` as the repository uses it |
| `SymTable_proofs` | termination of all probing loops, `count` is an upper bound; without removals: every entry is found, and the refinement of `SymMap` |
| `Eval` | `eval.c` with the walk of `ast.c` |
| `Eval_proofs` | the invariant of the walk, frames and values; silence after an error |
| `EvalCalls_proofs` | a running function changes no table of its callers; the balance of the value stack: calls leave their results, programs leave nothing |
| `CaptureSet` | `capture_set` of `ast.c` |
| `EvalRef` | a recursive evaluator of the language, without stack and walk: the reference `Eval` is compared with |
| `Syntax` | constructors for the programs of the MC modules |
| `TokenStream` | what the comments on `peek` and `consume` promise: a stream |
| `TokenWindow`, `WindowUse` | the lookahead ring of `parser.c` as operators; its two calls in any order, refining `TokenStream` |
| `WindowUse_proofs` | the ring's invariant and the refinement |
| `Parser` | `parser.c`: every production, on top of `TokenWindow` |
| `ParserTrees` | what the trees of `Parser` say of the source, read down to their leaves |
| `Parser_proofs` | types, scopes, the window and the loop of statements, the levels of operators |
| `ParserTrees_proofs` | how the trees nest, and that blocks know the declarations below them |
| `Lexer` | `lexer.c`: `lexer_next`, call by call |
| `Lexemes` | what a text is made of, said without a scanner: the reference `Lexer` is compared with |
| `Lexer_proofs` | tokens are the longest lexemes of the text, in order, of the right kinds; the end stays the end |
| `RuntimeOps`, `RuntimeOps_proofs` | the operators and `print` of `eval.c` and of `cocodol_rt.c`, side by side |
| `RuntimeHeap` | `copy` and `drop` of `cocodol_rt.c` |
| `Emitter` | `Emitter.swift`: the blocks, jumps, scopes, copies and drops it emits |
| `Compiled` | the emitted code, verified and executed on `RuntimeHeap` |
| `MCSymTable`, `MCEval`, `MCEvalAny`, `MCEvalIdioms`, `MCParser`, `MCParserFlaws`, `MCLexer`, `MCRuntimeOps`, `MCCompiled` | constants for TLC |

### SymTable

`buckets`, `capacity` and `count` are the fields of `SymTable`. A bucket is
free, used or a tombstone, with its key and value; the hash function is a
constant, arbitrary in the proofs and chosen for collisions in the runs. One
operation is one action, except that the loop of `symtable_resize` takes one
step per old bucket (`Rehash`) while `grow` holds the locals of the insertion
that waits. A loop that can meet no bucket to stop at makes the table `hung`.
The model keeps what the code does rather than what its names say: a removal
leaves a *free* bucket (line 156 clears the only tag bit that was set), the
search would never get past a tombstone (line 85), an insertion passes over a
tombstone without reusing it (132) and without counting (128), and the load
factor is tested before the insertion (102).

### Eval

The C call stack of all the walks in progress is the sequence `todo`. Its items
are the visits still to be made, the next one first: a `walk` (a call of
`node_walk` that has not begun), a `post` (the visit after the children), a
turn of `eval_program`'s loop (`decl`), and one kind of item for each place
where `eval_node` waits for a nested walk (`assigned`, `condition`, `branch`,
`loop_condition`, `loop_body`, `lazy`, `return`). A visit that returns false in
the post phase makes every `node_walk` above return false, up to the first that
is waited for: `Unwind`. A visit that returns false in the pre phase means "go
on with the next sibling". Each action is one call of `eval_node`, or the part
of one between two nested walks, with its early returns.

`stack` and `vi` are `value_stack` and `value_index`; `frames` and `locals` are
the chain of `EvalFrame`s. Values are trees: deep copies become assignments,
and a value that was freed while a table points to it is `Freed`. What the C
standard leaves undefined and the walk can reach (a slot outside the stack, a
second free, a division by zero, a null frame) ends the behaviour with
`outcome = "undefined"`, a failed assertion with `"abort"`. The words below
`value_stack` belong to `EvalState`'s other fields: reading the *kind* of slot
-1 finds none that the code asks for.

Item field `d` is no state of the program except for `loop_body` and `return`,
where it is the frame that was noted (464, 762): for the others it says how
many frames must be there when their turn comes, which is what `FrameFloor`
talks about.

Left out of `Eval`: floats (each case is the integers' with another field),
bitwise operators and the other comparisons (rows of one table of operators),
the width of integers, member access and objects (which the evaluator asserts
on), the leak of frames, the order in which a table frees its entries. A value
fresh from `malloc` is taken to have a kind that `drop` ignores (lines 394,
513, 768 drop one before they assign it).

### CaptureSet and EvalRef

`CaptureSet` computes on the tree what `capture_visitor` collects: names that
are used and neither declared in a block of the function (before or after the
use), nor a parameter, nor the function's own name. `EvalRef` is the evaluator
a textbook would give for the language, in which `ret`, `brk` and `nxt` leave
what they should leave; it shares with `Eval` only the operators on values.

### TokenWindow and Parser

`TokenWindow` holds the fields `lookahead_buffer`, `lookahead_start` and
`lookahead_end` with the number of tokens the lexer has given; a token is its
position in the source. Both indices are `size_t`, so a subtraction wraps at
`SizeRange`. `WindowUse` calls `peek` and `consume` in any order as long as
there is a token to consume; what happens beyond the end is the parser's
business, and a finding.

`Parser` keeps the C call stack in `calls`, like `todo` in `Eval`: an item is a
parsing function about to begin or a place where one waits for a nested call,
with its locals (`node` the node it made, `level` the lowest operator level
`parse_infix_expr` takes, `list` the statements, arguments or parameters so
far; `from`, which is no state of the program, is the number of tokens that were
consumed before a statement). `ret` is what the last call returned. Each action
is the part of a function between two nested calls, with every early return, or
a turn of one of its inner loops (commas, semicolons, recovery, and the loop of
`parse` that gathers statements, whose position and run are the items `gather`
and `run`); the nodes are made
in the order the code makes them, so node names are the code's `NodeID`s plus
one. `window`, `scope`, `nodes` and `decls` are `ParserState`'s ring and scope,
the arena and the array `parse` returns; a block's `decls` and `outer` are
`last_decl` and `parent`. Reading through `NULL` and writing behind a buffer
end the behaviour with `"undefined"` (a local array that is overrun may also
reach the assertion, `"abort"`).

Left out: positions of nodes, the values of literals, the wording of reports,
and most operators of each level (they differ in nothing the parser looks at).
The source that has white space before its first token is left out too (there
`is_stmt_delimiter` may stop at that token). The nodes do not move.

Two facts the model states rather than judges (`BindsByLevel` and a part of
`TreeOfSource`): every infix operator associates to the left, `a = b = c`
included, and a prefix operator takes the whole expression to its right, so that
`-1 + 3` is `-(1 + 3)`.

`ParserTrees` holds the properties that need to follow a tree down to its
leaves. A node is a list of parts (`Parts`), and a tree is *read* at a place of
the source: its parts are there one after the other, and reading leads to the
place behind them (`Reading`, `AfterParts`). That and the declarations below a
node (`DeclsUnder`) are recursive functions, which theorems can speak of;
everything in `Parser` is free of recursion.

### Lexer and Lexemes

`source` and `index` are the fields of `LexerState`; `tokens` and `answer` are
what the calls of `lexer_next` have returned. A turn of the loop that skips
comments is one action (`SkipComment`), and so is the rest of a call, by the
branch it takes (`End`, `Word`, `Number`, `Symbol`). A character is a letter of
its name, as far as the code tells characters apart: all white space but the
line ends is one, the letters are those of the keywords and `x`, and `other` is
any byte that is nothing to the lexer. A byte that compares equal to `EOF` is
one of them (line 146): the text goes on behind it.

`Lexemes` says which words are lexemes, and takes the longest at each place,
white space and comments included. Two mistakes of the kinds of tokens are
named in `Mistaken`, and `KindsRight` is about all others.

### RuntimeOps

One expression is evaluated twice, operand by operand: on `value_stack` by the
rows of `eval.c` and on objects by those of `cocodol_rt.c`. Integers have
`Width` bits. Where C gives an operation no meaning (overflow, division by
zero, shifts out of range or of a negative number to the left) the set of its
results is empty and both sides must agree that it is. A function object has
its address in the tag with the bits 01, so that `print` tells it from the
others by the lower two bits. Of a float there is only its kind; a comparison
of two floats goes either way, but the same way on both sides. That is an
abstraction that hides a difference: the interpreter keeps a `float`
(`value.h:34`) and the library a `double`, so digits, and a comparison of close
numbers, may differ.

### RuntimeHeap, Emitter and Compiled

`Emitter` is a function from programs to code, written over a record `e` that
holds what `Emitter` and its `IRBuilder` hold: the blocks so far and the
builder's position, the contexts of functions with their scopes and bindings,
the loops, the `EmitterAction` of the last statement. Each method of
`Emitter.swift` that emits a statement or an expression is an operator of about
its shape. The code is a list of blocks of instructions: loads, stores, calls,
jumps, and calls of the library. `Verifies` is what LLVM's verifier asks of the
blocks.

`Compiled` runs that code. `frames` is the stack of calls, each with its block,
position, computed values (`temps`), slots (`alloca`s), the caller's slots that
are its arguments, and its environment; `globals` is the global variables, set
by calls of their initialisers from `main`; `heap` is the environments. Every value
but a function is `Plain`, so a condition goes either way and a loop runs any
number of times up to `MaxBlocks` allocations. A read of a slot that nothing
was stored in, and any use of a freed environment, ends in `"undefined"`.

The properties talk about programs that keep clear of what the generator does
not handle, and say what that is: `Disciplined` programs begin no variable as
another's value or with a use of itself and have no name as a statement, `Tidy`
ones assign nothing, declare no name twice in a block and pass no call's result
on, `Flat` ones have no conditional, loop or call inside a branch.

A call of a function by its name with the wrong number of arguments is rejected
(`CallsFit`); one through a value is undefined, and the model stops there with
`"mismatched"`, of which no property speaks. Left out of `Emitter`: types,
attributes, and the packing of an object in two words. A mangled name is kept
as its parts.

## Runs

| Run | Checks | Bounds and why they are enough |
|---|---|---|
| `symtable_use` | `EntriesReachable`, `ImplementsMap` | 4 keys, 2 values, capacity 5 growing to 10. Three keys hash to the last bucket of 5, so chains wrap; doubling separates one and brings another pair together. 4 of 5 buckets full is over the load factor, so the table grows with one more operation. |
| `symtable_remove` | `TypeOK`, `OperationsReturn`, `CountCoversEntries` | 3 keys, removals: insertions and removals in any order drive `count` over the load factor with few entries, so the table grows with holes in it. |
| `eval_any` | `TypeOK`, `FrameFloor`, `LvalueAlive`, `QuietAfterError`, `CallersUntouched`, `ErrorEnds` | 11466 programs: a global, a function with one of 13 statements before its `ret` or without one, a block with two of 21 statements, many of them wrong. Stack of 12 slots, so that unbounded recursion and unbalanced loops reach its end. |
| `eval_ok` | `ComputesMeaning`, `CallLeavesResult`, `StatusIsOK`, `CleanEnd`, `VoidsAreStatements`, `Terminates` | 1800 programs out of what the interpreter supports: recursion, closures, shadowing, lazy globals, loops with `brk` and `nxt`, early returns at the end of a body. Stack of 24 slots, which none of them fills (a full stack would be an abort, which `ComputesMeaning` excludes). |
| `early_return`, `nested_recursion` | `CallLeavesResult`, `RecursionResolves`, violated | one program each |
| `window_use` | `OneToken`, `ImplementsStream` | the code's ring of 8 slots, a source of 60 tokens: seven turns of the ring and an incomplete one |
| `parse` | `TypeOK`, `NeverGoesBack`, `ScopeIsInnermost`, `BlocksKnowDecls`, `TreeOfSource`, `BindsByLevel`, `EveryStatementEats`, `Accepted`, `Terminates` | 10052 sequences. Anything: eleven beginnings, each with every ending of up to two tokens out of twenty kinds or three out of seven. The language: all pairs of levels with prefix operators, all triples, nested calls and members, pairs of statements at the top and in a function. A ring of 4, two parameters and lists of four, so that each is exceeded by something (never by the language); wrong sources that end one token short of a full ring are left out, since `parse_last_slot` shows what becomes of them. |
| `parse_last_slot` | `NeverGoesBack`, violated | one source, with the code's own bounds (ring 8, 64 parameters, capacity 64) |
| `lex` | `TypeOK`, `InOrder`, `LongestMatch`, `KindsRight`, `EndIsFinal`, `ReachesEnd` | all texts of four pieces out of 14 and none (names, keywords, digits, dot, slash, line end, blank, operators that pair up), every keyword and every keyword less its last letter with each of eight things behind it. A lexeme is decided by two characters behind it at most, and four pieces put each beside each other on both sides. |
| `operators` | `LockStep`, `PrintsAlike` | all 6-bit integers, the two Booleans, a float, junk, `print` and a function; up to two operands, so that each operator meets every pair, results of operators included |
| `compiled` | `SingleOwner`, `NothingDangles`, `ScopesFree`, `FlatIsAccepted` | 965 programs. 414: a function that makes closures, a function with a closure in a variable and one or two statements (assignments, calls of arguments, nested functions, conditionals with every pair of ends, loops with `brk`, `nxt` and `ret` at every depth), called with a closure. 551: a global variable that holds a closure, declared before or after a function with one or two statements that use it in every way (passed, called, captured, shadowed, assigned, replaced by `print`), and with a second global variable of each kind of initialiser; 368 of them get through the generator. 26 allocations let every loop go round more than once. |


`CHECK_DEADLOCK FALSE` is said where the model really stops: `Eval` at the end
of a program, an abort or undefined behaviour; `Parser`, `Compiled` and `RuntimeOps` (operands up to `Depth`) likewise; `SymTable` at
the bound `MaxCapacity`, where an insertion that would grow the table further is not
taken.

Bounds: `StackSize` (1024 in the code), `InitialCapacity` (16 in the code),
`MaxCapacity` (none in the code), `WindowLength` (8), `SizeRange` (2^64),
`VecCapacity` and `MaxParams` (64 both), `Width` (64), `Depth` and `MaxBlocks`
(none in the code). The proofs are for every value of the first five that their
`ASSUME`s allow, for every set of texts of `Lexer` and for every set of token
sequences and every bound of `Parser`.

Fairness: `FairSpec` is weak fairness of `Next`. One thread runs the
interpreter, the parser and the lexer, and a call of theirs that can go on does
(the parser and the tests call the lexer until it says no). `Terminates` (of
both), `ErrorEnds` and `ReachesEnd` are checked under it; nothing else needs it.

While the model was written, the final states that TLC reaches were compared
with the output and the status of the interpreter built from the repository,
for the 1800 programs of `MCEval` and for 10584 of those of `MCEvalAny` (twelve
of the thirteen statements in the function): they agree wherever the behaviour
of the C program is defined. The same was done with the parser: for all the
sources of `MCParser` the array of nodes, the declaration lists
and whether there was a report agree, node by node, with those of `parser.c`
built with the same bounds, and it crashes where the model stops (except that
it runs over its statement buffer silently). The tokens of all the texts of
`MCLexer` were compared with those of the built lexer: they are the same.

## What the runs found

Three runs show a disagreement of the code with what the repository says:

* `ret` and `nxt` do not get out of an `if` or a `while` (eval.c:833, 455): the
  factorial example works only because nothing follows its `if`
  (`early_return`).
* A function declared in a block cannot call itself (ast.c:246,
  `nested_recursion`).
* An expression missing at the end of a source with seven tokens in the last
  turn of the ring makes the parser read old tokens again (parser.c:51,
  `parse_last_slot`).

More was met on the way. Of these the model says what the code does, and a
property of a passing run names the exception or the run's programs keep clear
of it.

* `symtable_remove` creates no tombstone (symtable.c:156), so keys behind the
  removed one are lost: `EntriesReachable` fails under `Spec`, which has
  removals, and holds under `SpecNoRemove`. The repository has no caller of it.
* `brk` inside an `if` fails the assertion eval.c:341.
* Recovery does not happen: the statement's node is never the one that failed
  (parser.c:695), so after `)` the statement list goes on with the next token.
* A parameter that is no name fills the parameter array (parser.c:120).
* The 129th statement of a list is written behind its buffer (parser.c:690).
* `var x` at the end of the source reads through `NULL` (parser.c:204).
* An identifier that begins like a keyword is one (`iffy`, `order`, `variable`:
  lexer.c:75), and `1.` is a float of one character (119): `Mistaken`.
* A conditional, a loop or a call of a closure inside a branch that goes on
  leaves the builder in the block where the branch *began* (Emitter.swift:698,
  717): the program is rejected by the verifier, nested `if`s included. `Flat`.
* `var c2 = c1` of a closure stores the value without a copy (317), and the
  statement `c;` drops a variable's value (660): both are freed twice.
  `Disciplined`.
* A local variable is bound before its initial value is computed (312):
  `var x = f(x)` reads the new `x`, in which nothing has been stored, also where
  there is a global `x`. `Disciplined`.
* An assignment forgets the value it replaces (547), a name that a block
  declares twice is dropped once (962), and a call's result that is passed on,
  returned or tested is copied and not dropped: leaks. `Tidy`.
* `print` is an object at its first use as a value only (124): the second use
  gets the bare LLVM function, and no executable comes of the program.
* A global variable with the name of a function is renamed by LLVM (279), and
  every reference to the name goes to the function.
* A function in a block that refers to a global, a function or `print` captures
  a name no scope binds, and the generator stops at the forced unwrapping
  (375). Two functions of the same name in sibling blocks are a "duplicate
  function" (342), and so are two whose mangled parts run together to one name.
* `brk` in a function declared in a loop drops the function's scopes and jumps
  to the loop outside; the generator then stops at the assertion 416.
* A closure keeps its environment from call to call when compiled, and gets a
  fresh copy of it when interpreted (eval.c:768).

## What is proved

`tlapm` checks all of it without any assumption but the named `ASSUME`s of the
modules (TLC evaluates those on the runs).

* `BucketsAreTyped` and `OperationsTerminate`: `[]TypeOK` and
  `[]OperationsReturn` of `SymTable`, removals included, for every hash function and every initial
  capacity above four. The invariant is `LoadInv`: no tombstone is ever made
  (so the endless `continue` of line 85 is dead code), `count` bounds the number
  of used buckets, and `4 * count <= 3 * capacity + 4`: because the load factor is
  tested *before* the insertion, `count` may exceed it by one, and then it needs
  `capacity > 4` to leave a bucket free. While the table grows, the number
  moved is at most the number of buckets looked at. That a key's probe
  sequence meets every bucket is a lemma on `Pos`.
* `CountIsUpperBound`: the same invariant gives `[]CountCoversEntries`.
* `EveryEntryReachable` and `TableIsMap`: `SpecNoRemove => []EntriesReachable`
  and the refinement `SpecNoRemove => ImplementsMap` of `SymTable`, for every
  hash function. The invariant `MapInv` adds to `LoadInv` that arrays are
  `Chained` (a probe for the key of an entry meets only entries of other keys
  before it) and, while the table grows, that the new array is chained too and
  has exactly the entries of the old buckets already visited. From `Chained` a
  key has one entry at most and every loop stops at it; a new entry goes to the
  first free bucket of its probe, which lies behind no chain, so all chains stay
  whole. During a growth the map stays that of the old buckets: each turn is a
  stutter, and the insertion that follows is one step of the map.
  `symtable_entry_count` is right because entries and present keys are in
  bijection. Removals are excluded because the theorem is false with them (see
  above).
* `StackIsBounded`, `FramesAreKept` and `AssignedVariableLives`: `[]TypeOK`,
  `[]FrameFloor` and `[]LvalueAlive` of `Eval`, for every set of programs, every capture function and every stack size. It
  says that no program, however wrong, makes a loop or a call pop frames past
  the one it noted, pops a frame that an enclosing block or assignment counts
  on, or writes outside the stack other than through the places the model calls
  undefined. `FrameFloor` alone is not inductive: a block that ends pops one
  frame, so the items under it must count on *fewer* frames than it does. The
  invariant `IInv` has that order (`Ordered`: the counts do not increase towards
  the bottom, and decrease strictly under an item that pops), the kinds of the
  nodes that `condition` and loop items wait with and the place of each
  unfinished assignment (`Alive`), and that every value anywhere is made of
  nodes of the tree (`Good`), because a call takes a function value apart and
  walks its body. `Good` is stated with a set closed under looking up captured
  variables, in place of a recursion over values.
* `ErrorsAreQuiet`: `Spec => QuietAfterError`, from `IInv` and the fact that
  every visit guarded by line 340 is disabled after an error.
* `BreaksMeetLoops`: `BreaksInLoops => (Spec => []StatusIsOK)` of `Eval`, for
  every set of programs in which each `brk` leaves nothing but blocks of a loop's
  body. `BreaksInLoops` says so of the trees, with a set that holds each `brk` and
  the blocks it leaves, and no branch, function body or statement of the top
  level; TLC evaluates the condition on that set, `LeftBy`, for the programs of
  `eval_ok`. It is needed: with a `brk` in a branch of an `if`, or outside of
  any loop, the assertion of line 341 fails (`eval_any` runs programs of the
  second kind into the abort). The invariant `BreakInv` adds to `IInv` that of
  the items behind one that a `brk` may leave, the first that waits is a loop's
  (`Caught`), and that while the status is BRK it is the turn of such an item. A
  call walks the body of the function in the value it takes apart, so the proof
  needs that values hold nodes of the tree (`Good`) once more.
* `CallsLeaveResults` and `ProgramsEndClean`, of `Eval`: `CallLeavesResult`, and
  `CleanEnd` where no error was reported, for every set of programs and every
  stack size, under three conditions that say what the interpreter supports.
  `JumpsInLoops` and `BodiesReturn` are conditions on the trees: a `brk` or `nxt`
  leaves nothing but blocks of a loop's body, and every function's body ends in
  a `ret` on every way, with no `ret` elsewhere (the run `early_return` shows
  what a `ret` elsewhere does). TLC evaluates both, with the sets they ask for,
  on the programs of `eval_ok` (`LeftBy`, `ReturnsIn`).
  `VoidsAreStatements` is a condition on the run, since the callee of a call is
  a value: what leaves nothing on the stack, an assignment or a call of `print`,
  is a statement. It is an invariant of `eval_ok`.
  The inductive invariant `StackInv` adds `BalanceInv` to `IInv` and `BreakInv`:
  every item of `todo` has an effect on the height of the value stack
  (`Effect`), some have a height of their own (`Own`: a statement begins where
  its frame began, a call comes back one above its callee's place), and the
  stack is as high as the list accounts for: there is a height for each item,
  starting at `vi` and ending at zero, in which the effect of each item leads to
  the height of the next (`Balanced`). A jump leaves out a stretch of the list,
  and lands at the right height because statements begin at the height of their
  frame. `Footing` says the same of the number of frames.
* `CallersAreUntouched`: `Spec => CallersUntouched` of `Eval`. `IInv` is too weak
  for it: it lets an item count on more frames than it needs, and does not know
  whose frame is whose. The invariant adds `Kept`: every frame of a function has
  an item of `todo` waiting for it (`FunctionsAwaited`), calls are apart by at
  least a frame (`CallsApart`), no function's frame lies between an unfinished
  assignment and its variable (`TargetsOwn`), and the parts of an expression
  count on exactly the frames there are (`ExpressionsLead`, `Level`), since only
  statements open a frame that a `ret` or `brk` leaves behind. `Kept` is stated
  of runs without a reported error only: an error jumps out of expressions and
  leaves frames above the items that come next. Finding where an expression is
  needs `GrammarAssumption` of `Eval`, that the parser puts expressions where
  expressions belong; TLC evaluates it for the programs of the `eval_` runs.
* `WindowConsistent` and `WindowIsStream`: `OneToken` and the refinement
  `Spec => ImplementsStream` of `WindowUse`, for every length of the ring and
  of the source. `OneToken` is inductive with the type invariant: between two
  calls the start equals the end or is one behind it, which is what keeps the
  subtraction at the turn of the ring from wrapping. The refinement maps the
  abstract position to the tokens read less the one that waits.
* `IndexStaysInside`, `TokensInOrder` and `EndStays`: `[]TypeOK`, `[]InOrder` and
  `EndIsFinal` of `Lexer`, for every set of texts. They are inductive together with the fact
  that an answer of no leaves the index at the end of the text; the work is in
  the lemmas on `RunEnd`, which is where a scan stops: never past the NUL, and
  past its beginning whenever the first character is one of the run.
* `TokensAreLongest` and `KindsAreRight`: `[]LongestMatch` and `[]KindsRight`, for
  every set of texts. The inductive invariant is that the places of the tokens
  returned, followed by the places of the lexemes from the index on, are the
  places of all lexemes of the text. Each way of `lexer_next` is then a lemma:
  what it skips is white space or a comment, and what it takes is the longest
  lexeme at its place (a scan that stops leaves no longer one). `PlacesFrom` is a
  recursive function; that it unfolds everywhere (`PlacesUnfold`) is proved from
  the least place at which it would not.
* `ParserIsTyped`, `ScopesNest`, `PeekGoesOn`, `StatementsEat` and `LevelsBind`:
  properties of `Parser` for every set of token sequences, any length of the ring
  and any bounds on parameters and statements. Nothing is assumed of the
  sources: they may be wrong anywhere and end anywhere. The inductive invariant
  `IInv` has five parts.
  * `Typed`: which calls wait and which begin, that each has the node, the list
    and the tokens its label asks for, and that nodes and tokens named anywhere
    exist. Calls below the first are waiting ones, the list of statements of the
    source is the last.
  * `Scoped`: the scope is the node of the first block among the calls, and the
    *outer* of each block is that of the next block below it. `ScopeIsInnermost`
    alone is not inductive: leaving a block restores what its node remembers.
  * `Windowed`: the tokens consumed and the start of the ring differ by whole
    turns, and a token that waits is the last one read. At the end of the source
    `consume` moves the start one past `lookahead_end`, and that is where things
    may go wrong: at the turn of the ring the subtraction then wraps. It happens
    in one place only (an expression is missing, which is reported), and
    from there on the parser finds the end everywhere and consumes no more.
  * `Fed`: of a statement that has eaten nothing, only calls that begin are in
    progress, and there is a token. Each production then consumes.
  * `Levelled`: the calls above a right operand are of its level or tighter, what
    is returned to them binds tighter than the operator that waits, and the
    token after it is no operator that the operand should have taken. Until an
    error is reported no node is an error node, which is what makes the early
    return of `parse_infix_expr` harmless.

  `PeekGoesOn` and `StatementsEat` are stated under `RoomAtEnd`: a source with an
  error does not have a length one short of full turns of the ring. It is exactly
  the case of `parse_last_slot`, in which the properties are false; sources
  without an error need no such condition. `LevelsBind`, `ScopesNest` and
  `ParserIsTyped` hold in that case too.
* `DeclsAreKnown`: `[]BlocksKnowDecls` of `ParserTrees`, for every set of token
  sequences, wrong ones included, and any bounds: the list that `capture_set` reads is
  the declarations of the block, whatever the parser did on the way to it. The
  block of a declaration is decided when the node is made, by a field that every
  block sets and sets back, and its place in the tree only later, when the
  productions around it return; that the two agree is what has to be shown. The
  inductive invariant (`TreesNest`) adds to `IInv` that the trees are `Treed`:
  there are two histories, `up`, the node that was being parsed when a node was
  made, and `home`, the block of that moment, such that
  * the children of a node were made as its parts, or before it as parts of the
    same node (`Parted`: the left operand of an infix operator is older than its
    parent); those of a block were all made as its parts;
  * each block has remembered its own `home`, and lists the declarations whose
    home it is, in falling order (`BlockOK`);
  * the nodes of the calls in progress are each a part of the next one, and what
    a call keeps or is handed is a part of the node it parses (`Stacked`);
  * nothing is dropped (`Covered`): a node is a child, or in the keeping of a
    call, or at the top.

  When the parser is done no call is left, so each node is a child or at the top.
  `DeclsUnder` is a recursive function over nodes: that one exists is proved with
  the least sets that hold the declarations of the children, since a child may
  have been made before its parent or after it. That it is the declarations of
  that home follows, in both directions, from a last counterexample.
* `OperatorsInStep` and `PrintInStep`: `[]LockStep` and `[]PrintsAlike` of
  `RuntimeOps`, for every `Width` and every `Depth`, so for the 64 bits of the
  code and all expressions. The invariant is that the two stacks hold `Twins`,
  a value and *its* object: `LockStep` itself says too little of a float or a
  function to be inductive. Each operator is then a lemma: defined on the same
  pairs (`SameBinaries`), with twins for results (`BinaryTwins`). The machine's
  bitwise operators are constants of the module, and all that is assumed of
  them is what `and` and `or` make of the bits 0 and 1 (`BitAssumption`), since
  the library combines Booleans bit by bit.

Only model-checked:

* liveness (`Terminates`, `ErrorEnds`, `ReachesEnd`: out of the prover's reach);
* what is said with recursion over data: `ComputesMeaning` (an evaluator),
  `TreeOfSource` (it needs an invariant on the places every production has read,
  on top of `Treed`), and all of `Compiled`, whose programs are emitted by
  recursive operators;
* `Accepted` of `Parser`, which speaks of a set of sources that the
  configuration gives (for every source it would need a grammar of the
  language), and `VoidsAreStatements` of `Eval`, which is a condition on a run:
  which calls are calls of `print` shows only when they are made.

## Not modelled, and why

* The growth of the node array (`context.c`): whether `the_node = parse(...)`
  (parser.c:764) writes to the old array depends on an order of evaluation that
  C leaves open; with one order nothing can go wrong, with the other every
  growth at that place does, and a model would add nothing to saying so.
* Who owns each heap value of the interpreter. `eval.c` frees a function value
  twice when a capture is missing (383; `FreesTwice` in `Eval`), drops
  destinations that were never set (394, 513, 768) and leaks its frames (165):
  the ownership properties one would state are false on simple programs.
* Digits of floats, the text of literals, diagnostics and their wording.
* The Swift accessors, the drivers (input and output), the hash function (a
  constant of `SymTable`), LLVM types and attributes.
