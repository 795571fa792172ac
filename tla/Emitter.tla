------------------------------ MODULE Emitter -------------------------------
(***************************************************************************)
(* Emitter.swift: the code it makes of a program, as far as blocks, jumps  *)
(* and the ownership of values go.  A program is a sequence of functions,  *)
(* global variables and runs of statements.  What is handed from method to *)
(* method (the builder's position, the contexts of the functions and loops *)
(* being emitted, and the EmitterAction a statement returns) is a record,  *)
(* `e` below.                                                              *)
(***************************************************************************)
EXTENDS RuntimeHeap, FiniteSets, CaptureSet

(* Operands of instructions: a value the program computes, or a constant.  *)
Temp(n)     == [temp |-> n, value |-> Plain]
Constant(v) == [temp |-> 0, value |-> v]

(* Where a name is bound: a slot of the function, its n-th argument (which *)
(* is a slot of the caller), the n-th value of its environment, or the     *)
(* n-th global variable.                                                   *)
Slot(n)   == [in |-> "slot", n |-> n]
Arg(n)    == [in |-> "arg", n |-> n]
Env(n)    == [in |-> "env", n |-> n]
Global(n) == [in |-> "global", n |-> n]

NoNames       == [name \in {} |-> Slot(0)]
Proceed       == [unwind |-> 0]
UnwindTo(dest) == [unwind |-> dest]

-----------------------------------------------------------------------------
(* The builder.                                                            *)

(* A name for a value, a slot or a node that no other has.                 *)
Fresh(e) == e.fresh
Take(e)  == [e EXCEPT !.fresh = @ + 1]

Fail(e, what) == [e EXCEPT !.error = IF @ = "" THEN what ELSE @]

Instr(e, instruction) == [e EXCEPT !.blocks[e.at].code = Append(@, instruction)]

NextBlockId(e) == Len(e.blocks) + 1
MakeBlock(e)   == [e EXCEPT !.blocks = Append(@, [fun |-> e.blocks[e.at].fun, code |-> <<>>])]
MoveTo(e, b)   == [e EXCEPT !.at = b]

Jump(b)          == [op |-> "br", to |-> b]
Branch(yes, no)  == [op |-> "branch", then |-> yes, else |-> no]
Check(v, kind, yes, no) ==
    [op |-> "check", value |-> v, kind |-> kind, then |-> yes, else |-> no]
Load(t, loc)     == [op |-> "load", to |-> t, from |-> loc]
Store(v, loc)    == [op |-> "store", value |-> v, to |-> loc]
CopyTo(t, v)     == [op |-> "copy", to |-> t, value |-> v]
DropValue(v)     == [op |-> "drop", value |-> v]
DropAt(loc)      == [op |-> "dropAt", from |-> loc]
Closure(loc, fun, locs) == [op |-> "closure", to |-> loc, fun |-> fun, captures |-> locs]
CallOf(t, v, slots) == [op |-> "call", to |-> t, callee |-> v, args |-> slots]
Builtin(values)  == [op |-> "builtin", values |-> values]
Return(v)        == [op |-> "ret", value |-> v]
Trap             == [op |-> "trap"]

Terminators == {"br", "branch", "check", "ret", "trap"}

-----------------------------------------------------------------------------
(* The contexts of functions.                                              *)

Context(e) == Last(e.contexts)
Innermost(e) == Len(Context(e).scopes)

Bind(e, name, loc) ==
    [e EXCEPT !.contexts[Len(e.contexts)].scopes[Innermost(e)].bindings = (name :> loc) @@ @]

PushScope(e, node) ==
    [e EXCEPT !.contexts[Len(e.contexts)].scopes =
        Append(@, [node |-> node, bindings |-> NoNames])]

PopScope(e) == [e EXCEPT !.contexts[Len(e.contexts)].scopes = Front(@)]

(* The scopes of the function that bind a name.                            *)
Binding(e, name) ==
    {i \in 1 .. Innermost(e) : name \in DOMAIN Context(e).scopes[i].bindings}

IsBound(e, name)      == Binding(e, name) # {}
ValueBoundTo(e, name) == Context(e).scopes[Max(Binding(e, name))].bindings[name]

Named(e, name) == {f \in 1 .. Len(e.functions) : e.functions[f].name = name}
GlobalFunctions(e, name) == Named(e, <<name>>)

IsGlobal(e, name)    == name \in Range(e.globals)
GlobalPlace(e, name) == Global(CHOOSE n \in DOMAIN e.globals : e.globals[n] = name)

(* A function with the code of its first block.                            *)
AddFunction(e, name, arity, code) ==
    [e EXCEPT !.functions = Append(@, [name |-> name, arity |-> arity,
                                       entry |-> NextBlockId(e)]),
              !.blocks = Append(@, [fun |-> Len(e.functions) + 1, code |-> code])]

(* The drops of what a scope binds, and of what the scopes from the        *)
(* innermost out to `last` bind.                                           *)
DropScope(e, scope) ==
    FoldLeft(LAMBDA f, loc : Instr(f, DropAt(loc)), e, SetToSeq(Range(scope.bindings)))

DropScopes(e, last) ==
    FoldLeft(DropScope, e, Reverse(SubSeq(Context(e).scopes, last, Innermost(e))))

-----------------------------------------------------------------------------
(* Expressions.  Each method returns the emitter and the operand.          *)

Result(e, operand) == [e |-> e, operand |-> operand]

(* The code goes on in a new block if the value is of the kind; otherwise  *)
(* the program traps.                                                      *)
EmitAssert(r, kind) ==
    LET fail == NextBlockId(r.e)
        next == fail + 1
        checked == Instr(MakeBlock(MakeBlock(r.e)), Check(r.operand, kind, next, fail))
    IN  MoveTo(Instr(MoveTo(checked, fail), Trap), next)

EmitCopy(r) ==
    Result(Take(Instr(r.e, CopyTo(Fresh(r.e), r.operand))), Temp(Fresh(r.e)))

EmitStore(r, loc) == Instr(r.e, Store(r.operand, loc))

EmitLoad(e, loc) == Result(Take(Instr(e, Load(Fresh(e), loc))), Temp(Fresh(e)))

(* The first use of print as a value makes the function that wraps it; a   *)
(* later one is handed the function alone, which is not an object: no      *)
(* executable comes of the program, and the model says so at once.         *)
EmitPrint(e) ==
    LET wrapper == <<"_cocodol_print.wrapper">>
        code == <<Load(Fresh(e), Arg(1)), Return(Constant(Plain))>>
    IN  IF Named(e, wrapper) # {} THEN Result(Fail(e, "not an object"), Constant(Plain))
        ELSE Result(AddFunction(Take(e), wrapper, 1, code),
                    Constant(Function(Len(e.functions) + 1, 0)))

(* A reference loads the value, and leaves it where it is.                 *)
EmitRef(name, e) ==
    LET functions == GlobalFunctions(e, name)
    IN  CASE name = "print"    -> EmitPrint(e)
          [] name # "print" /\ IsBound(e, name) -> EmitLoad(e, ValueBoundTo(e, name))
          [] OTHER -> IF IsGlobal(e, name) THEN EmitLoad(e, GlobalPlace(e, name))
                      ELSE IF functions # {}
                      THEN Result(e, Constant(Function(Max(functions), 0)))
                      ELSE Result(Fail(e, "unbound"), Constant(Plain))

RECURSIVE EmitExpr(_, _), EmitStmt(_, _)

(* The place of a name that can be assigned to.                            *)
IsLvalue(e, name) == IsBound(e, name) \/ IsGlobal(e, name)
Lvalue(e, name)   == IF IsBound(e, name) THEN ValueBoundTo(e, name) ELSE GlobalPlace(e, name)

(* The right side is copied into the place of the left, over what it held. *)
EmitAssignment(x, e) ==
    IF x.lhs.kind # "ref" THEN Result(Fail(e, "lvalue"), Constant(Plain))
    ELSE IF ~IsLvalue(e, x.lhs.name) THEN Result(Fail(e, "unbound"), Constant(Plain))
    ELSE Result(EmitStore(EmitCopy(EmitExpr(x.rhs, e)), Lvalue(e, x.lhs.name)),
                Constant(Plain))

(* Mutant: the arguments are handed over without a copy.                   *)
EmitArg_borrowed(e, x) ==
    [EmitStore(EmitExpr(x, Take(e)), Slot(Fresh(e))) EXCEPT !.args = Append(@, Fresh(e))]

(* An argument is copied into a slot of its own.                           *)
EmitArg(e, x) ==
    [EmitStore(EmitCopy(EmitExpr(x, Take(e))), Slot(Fresh(e))) EXCEPT
        !.args = Append(@, Fresh(e))]

(* A call in place, with the arguments that were stored and are dropped    *)
(* after it.                                                               *)
CallInPlace(e, operand, outer) ==
    LET called == Take(Instr(e, CallOf(Fresh(e), operand, e.args)))
        drops  == FoldLeft(LAMBDA f, slot : Instr(f, DropAt(Slot(slot))), called, e.args)
    IN  Result([drops EXCEPT !.args = outer], Temp(Fresh(e)))

EmitArgs(xs, e) == FoldLeft(EmitArg, [e EXCEPT !.args = <<>>], xs)

(* A function that is not global is checked after the arguments.           *)
CallValue(r, xs) ==
    CallInPlace(EmitAssert(Result(EmitArgs(xs, r.e), r.operand), "function"),
                r.operand, r.e.args)

EmitCall(x, e) ==
    LET global  == GlobalFunctions(e, x.callee.name)
    IN  IF x.callee.kind = "ref" /\ ~IsBound(e, x.callee.name) /\ global # {}
        THEN CallInPlace(EmitArgs(x.args, e), Constant(Function(Max(global), 0)), e.args)
        ELSE CallValue(EmitExpr(x.callee, e), x.args)

(* The built-in functions take their operands as they are.                 *)
AddOperand(r, operand) == [e |-> operand.e, values |-> Append(r.values, operand.operand)]
EndBuiltin(r) == Result(Instr(r.e, Builtin(r.values)), Constant(Plain))
EmitBuiltin(xs, e) ==
    EndBuiltin(FoldLeft(LAMBDA r, x : AddOperand(r, EmitExpr(x, r.e)),
                        [e |-> e, values |-> <<>>], xs))

IsPrint(x) == x.callee = [kind |-> "ref", name |-> "print"]

EmitExpr(x, e) ==
    CASE x.kind = "ref"   -> EmitRef(x.name, e)
      [] x.kind \in {"bool", "integer"} -> Result(e, Constant(Plain))
      [] x.kind = "paren" -> EmitExpr(x.subexpr, e)
      [] x.kind = "unary" -> EmitBuiltin(<<x.subexpr>>, e)
      [] x.kind = "binary" /\ x.op = "=" -> EmitAssignment(x, e)
      [] x.kind = "binary" /\ x.op # "=" -> EmitBuiltin(<<x.lhs, x.rhs>>, e)
      [] x.kind = "apply" /\ IsPrint(x) ->
            (* print takes anything: its operand is none of an operator.    *)
            IF Len(x.args) # 1 THEN Result(Fail(e, "argument count"), Constant(Plain))
            ELSE Result(EmitExpr(x.args[1], e).e, Constant(Plain))
      [] OTHER -> EmitCall(x, e)

-----------------------------------------------------------------------------
(* Statements.                                                             *)

Done(e, action) == [e EXCEPT !.action = action]

(* A statement after one that unwinds is not emitted.                      *)
EmitStmts(stmts, e) ==
    FoldLeft(LAMBDA f, s : IF f.action = Proceed /\ f.error = "" THEN EmitStmt(s, f) ELSE f,
             e, stmts)

(* A block drops what it binds, unless it was left before its end.         *)
EndBlock(e) ==
    PopScope(IF e.action = Proceed THEN DropScopes(e, Innermost(e)) ELSE e)

EmitBlock(brace, node, e) == EndBlock(EmitStmts(brace.stmts, PushScope(e, node)))

(* The name is bound before its initial value is computed, which is stored *)
(* as it is.                                                               *)
EmitVar(s, e) ==
    LET slot  == Slot(Fresh(e))
        bound == Bind(Take(e), s.name, slot)
    IN  EmitStore(IF s.init.kind = "none" THEN Result(bound, Constant(Plain))
                  ELSE EmitExpr(s.init, bound), slot)

(* The end of a function's code, and the builder back where it was.        *)
EndFunBody(e, decl, at) ==
    [(IF e.action = Proceed THEN Instr(e, Return(Constant(Plain)))
      ELSE IF e.action = UnwindTo(decl) THEN e ELSE Fail(e, "assert"))
     EXCEPT !.contexts = Front(@), !.at = at, !.action = Proceed]

(* The code of a function; `captured` is the sequence of its captures.     *)
EmitFunBody(d, fun, captured, e) ==
    LET decl  == Fresh(e)
        entry == NextBlockId(e)
        names == [x \in ToSet(d.params) |-> Arg(Max({i \in DOMAIN d.params : d.params[i] = x}))]
                 @@ [x \in ToSet(captured) |-> Env(CHOOSE i \in DOMAIN captured : captured[i] = x)]
        begun == [Take(Take(e)) EXCEPT
                     !.blocks = Append(@, [fun |-> fun, code |-> <<>>]),
                     !.at = entry,
                     !.functions[fun].entry = entry,
                     !.contexts = Append(@, [name |-> d.name, decl |-> decl,
                                     scopes |-> <<[node |-> decl, bindings |-> names]>>])]
    IN  EndFunBody(EmitBlock(d.body, decl + 1, begun), decl, e.at)

(* The mangled name of a function declared in a block: the functions it is *)
(* in, from the inside out, with the depth of the block in each.  The code *)
(* runs the parts together; here they stay apart.                          *)
MangledName(d, e) ==
    LET Level(c) == <<Len(c.scopes) - 1, c.name>>
    IN  <<"_F">> \o FlattenSeq(Reverse([i \in 1 .. Len(e.contexts) - 1 |->
                                            Level(e.contexts[i + 1])]))
                \o <<d.name>>

(* A function declared in a block is an object, bound after its captures   *)
(* have been looked up.                                                    *)
EmitLocalFun(d, e) ==
    LET captured == SetToSeq(Captures(d))
        unbound  == \E i \in DOMAIN captured : ~IsBound(e, captured[i])
        taken    == Named(e, MangledName(d, e)) # {}
        fun  == Len(e.functions) + 1
        slot == Slot(Fresh(e))
        e1 == [Take(e) EXCEPT !.functions =
                  Append(@, [name |-> MangledName(d, e), arity |-> Len(d.params), entry |-> 0])]
        e2 == Instr(e1, Closure(slot, fun, [i \in DOMAIN captured |->
                                               ValueBoundTo(e, captured[i])]))
    IN  IF taken THEN Fail(e, "duplicate function")
        ELSE IF unbound THEN Fail(e, "capture without a binding")
        ELSE EmitFunBody(d, fun, captured, Bind(e2, d.name, slot))

(* The condition of a conditional or a loop.                               *)
EmitCond(x, e) == EmitAssert(EmitExpr(x, e), "bool")

(* Mutant: the block of `then` does not jump to where the branches meet.   *)
Meet_no_join(e, then, thenBB) ==
    CASE then = Proceed /\ e.action = Proceed ->
            MoveTo(Instr(MakeBlock(e), Jump(NextBlockId(e))), NextBlockId(e))
      [] then # Proceed /\ e.action # Proceed -> e
      [] OTHER -> Done(MoveTo(e, IF then = Proceed THEN thenBB ELSE thenBB + 1), Proceed)

(* When both branches go on they meet in a new block, and when one does    *)
(* the code goes on behind it: in the block in which that branch *began*.  *)
(* `then` is the action of the first.                                      *)
Meet(e, then, thenBB) ==
    CASE then = Proceed /\ e.action = Proceed ->
            LET join == NextBlockId(e)
            IN  MoveTo(Instr(MoveTo(Instr(MakeBlock(e), Jump(join)), thenBB), Jump(join)), join)
      [] then # Proceed /\ e.action # Proceed ->
            Done(e, IF then = e.action THEN then ELSE UnwindTo(Context(e).decl))
      [] OTHER -> Done(MoveTo(e, IF then = Proceed THEN thenBB ELSE thenBB + 1), Proceed)

EmitElse(s, e) ==
    CASE s.else.kind = "none"           -> e
      [] s.else.kind \in {"brace", "if"} -> EmitStmt(s.else, e)
      [] OTHER                          -> Fail(e, "assert")
EndThen(s, e, thenBB) ==
    Meet(EmitElse(s, Done(MoveTo(e, thenBB + 1), Proceed)), e.action, thenBB)

EmitBranches(s, e) ==
    LET thenBB   == NextBlockId(e)
        branched == Instr(MakeBlock(MakeBlock(e)), Branch(thenBB, thenBB + 1))
    IN  EndThen(s, EmitBlock(s.then, Fresh(e), MoveTo(Take(branched), thenBB)), thenBB)

EmitIf(s, e) == EmitBranches(s, EmitCond(s.cond, e))

EndWhile(e, head, tail) ==
    [Done(MoveTo(IF e.action = Proceed THEN Instr(e, Jump(head)) ELSE e, tail), Proceed)
     EXCEPT !.loops = Front(@)]

EmitLoop(s, head, e) ==
    LET body == NextBlockId(e)
        loop == [node |-> Fresh(e), body |-> Fresh(e) + 1, head |-> head, tail |-> body + 1]
        branched == [Take(Take(Instr(MakeBlock(MakeBlock(e)), Branch(body, body + 1)))) EXCEPT
                        !.loops = Append(@, loop)]
    IN  EndWhile(EmitBlock(s.body, loop.body, MoveTo(branched, body)), head, body + 1)

EmitWhile(s, e) ==
    LET head == NextBlockId(e)
    IN  EmitLoop(s, head, EmitCond(s.cond, MoveTo(Instr(MakeBlock(e), Jump(head)), head)))

(* Mutant: the body of the loop itself is not left.                        *)
EmitLeave_inner_only(target, e) ==
    LET loop   == Last(e.loops)
        bodies == {i \in 1 .. Innermost(e) : Context(e).scopes[i].node = loop.body}
        last   == IF bodies = {} THEN 1 ELSE Max(bodies) + 1
    IN  Done(Instr(DropScopes(e, last), Jump(loop[target])), UnwindTo(loop.node))

(* brk and nxt: all scopes are dropped up to the one of the loop's body,   *)
(* or all of the function when the loop is not in it.                      *)
EmitLeave(target, e) ==
    LET loop   == Last(e.loops)
        bodies == {i \in 1 .. Innermost(e) : Context(e).scopes[i].node = loop.body}
        last   == IF bodies = {} THEN 1 ELSE Max(bodies)
    IN  IF e.loops = <<>> THEN Fail(e, "outside of a loop")
        ELSE Done(Instr(DropScopes(e, last), Jump(loop[target])), UnwindTo(loop.node))

(* The value is copied before the scopes are dropped, all but the first,   *)
(* where the arguments are.                                                *)
EndRet(r) ==
    Done(Instr(DropScopes(r.e, 2), Return(r.operand)), UnwindTo(Context(r.e).decl))

EmitRet(s, e) ==
    IF Context(e).decl = 0 THEN Fail(e, "outside of a function")
    ELSE EndRet(EmitCopy(EmitExpr(s.expr, e)))

DropResult(r) == Instr(r.e, DropValue(r.operand))
EmitExprStmt(s, e) == DropResult(EmitExpr(s.expr, e))

EmitStmt(s, e) ==
    CASE s.kind = "var"   -> EmitVar(s, e)
      [] s.kind = "fun"   -> EmitLocalFun(s, e)
      [] s.kind = "expr_stmt" -> EmitExprStmt(s, e)
      [] s.kind = "brace" -> EmitBlock(s, Fresh(e), Take(e))
      [] s.kind = "if"    -> EmitIf(s, e)
      [] s.kind = "while" -> EmitWhile(s, e)
      [] s.kind = "brk"   -> EmitLeave("tail", e)
      [] s.kind = "nxt"   -> EmitLeave("head", e)
      [] s.kind = "ret"   -> EmitRet(s, e)

(* The end of an initialiser, and its call: the result is stored as it is. *)
EndInitializer(r, fun, main) ==
    LET called == Instr(MoveTo(Instr(r.e, Return(r.operand)), main),
                        CallOf(Fresh(r.e), Constant(Function(fun, 0)), <<>>))
    IN  Instr(Take(called), Store(Temp(Fresh(r.e)), Global(Len(r.e.globals))))

(* A global variable, whose initial value is computed by a function of its *)
(* own.  LLVM gives it another name if a function has the name, so that no *)
(* reference finds it.                                                     *)
EmitGlobal(d, e) ==
    LET name  == IF GlobalFunctions(e, d.name) = {} THEN d.name ELSE ""
        added == [e EXCEPT !.globals = Append(@, name)]
    IN  IF IsGlobal(e, d.name) THEN Fail(e, "duplicate identifier")
        ELSE IF d.init.kind = "none" THEN added
        ELSE EndInitializer(
                 EmitExpr(d.init, MoveTo(AddFunction(added, <<d.name, "initializer">>, 0, <<>>),
                                         NextBlockId(e))),
                 Len(e.functions) + 1, e.at)

(* The declarations of a program, after its functions are declared.  No    *)
(* call fits main, which has no parameter for an environment.              *)
Emit(program) ==
    LET functions == SelectSeq(program, LAMBDA d : d.kind = "fun")
        names     == {functions[i].name : i \in DOMAIN functions} \cup {"main"}
        start == [blocks |-> <<[fun |-> 1, code |-> <<>>]>>, at |-> 1, fresh |-> 1,
                  error |-> IF Cardinality(names) = Len(functions) + 1 THEN ""
                            ELSE "duplicate function", action |-> Proceed, args |-> <<>>, loops |-> <<>>,
                  globals |-> <<>>,
                  functions |-> <<[name |-> <<"main">>, arity |-> -1, entry |-> 1]>> \o
                      [i \in DOMAIN functions |->
                          [name |-> <<functions[i].name>>, arity |-> Len(functions[i].params),
                           entry |-> 0]],
                  contexts |-> <<[name |-> "", decl |-> 0,
                                  scopes |-> <<[node |-> 0, bindings |-> NoNames]>>]>>]
        EmitDecl(e, d) ==
            IF e.error # "" THEN e
            ELSE IF d.kind = "top" THEN
                FoldLeft(LAMBDA f, s : Done(EmitStmt(s, f), Proceed), e, d.stmts)
            ELSE IF d.kind = "var" THEN EmitGlobal(d, e)
            ELSE EmitFunBody(d, Max(GlobalFunctions(e, d.name)), <<>>, e)
    IN  Instr(FoldLeft(EmitDecl, start, program), Return(Constant(Plain)))

(* What module.verify() demands: calls of functions, other than through a  *)
(* value, with as many arguments as they take; blocks with one terminator, *)
(* at the end, and jumps within the function.                              *)
CallsFit(module) ==
    \A b \in 1 .. Len(module.blocks) :
        \A k \in 1 .. Len(module.blocks[b].code) :
            LET i == module.blocks[b].code[k]
            IN  i.op = "call" /\ i.callee.temp = 0 /\ i.callee.value.fun # 0
                    => Len(i.args) = module.functions[i.callee.value.fun].arity

Targets(i) ==
    CASE i.op = "br" -> {i.to}
      [] i.op \in {"branch", "check"} -> {i.then, i.else}
      [] OTHER -> {}

Verifies(blocks) ==
    \A b \in 1 .. Len(blocks) :
        LET code == blocks[b].code
        IN  /\ code # <<>>
            /\ \A k \in 1 .. Len(code) : code[k].op \in Terminators <=> k = Len(code)
            /\ \A t \in Targets(code[Len(code)]) : blocks[t].fun = blocks[b].fun
=============================================================================
