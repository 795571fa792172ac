------------------------------ MODULE Compiled ------------------------------
(***************************************************************************)
(* What the code generator makes of a program, and its execution with the  *)
(* runtime library: verified first, then instruction by instruction.  Only *)
(* the ownership of environments is followed: a condition goes either way. *)
(***************************************************************************)
EXTENDS Emitter

CONSTANTS
    Programs,    \* sequences of functions, global variables and statements
    MaxBlocks    \* bound of the model: allocations of an execution

VARIABLES
    program,
    module,   \* the code emitted: blocks, functions, and an error if there was one
    status,   \* "emitted", "failed", "rejected", "running" and how it ends
    frames,   \* the call stack
    globals,  \* the values of the global variables
    heap

vars == <<program, module, status, frames, globals, heap>>

(* `to` is where the caller wants the result.                              *)
Frame(fun, args, env, to) ==
    [block |-> module.functions[fun].entry, at |-> 1, temps |-> <<>>, slots |-> <<>>,
     args |-> args, env |-> env, to |-> to]

Top         == Last(frames)
Caller      == frames[Len(frames) - 1]
Instruction == module.blocks[Top.block].code[Top.at]

Value(operand) == IF operand.temp = 0 THEN operand.value ELSE Top.temps[operand.temp]

(* Nothing has been stored in the place, or it has been freed.             *)
IsUndefined(loc) ==
    CASE loc.in = "slot" -> loc.n \notin DOMAIN Top.slots
      [] loc.in \in {"arg", "global"} -> FALSE
      [] loc.in = "env"  -> ~IsLive(heap, Top.env)

At(loc) ==
    CASE loc.in = "slot" -> Top.slots[loc.n]
      [] loc.in = "arg"  -> Caller.slots[Top.args[loc.n]]
      [] loc.in = "env"  -> heap.blocks[Top.env].values[loc.n]
      [] loc.in = "global" -> globals[loc.n]

Advanced(frame) == [frame EXCEPT !.at = @ + 1]
With(frame)     == [frames EXCEPT ![Len(frames)] = frame]
Put(t, value)   == With([Advanced(Top) EXCEPT !.temps = (t :> value) @@ @])

StatusOf(h) == IF h.undefined THEN "undefined" ELSE "running"
Stop(how)   == status' = how /\ UNCHANGED <<frames, heap>>

Executes(op)  == status = "running" /\ Instruction.op = op /\ UNCHANGED <<program, module>>
Evaluates(op) == Executes(op) /\ UNCHANGED globals

Init ==
    /\ program \in Programs
    /\ module = LET e == Emit(program)
                IN  [blocks |-> e.blocks, functions |-> e.functions,
                     globals |-> Len(e.globals), error |-> e.error]
    /\ status = "emitted"
    /\ frames = <<>>
    /\ globals = [n \in 1 .. module.globals |-> Plain]
    /\ heap = EmptyHeap

(* Emitter.emit(program:): an error of the generator, or of the verifier,  *)
(* leaves no executable.                                                   *)
Verify ==
    /\ status = "emitted"
    /\ status' = IF module.error # "" THEN "failed"
                 ELSE IF ~(CallsFit(module) /\ Verifies(module.blocks)) THEN "rejected" ELSE "running"
    /\ frames' = IF status' = "running" THEN <<Frame(1, <<>>, 0, 0)>> ELSE <<>>
    /\ UNCHANGED <<program, module, globals, heap>>

-----------------------------------------------------------------------------
(* Instructions.                                                           *)

DoLoad ==
    LET i == Instruction
    IN  /\ Evaluates("load")
        /\ IF IsUndefined(i.from) THEN Stop("undefined")
           ELSE frames' = Put(i.to, At(i.from)) /\ UNCHANGED <<status, heap>>

(* The value that was in the place is forgotten.                           *)
DoStore ==
    LET value == Value(Instruction.value)
        loc   == Instruction.to
        next  == With(Advanced(Top))
        last  == Len(frames)
    IN  /\ Executes("store")
        /\ globals' = IF loc.in = "global" THEN [globals EXCEPT ![loc.n] = value] ELSE globals
        /\ CASE loc.in = "global" -> frames' = next /\ UNCHANGED <<status, heap>>
             [] loc.in = "slot" ->
                    /\ frames' = [next EXCEPT ![last].slots = (loc.n :> value) @@ @]
                    /\ UNCHANGED <<status, heap>>
             [] loc.in = "arg" ->
                    /\ frames' = [next EXCEPT ![last - 1].slots[Top.args[loc.n]] = value]
                    /\ UNCHANGED <<status, heap>>
             [] loc.in = "env" ->
                    IF IsUndefined(loc) THEN Stop("undefined")
                    ELSE /\ frames' = next
                         /\ heap' = [heap EXCEPT !.blocks[Top.env].values[loc.n] = value]
                         /\ UNCHANGED status

DoCopy ==
    LET copy == Copy(heap, Value(Instruction.value))
    IN  /\ Evaluates("copy")
        /\ Len(copy.heap.blocks) <= MaxBlocks
        /\ heap' = copy.heap
        /\ frames' = Put(Instruction.to, copy.value)
        /\ status' = StatusOf(heap')

DoDrop ==
    /\ Evaluates("drop")
    /\ heap' = Drop(heap, Value(Instruction.value))
    /\ frames' = With(Advanced(Top))
    /\ status' = StatusOf(heap')

(* What a name is bound to is dropped where it is.                         *)
DoDropAt ==
    /\ Evaluates("dropAt")
    /\ IF IsUndefined(Instruction.from) THEN Stop("undefined")
       ELSE /\ heap' = Drop(heap, At(Instruction.from))
            /\ frames' = With(Advanced(Top))
            /\ status' = StatusOf(heap')

(* The captured values are copied into the function's environment.         *)
DoClosure ==
    LET i == Instruction
        filled == NewEnvironment(heap, [k \in DOMAIN i.captures |-> At(i.captures[k])])
    IN  /\ Evaluates("closure")
        /\ IF \E k \in DOMAIN i.captures : IsUndefined(i.captures[k]) THEN Stop("undefined")
           ELSE /\ heap' = IF i.captures = <<>> THEN heap ELSE filled
                /\ Len(heap'.blocks) <= MaxBlocks
                /\ frames' = With([Advanced(Top) EXCEPT !.slots =
                                (i.to.n :> Function(i.fun, IF i.captures = <<>> THEN 0
                                                           ELSE NextBlock(heap))) @@ @])
                /\ status' = StatusOf(heap')

(* The callee gets the arguments' places and its own environment, if it    *)
(* takes as many; nothing is said of a call that does not fit.             *)
DoCall ==
    LET callee == Value(Instruction.callee)
    IN  /\ Evaluates("call")
        /\ IF Len(Instruction.args) # module.functions[callee.fun].arity
           THEN Stop("mismatched")
           ELSE /\ frames' = Append(With(Advanced(Top)),
                        Frame(callee.fun, Instruction.args, callee.env, Instruction.to))
                /\ UNCHANGED <<status, heap>>

DoReturn ==
    LET value == Value(Instruction.value)
    IN  /\ Evaluates("ret")
        /\ IF Len(frames) = 1 THEN Stop("done")
           ELSE /\ frames' = [Front(frames) EXCEPT ![Len(frames) - 1].temps =
                                (Top.to :> value) @@ @]
                /\ UNCHANGED <<status, heap>>

(* The library has no operator for functions.                              *)
DoBuiltin ==
    /\ Evaluates("builtin")
    /\ IF \E k \in DOMAIN Instruction.values : Value(Instruction.values[k]).fun # 0
       THEN Stop("aborted")
       ELSE frames' = With(Advanced(Top)) /\ UNCHANGED <<status, heap>>

Goto(b) == frames' = With([Top EXCEPT !.block = b, !.at = 1]) /\ UNCHANGED <<status, heap>>

DoJump   == Evaluates("br") /\ Goto(Instruction.to)
DoBranch == Evaluates("branch") /\ \E b \in {Instruction.then, Instruction.else} : Goto(b)

DoCheck ==
    LET isFunction == Value(Instruction.value).fun # 0
    IN  /\ Evaluates("check")
        /\ Goto(IF isFunction <=> Instruction.kind = "function" THEN Instruction.then
                ELSE Instruction.else)

DoTrap == Evaluates("trap") /\ Stop("trapped")

Next ==
    \/ Verify \/ DoLoad \/ DoStore \/ DoCopy \/ DoDrop \/ DoDropAt \/ DoClosure
    \/ DoCall \/ DoReturn \/ DoBuiltin \/ DoJump \/ DoBranch \/ DoCheck \/ DoTrap

Spec == Init /\ [][Next]_vars

-----------------------------------------------------------------------------
(* Programs that keep clear of what the generator does not handle.         *)

RECURSIVE Parts(_)
Parts(n) ==
    {n} \cup UNION {Parts(m) : m \in SubNodes(n)}
        \cup (IF n.kind = "fun" THEN Parts(n.body) ELSE {})

PartsOf == UNION {Parts(program[d]) : d \in DOMAIN program}

RECURSIVE IsRef(_)
IsRef(x) == x.kind = "ref" \/ (x.kind = "paren" /\ IsRef(x.subexpr))

(* No variable begins as another one or with a use of itself, and none is  *)
(* a statement.                                                            *)
Disciplined ==
    \A n \in PartsOf :
        /\ n.kind = "var" => /\ ~IsRef(n.init)
                             /\ \A m \in Parts(n.init) : m.kind = "ref" => m.name # n.name
        /\ n.kind = "expr_stmt" => ~IsRef(n.expr)

IsCall(x) == x.kind = "apply" \/ (x.kind = "paren" /\ x.subexpr.kind = "apply")

(* The places of a block's variables and functions of a name.              *)
Declarations(brace, name) ==
    {k \in DOMAIN brace.stmts :
        brace.stmts[k].kind \in {"var", "fun"} /\ brace.stmts[k].name = name}

(* No assignment, no name that a block declares twice, and no result of a  *)
(* call but in a declaration or as a statement.                            *)
Tidy ==
    \A n \in PartsOf :
        /\ n.kind = "brace" =>
               \A name \in Scope(n) : Cardinality(Declarations(n, name)) <= 1
        /\ n.kind = "binary" => n.op # "="
        /\ n.kind \notin {"var", "expr_stmt"} => \A m \in SubNodes(n) : ~IsCall(m)

(* No branch of a conditional goes on in a block other than its first.     *)
Straight(brace) ==
    \A n \in Parts(brace) : n.kind \notin {"if", "while", "apply"}

Flat ==
    \A n \in PartsOf :
        n.kind = "if" => Straight(n.then) /\ (n.else.kind = "none" \/ Straight(n.else))

-----------------------------------------------------------------------------

Live == {b \in 1 .. Len(heap.blocks) : IsLive(heap, b)}

(* The variables and arguments, and the places in environments, that hold  *)
(* an environment.                                                         *)
SlotsWith(env) ==
    UNION {{<<f, n>> : n \in {n \in DOMAIN frames[f].slots : frames[f].slots[n].env = env}}
           : f \in DOMAIN frames}
CellsWith(env) ==
    UNION {{<<b, n>> : n \in {n \in DOMAIN heap.blocks[b].values :
                                 heap.blocks[b].values[n].env = env}} : b \in Live}

GlobalsWith(env) == {n \in DOMAIN globals : globals[n].env = env}

(* The environments a value keeps.                                         *)
RECURSIVE Kept(_)
Kept(value) ==
    IF value.env = 0 THEN {}
    ELSE {value.env} \cup UNION {Kept(v) : v \in Range(heap.blocks[value.env].values)}

(* No environment has two owners, in programs that declare no variable as  *)
(* another's value: what is stored is the result of a call or a copy, so   *)
(* that each of them can be dropped where its scope ends (Emitter.swift:   *)
(* 317, 549, 603; cocodol_rt.c:38).                                        *)
SingleOwner ==
    (\E env \in Live : Cardinality(SlotsWith(env)) + Cardinality(CellsWith(env))
                        + Cardinality(GlobalsWith(env)) > 1)
        => ~Disciplined

(* Nothing that was freed is copied, dropped, called or read, on any way   *)
(* through conditionals, loops, brk, nxt, ret and calls; nor is a variable *)
(* dropped that was not declared on that way (Emitter.swift:770, 786, 808).*)
NothingDangles == status = "undefined" => ~Disciplined

(* And nothing is left in the end but what global variables hold, in       *)
(* programs that assign to no variable, declare no name twice in a block   *)
(* and pass no result on: every exit of a scope drops all it owns.         *)
ScopesFree ==
    status = "done" /\ ~(Live \subseteq UNION {Kept(globals[n]) : n \in DOMAIN globals})
        => ~(Disciplined /\ Tidy)

(* The verifier rejects no program whose conditionals have branches        *)
(* without conditionals, loops and calls in them, and whose calls fit.     *)
FlatIsAccepted == status = "rejected" => ~Flat \/ ~CallsFit(module)

(* The verifier rejects nothing the generator emits: "If both branches     *)
(* need to proceed, we must create a block that "joins" the control flow." *)
(* (Emitter.swift:693)                                                     *)
VerifierAccepts == status # "rejected"
=============================================================================
