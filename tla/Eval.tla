-------------------------------- MODULE Eval --------------------------------
(***************************************************************************)
(* eval.c: the interpreter, an AST walker with an explicit value stack.    *)
(*                                                                         *)
(* node_walk (ast.c) calls eval_node before and after the children of a    *)
(* node; some nodes start nested walks from inside eval_node and ignore    *)
(* what they return.  The C call stack of all the walks in progress is     *)
(* the sequence `todo`: the visits still to be made, the next one first.   *)
(* An item "decl" is a turn of the loop of eval_program, "walk" a call of  *)
(* node_walk that has not begun, "post" the visit after the children, and  *)
(* every other item the rest of an eval_node that is waiting for a nested  *)
(* walk.  A visit that returns false in the post phase cuts the walk short *)
(* up to the innermost waiting item.                                       *)
(*                                                                         *)
(* One action is one call of eval_node, or the part of one between two     *)
(* nested walks.  Values are trees, so that a deep copy is an assignment;  *)
(* rv_float, which goes the way of rv_integer, is left out.                *)
(***************************************************************************)
EXTENDS Integers, Sequences

CONSTANTS Node,           \* the nodes of the syntax trees
          Programs,       \* the programs: sequences of nodes, in source order
          CaptureSet(_),  \* capture_set (ast.c), see CaptureSet.tla
          StackSize       \* VALUE_STACK_SIZE, 1024 in the code

ASSUME StackAssumption == StackSize \in Nat /\ StackSize > 0

None == [kind |-> "none"]    \* ~0, no node

(* What the parser makes of each kind of node that has nodes under it.     *)
ASSUME ProgramsAssumption == Programs \in SUBSET Seq(Node)
ASSUME TreeAssumption ==
  \A n \in Node :
    /\ n.kind \in {"top", "brace"}     => n.stmts \in Seq(Node)
    /\ n.kind = "fun"                  => n.params \in Seq(STRING) /\ n.body \in Node
    /\ n.kind = "var"                  => n.init \in Node \cup {None}
    /\ n.kind = "binary"               => n.lhs \in Node /\ n.rhs \in Node
    /\ n.kind \in {"unary", "paren"}   => n.subexpr \in Node
    /\ n.kind = "apply"                => n.callee \in Node /\ n.args \in Seq(Node)
    /\ n.kind \in {"expr_stmt", "ret"} => n.expr \in Node
    /\ n.kind = "if"    => n.cond \in Node /\ n.then \in Node /\ n.else \in Node \cup {None}
    /\ n.kind = "while" => n.cond \in Node /\ n.body \in Node

(* The kinds with NODE_EXPR_BIT that are modelled.                         *)
ExprKinds == {"bool", "integer", "ref", "unary", "binary", "paren", "apply"}
IsExpr(n) == n.kind \in ExprKinds

(* Where the parser puts an expression, and where it puts none.            *)
ASSUME GrammarAssumption ==
  \A n \in Node :
    /\ n.kind \in {"top", "brace"}     => \A i \in 1 .. Len(n.stmts) : ~IsExpr(n.stmts[i])
    /\ n.kind = "var"                  => n.init = None \/ IsExpr(n.init)
    /\ n.kind = "binary"               => IsExpr(n.lhs) /\ IsExpr(n.rhs)
    /\ n.kind \in {"unary", "paren"}   => IsExpr(n.subexpr)
    /\ n.kind = "apply"                => /\ IsExpr(n.callee)
                                          /\ \A i \in 1 .. Len(n.args) : IsExpr(n.args[i])
    /\ n.kind \in {"expr_stmt", "ret"} => IsExpr(n.expr)
    /\ n.kind = "if"    => IsExpr(n.cond) /\ ~IsExpr(n.then) /\ ~IsExpr(n.else)
    /\ n.kind = "while" => IsExpr(n.cond) /\ ~IsExpr(n.body)

VARIABLES
  prog,     \* the program
  todo,     \* the visits left, see above
  stack,    \* EvalState.value_stack
  vi,       \* EvalState.value_index, the number of values on the stack
  frames,   \* the chain of EvalFrames, innermost last: kind and value_index
  locals,   \* the locals of each frame: names to values
  globals,  \* EvalState.globals
  status,   \* EvalState.status, the exit status
  outcome,  \* "run", "done", "abort" (a failed assert) or "undefined"
  output    \* what print has printed

vars  == <<prog, todo, stack, vi, frames, locals, globals, status, outcome, output>>
scope == <<frames, locals, globals>>

---------------------------------------------------------------------------
(* Values.                                                                 *)

Junk        == [kind |-> "junk"]
PrintFun    == [kind |-> "print"]
Lazy(n)     == [kind |-> "lazy", expr |-> n]
Fun(n, env) == [kind |-> "function", decl |-> n, env |-> env]
Bool(b)     == [kind |-> "bool", value |-> b]
Num(i)     == [kind |-> "integer", value |-> i]

(* What a symbol table holds after the value it points to has been freed.  *)
Freed == [kind |-> "freed"]

(* The empty symbol table; NULL as the environment of a function.          *)
NoNames == <<>>

(* The kind field at a slot.  The words below value_stack belong to the    *)
(* other fields of EvalState, and are no kind the code asks for.           *)
KindAt(i) == IF i >= 0 /\ i < StackSize THEN stack[i].kind ELSE "none"

TruncDiv(a, b) == LET q == (IF a < 0 THEN -a ELSE a) \div (IF b < 0 THEN -b ELSE b)
                  IN  IF (a < 0) = (b < 0) THEN q ELSE -q

(* A representative part of the operator tables of eval_node. *)
UnaryDefined(op, k) == \/ k = "integer" /\ op \in {"+", "-"}
                       \/ k = "bool" /\ op = "!"

Unary(op, v) == CASE op = "+" -> v
                  [] op = "-" -> Num(-v.value)
                  [] op = "!" -> Bool(~v.value)

BinaryDefined(op, l, r) ==
    /\ l = r
    /\ \/ l = "integer" /\ op \in {"+", "-", "/", "<", "=="}
       \/ l = "bool" /\ op \in {"and", "or"}

Binary(op, l, r) == CASE op = "+"   -> Num(l.value + r.value)
                      [] op = "-"   -> Num(l.value - r.value)
                      [] op = "/"   -> Num(TruncDiv(l.value, r.value))
                      [] op = "<"   -> Bool(l.value < r.value)
                      [] op = "=="  -> Bool(l.value = r.value)
                      [] op = "and" -> Bool(l.value /\ r.value)
                      [] op = "or"  -> Bool(l.value \/ r.value)

(* eval_print. *)
Printed(v) == IF v.kind \in {"lazy", "print", "function"} THEN "$function"
              ELSE IF v.kind \in {"bool", "integer"} THEN v
              ELSE "$junk"

---------------------------------------------------------------------------
(* Walking.                                                                *)

IsAssignment(n) == n.kind = "binary" /\ n.op = "="

(* The children node_walk visits once the visit before them returned true. *)
Children(n) ==
    CASE n.kind \in {"top", "brace"}    -> n.stmts
      [] n.kind = "var"                 -> IF n.init = None THEN <<>> ELSE <<n.init>>
      [] n.kind \in {"unary", "paren"}  -> <<n.subexpr>>
      [] n.kind = "binary"              -> <<n.lhs, n.rhs>>
      [] n.kind = "apply"               -> <<n.callee>> \o n.args
      [] n.kind \in {"expr_stmt", "ret"} -> <<n.expr>>
      [] OTHER                          -> <<>>

(* d, history only: how many frames must be there when the item's turn     *)
(* comes.  at: the frame of the assigned variable, the slot of the callee. *)
Item(op, n, d, at) == [op |-> op, node |-> n, d |-> d, at |-> at]

Walks(nodes, d) == [i \in 1 .. Len(nodes) |-> Item("walk", nodes[i], d, 0)]

(* What node_walk does with a node when the visit before its children has  *)
(* returned true.                                                          *)
Visits(n, d) == Walks(Children(n), d) \o <<Item("post", n, d, 0)>>

(* The items that ignore what the walk above them returned. *)
Waiting == {"assigned", "condition", "branch", "loop_condition", "loop_body",
            "lazy", "return"}

Stops(s) == {i \in 1 .. Len(s) : s[i].op \in Waiting}

(* What is left to do after a visit returned false: the innermost waiting  *)
(* item and what is under it; the program ends when there is none.         *)
Unwind(s) == IF Stops(s) = {} THEN <<>>
             ELSE SubSeq(s, CHOOSE i \in Stops(s) : \A j \in Stops(s) : i <= j, Len(s))

Depth == Len(frames)
Here  == Head(todo).node
Rest  == Tail(todo)

Turn(op) == outcome = "run" /\ todo # <<>> /\ Head(todo).op = op

(* Mutant: the check for an error at line 340 is missing.                   *)
Visit_unguarded(op, kind) == Turn(op) /\ status # "BRK" /\ Here.kind = kind

(* A visit of eval_node that passes the checks of lines 340 and 341.       *)
Visit(op, kind) == Turn(op) /\ status = "OK" /\ Here.kind = kind

(* The program stops here: an assertion fails, or the C standard says no   *)
(* more about it (a write outside the value stack, a use of freed memory,  *)
(* a division by zero).                                                    *)
Stop(o) == /\ outcome' = o
           /\ UNCHANGED <<prog, todo, stack, vi, frames, locals, globals, status, output>>

Pre(items)  == todo' = items \o Rest
Done        == todo' = Rest
FailPre     == status' = "ERR" /\ todo' = Rest
FailPost    == status' = "ERR" /\ todo' = Unwind(Rest)

---------------------------------------------------------------------------
(* Frames and names.                                                       *)

Frame(kind) == [kind |-> kind, base |-> vi]

PushFrame(kind, names) == /\ frames' = Append(frames, Frame(kind))
                          /\ locals' = Append(locals, names)

(* Frees the frames above the first d; not to be done when one of them     *)
(* holds a value that has been freed already.                              *)
PopTo(d) == /\ frames' = SubSeq(frames, 1, d)
            /\ locals' = SubSeq(locals, 1, d)

FreesTwice(d) == \E i \in d + 1 .. Depth :
                    \E x \in DOMAIN locals[i] : locals[i][x] = Freed

(* Mutant: the search does not stop at the frame of a function.             *)
InScope_dynamic == 1 .. Depth

(* The frames ident_lookup searches: up to the innermost function's.       *)
InScope == {i \in 1 .. Depth : \A j \in i + 1 .. Depth : frames[j].kind # "function"}

Holders(x) == {i \in InScope : x \in DOMAIN locals[i]}

(* The frame where the name is found, 0 for the globals. *)
Where(x) == IF Holders(x) = {} THEN 0
            ELSE CHOOSE i \in Holders(x) : \A j \in Holders(x) : j <= i

Found(x)   == Holders(x) # {} \/ x \in DOMAIN globals
ValueOf(x) == IF Holders(x) = {} THEN globals[x] ELSE locals[Where(x)][x]

(* insert_symbol accepts the name. *)
Declarable(x, names) == x # "print" /\ x \notin DOMAIN names

AddName(names, x, v) == [y \in DOMAIN names \cup {x} |->
                           IF y = x THEN v ELSE names[y]]

(* The names of both, those of the first hiding the others. *)
Over(first, names) == [y \in DOMAIN first \cup DOMAIN names |->
                         IF y \in DOMAIN first THEN first[y] ELSE names[y]]

---------------------------------------------------------------------------
(* The value stack.                                                        *)

Top == stack[vi - 1]

(* Drops the values from slot i up. *)
DropTo(i) == /\ vi' = i
             /\ stack' = [j \in DOMAIN stack |->
                            IF i <= j /\ j < vi THEN Junk ELSE stack[j]]

(* Mutant: off by one in the assertion on the size of the stack.            *)
Push_late(v) == IF vi < StackSize
                THEN /\ stack' = [stack EXCEPT ![vi] = v]
                     /\ vi' = vi + 1
                     /\ Done
                     /\ UNCHANGED <<prog, scope, status, outcome, output>>
                ELSE Stop("abort")

Push(v) == IF vi + 1 < StackSize
           THEN /\ stack' = [stack EXCEPT ![vi] = v]
                /\ vi' = vi + 1
                /\ Done
                /\ UNCHANGED <<prog, scope, status, outcome, output>>
           ELSE Stop("abort")

---------------------------------------------------------------------------
(* The program starts: eval_init, and the loop of eval_program that fills  *)
(* the table of globals.  A second declaration of a name is reported and   *)
(* ignored, and so is one of "print"; no global is evaluated yet.          *)
DeclaredIn(p) == {i \in 1 .. Len(p) : p[i].kind \in {"var", "fun"} /\ p[i].name # "print"}

FirstOf(p, x) == CHOOSE i \in DeclaredIn(p) :
                    /\ p[i].name = x
                    /\ \A j \in DeclaredIn(p) : p[j].name = x => i <= j

GlobalValue(n) == IF n.kind = "fun" THEN Fun(n, NoNames)
                  ELSE IF n.init = None THEN Junk ELSE Lazy(n.init)

InitialGlobals(p) == [x \in {p[i].name : i \in DeclaredIn(p)} |->
                        GlobalValue(p[FirstOf(p, x)])]

Init == /\ prog \in Programs
        /\ todo = [i \in 1 .. Len(prog) |-> Item("decl", prog[i], 0, 0)]
        /\ stack = [i \in 0 .. StackSize - 1 |-> Junk]
        /\ vi = 0
        /\ frames = <<>>
        /\ locals = <<>>
        /\ globals = InitialGlobals(prog)
        /\ status = "OK"
        /\ outcome = "run"
        /\ output = <<>>

(* The second loop of eval_program walks the top-level declarations.       *)
TopDecl ==
    /\ Turn("decl")
    /\ IF Here.kind = "top" THEN Pre(Walks(<<Here>>, Head(todo).d)) ELSE Done
    /\ UNCHANGED <<prog, stack, vi, scope, status, outcome, output>>

---------------------------------------------------------------------------
(* The checks at the head of eval_node.  In the "pre" phase node_walk      *)
(* takes false for `go on with the next sibling`, in the "post" phase for  *)
(* `stop`.                                                                 *)
SkipAfterError ==
    /\ Turn("walk") /\ status = "ERR"
    /\ Done
    /\ UNCHANGED <<prog, stack, vi, scope, status, outcome, output>>

UnwindAfterError ==
    /\ Turn("post") /\ status = "ERR"
    /\ todo' = Unwind(Rest)
    /\ UNCHANGED <<prog, stack, vi, scope, status, outcome, output>>

(* assert(self->status == EVAL_STATUS_OK) *)
StatusAssertFails ==
    /\ Turn("walk") \/ Turn("post")
    /\ status = "BRK"
    /\ Stop("abort")

(* The "pre" phase of the nodes handled after their children. *)
Descend ==
    /\ Turn("walk") /\ status = "OK"
    /\ Here.kind \notin {"fun", "brace", "if", "while"} /\ ~IsAssignment(Here)
    /\ Pre(Visits(Here, Depth))
    /\ UNCHANGED <<prog, stack, vi, scope, status, outcome, output>>

(* A function declared in a block: its name is declared first, then each   *)
(* captured variable is looked up and copied.  When one is missing the     *)
(* function is freed and its entry stays in the table.                     *)
DeclareFun ==
    /\ Visit("walk", "fun")
    /\ LET f       == Here.name
           caught  == CaptureSet(Here)
           missing == {x \in caught : ~Found(x)}
           env     == IF caught = {} THEN NoNames ELSE [x \in caught |-> ValueOf(x)]
       IN  IF frames = <<>>
           THEN Stop("undefined")
           ELSE /\ IF ~Declarable(f, locals[Depth])
                   THEN FailPre /\ UNCHANGED locals
                   ELSE IF missing # {}
                   THEN /\ FailPre
                        /\ locals' = [locals EXCEPT ![Depth] = AddName(@, f, Freed)]
                   ELSE /\ Done
                        /\ locals' = [locals EXCEPT ![Depth] = AddName(@, f, Fun(Here, env))]
                        /\ UNCHANGED status
                /\ UNCHANGED <<prog, stack, vi, frames, globals, outcome, output>>

(* An assignment resolves its left-hand side before it evaluates the       *)
(* right-hand side, and keeps a pointer to the variable meanwhile.         *)
Assign ==
    /\ Visit("walk", "binary") /\ IsAssignment(Here)
    /\ IF Here.lhs.kind = "ref" /\ Found(Here.lhs.name)
       THEN /\ Pre(<<Item("walk", Here.rhs, Depth, 0),
                     Item("assigned", Here, Depth, Where(Here.lhs.name))>>)
            /\ UNCHANGED status
       ELSE FailPre
    /\ UNCHANGED <<prog, stack, vi, scope, outcome, output>>

Assigned ==
    /\ Turn("assigned")
    /\ LET x == Here.lhs.name
           i == Head(todo).at
       IN  IF vi = 0
           THEN Stop("undefined")
           ELSE /\ IF i = 0
                   THEN /\ globals' = [globals EXCEPT ![x] = Top]
                        /\ UNCHANGED locals
                   ELSE /\ locals' = [locals EXCEPT ![i] = [@ EXCEPT ![x] = Top]]
                        /\ UNCHANGED globals
                /\ DropTo(vi - 1)
                /\ Done
                /\ UNCHANGED <<prog, frames, status, outcome, output>>

EnterBrace ==
    /\ Visit("walk", "brace")
    /\ PushFrame("anonymous", NoNames)
    /\ Pre(Visits(Here, Depth + 1))
    /\ UNCHANGED <<prog, stack, vi, globals, status, outcome, output>>

(* `if`: the condition, then one branch. *)
EnterIf ==
    /\ Visit("walk", "if")
    /\ Pre(<<Item("walk", Here.cond, Depth, 0), Item("condition", Here, Depth, 0)>>)
    /\ UNCHANGED <<prog, stack, vi, scope, status, outcome, output>>

(* Mutant: no `return` after the report of a condition that is no Boolean.  *)
Decide_goes_on(IfTrue, IfFalse) ==
    /\ IF KindAt(vi - 1) # "bool"
       THEN status' = "ERR" /\ todo' = IfTrue \o Rest /\ UNCHANGED <<stack, vi>>
       ELSE /\ DropTo(vi - 1)
            /\ todo' = (IF Top.value THEN IfTrue ELSE IfFalse) \o Rest
            /\ UNCHANGED status
    /\ UNCHANGED <<prog, scope, outcome, output>>

(* Takes the Boolean on top of the stack off it, or reports an error. *)
Decide(IfTrue, IfFalse) ==
    /\ IF KindAt(vi - 1) # "bool"
       THEN FailPre /\ UNCHANGED <<stack, vi>>
       ELSE /\ DropTo(vi - 1)
            /\ todo' = (IF Top.value THEN IfTrue ELSE IfFalse) \o Rest
            /\ UNCHANGED status
    /\ UNCHANGED <<prog, scope, outcome, output>>

BranchOf(n) == <<Item("walk", n, Depth, 0), Item("branch", n, Depth, 0)>>

Condition ==
    /\ Turn("condition")
    /\ Decide(BranchOf(Here.then),
              IF Here.else = None THEN <<>> ELSE BranchOf(Here.else))

(* The rest of `if` after its branch: nothing, whatever the walk returned. *)
BranchDone ==
    /\ Turn("branch")
    /\ Done
    /\ UNCHANGED <<prog, stack, vi, scope, status, outcome, output>>

LoopHead(n) == <<Item("walk", n.cond, Depth, 0), Item("loop_condition", n, Depth, 0)>>

EnterWhile ==
    /\ Visit("walk", "while")
    /\ Pre(LoopHead(Here))
    /\ UNCHANGED <<prog, stack, vi, scope, status, outcome, output>>

(* Mutant: the loop notes the frame under the innermost one.                *)
LoopCondition_below ==
    /\ Turn("loop_condition")
    /\ Decide(<<Item("walk", Here.body, Depth, 0), Item("loop_body", Here, Depth - 1, 0)>>,
              <<>>)

LoopCondition ==
    /\ Turn("loop_condition")
    /\ Decide(<<Item("walk", Here.body, Depth, 0), Item("loop_body", Here, Depth, 0)>>,
              <<>>)

(* Mutant: `brk` leaves its mark when the loop is over.                     *)
LoopBody_keeps_brk ==
    /\ Turn("loop_body")
    /\ LET d == Head(todo).d
       IN  /\ PopTo(d)
           /\ IF status = "BRK"
              THEN Done
              ELSE todo' = <<Item("walk", Here.cond, d, 0),
                             Item("loop_condition", Here, d, 0)>> \o Rest
           /\ UNCHANGED <<prog, stack, vi, globals, status, outcome, output>>

(* After the body: the frames above the one noted at the condition go, and *)
(* `brk` ends here.                                                        *)
LoopBody ==
    /\ Turn("loop_body")
    /\ LET d == Head(todo).d
       IN  IF FreesTwice(d)
           THEN Stop("undefined")
           ELSE /\ PopTo(d)
                /\ IF status = "BRK"
                   THEN status' = "OK" /\ Done
                   ELSE /\ UNCHANGED status
                        /\ todo' = <<Item("walk", Here.cond, d, 0),
                                     Item("loop_condition", Here, d, 0)>> \o Rest
                /\ UNCHANGED <<prog, stack, vi, globals, outcome, output>>

---------------------------------------------------------------------------
(* The "post" phase.                                                       *)

(* assert(self->value_index == 0) *)
EndTop ==
    /\ Visit("post", "top")
    /\ IF vi # 0
       THEN Stop("abort")
       ELSE Done /\ UNCHANGED <<prog, stack, vi, scope, status, outcome, output>>

DeclareVar ==
    /\ Visit("post", "var")
    /\ IF frames = <<>> \/ (Here.init # None /\ vi = 0)
       THEN Stop("undefined")
       ELSE /\ IF Here.init = None THEN UNCHANGED <<stack, vi>> ELSE DropTo(vi - 1)
            /\ IF Declarable(Here.name, locals[Depth])
               THEN /\ locals' = [locals EXCEPT ![Depth] = AddName(@, Here.name,
                                    IF Here.init = None THEN Junk ELSE Top)]
                    /\ Done
                    /\ UNCHANGED status
               ELSE FailPost /\ UNCHANGED locals
            /\ UNCHANGED <<prog, frames, globals, outcome, output>>

Literal ==
    /\ Visit("post", "bool") \/ Visit("post", "integer")
    /\ Push(Here)

(* A name.  A global variable is evaluated at each reference, in a frame   *)
(* that hides the locals.                                                  *)
Reference ==
    /\ Visit("post", "ref")
    /\ LET x == Here.name
       IN  IF x = "print"
           THEN Push(PrintFun)
           ELSE IF ~Found(x)
           THEN FailPost /\ UNCHANGED <<prog, stack, vi, scope, outcome, output>>
           ELSE IF ValueOf(x).kind = "lazy"
           THEN /\ PushFrame("function", NoNames)
                /\ Pre(<<Item("walk", ValueOf(x).expr, Depth + 1, 0),
                         Item("lazy", Here, Depth + 1, 0)>>)
                /\ UNCHANGED <<prog, stack, vi, globals, status, outcome, output>>
           ELSE Push(ValueOf(x))

(* eval_pop_frame, which does nothing when there is no frame. *)
PopOne == LET d == IF Depth = 0 THEN 0 ELSE Depth - 1
          IN  IF FreesTwice(d)
              THEN Stop("undefined")
              ELSE /\ PopTo(d)
                   /\ Done
                   /\ UNCHANGED <<prog, stack, vi, globals, status, outcome, output>>

LazyDone == Turn("lazy") /\ PopOne

(* Mutant: a block does not pop its frame.                                  *)
LeaveBrace_stays ==
    /\ Visit("post", "brace")
    /\ Done
    /\ UNCHANGED <<prog, stack, vi, scope, status, outcome, output>>

LeaveBrace == Visit("post", "brace") /\ PopOne

UnaryOp ==
    /\ Visit("post", "unary")
    /\ IF vi = 0
       THEN Stop("undefined")
       ELSE /\ IF UnaryDefined(Here.op, Top.kind)
               THEN /\ stack' = [stack EXCEPT ![vi - 1] = Unary(Here.op, @)]
                    /\ Done
                    /\ UNCHANGED status
               ELSE FailPost /\ UNCHANGED stack
            /\ UNCHANGED <<prog, vi, scope, outcome, output>>

BinaryOp ==
    /\ Visit("post", "binary")
    /\ IF vi < 2
       THEN Stop("undefined")
       ELSE LET l == stack[vi - 2]
            IN  IF ~BinaryDefined(Here.op, l.kind, Top.kind)
                THEN FailPost /\ UNCHANGED <<prog, stack, vi, scope, outcome, output>>
                ELSE IF Here.op = "/" /\ Top.value = 0
                THEN Stop("undefined")
                ELSE /\ stack' = [stack EXCEPT ![vi - 2] = Binary(Here.op, l, Top),
                                               ![vi - 1] = Junk]
                     /\ vi' = vi - 1
                     /\ Done
                     /\ UNCHANGED <<prog, scope, status, outcome, output>>

Paren ==
    /\ Visit("post", "paren")
    /\ Done
    /\ UNCHANGED <<prog, stack, vi, scope, status, outcome, output>>

(* Mutant: an expression used as a statement drops the whole stack.         *)
ExprStmt_drops_all ==
    /\ Visit("post", "expr_stmt")
    /\ DropTo(0)
    /\ Done
    /\ UNCHANGED <<prog, scope, status, outcome, output>>

(* Mutant: it drops nothing.                                                *)
ExprStmt_drops_none ==
    /\ Visit("post", "expr_stmt")
    /\ Done
    /\ UNCHANGED <<prog, stack, vi, scope, status, outcome, output>>

(* An expression used as a statement drops what the statement has left     *)
(* above the values its frame began with.                                  *)
ExprStmt ==
    /\ Visit("post", "expr_stmt")
    /\ LET base == IF frames = <<>> THEN 0 ELSE frames[Depth].base
       IN  IF vi < base
           THEN Stop("undefined")
           ELSE /\ DropTo(base)
                /\ Done
                /\ UNCHANGED <<prog, scope, status, outcome, output>>

(* Mutant: `brk` ends the walk of the body and is forgotten.                 *)
Break_forgotten ==
    /\ Visit("post", "brk")
    /\ todo' = Unwind(Rest)
    /\ UNCHANGED <<prog, stack, vi, scope, status, outcome, output>>

Break ==
    /\ Visit("post", "brk")
    /\ status' = "BRK"
    /\ todo' = Unwind(Rest)
    /\ UNCHANGED <<prog, stack, vi, scope, outcome, output>>

(* `ret` leaves its value on the stack. *)
NextOrReturn ==
    /\ Visit("post", "nxt") \/ Visit("post", "ret")
    /\ todo' = Unwind(Rest)
    /\ UNCHANGED <<prog, stack, vi, scope, status, outcome, output>>

---------------------------------------------------------------------------
(* Calls: the callee is under its arguments on the stack.                  *)

(* Mutant: one argument too many is skipped.                               *)
CalleeSlot_below == vi - 2 - Len(Here.args)

CalleeSlot == vi - 1 - Len(Here.args)

(* The slot above the callee is printed, also when there is no argument;   *)
(* nothing is pushed as the result.                                        *)
CallPrint ==
    /\ Visit("post", "apply") /\ KindAt(CalleeSlot) = "print"
    /\ output' = Append(output, Printed(stack[CalleeSlot + 1]))
    /\ DropTo(CalleeSlot)
    /\ Done
    /\ UNCHANGED <<prog, scope, status, outcome>>

CallBad ==
    /\ Visit("post", "apply") /\ KindAt(CalleeSlot) \notin {"print", "function"}
    /\ IF CalleeSlot < -2      \* outside of the EvalState
       THEN Stop("undefined")
       ELSE FailPost /\ UNCHANGED <<prog, stack, vi, scope, outcome, output>>

(* Parameters are bound from the last to the first, parameter j to the     *)
(* value Len(params) - j below the top; the number of arguments is not     *)
(* looked at.                                                              *)
ParamSlot(ps, j) == vi - 1 - (Len(ps) - j)

(* The parameters that insert_symbol refuses: it stops at the last one.    *)
RefusedParams(ps) == {j \in 1 .. Len(ps) :
                        ps[j] = "print" \/ \E k \in j + 1 .. Len(ps) : ps[k] = ps[j]}

LastRefused(ps) == IF RefusedParams(ps) = {} THEN 0
                   ELSE CHOOSE j \in RefusedParams(ps) : \A k \in RefusedParams(ps) : k <= j

Bound(ps) == LET js == LastRefused(ps) + 1 .. Len(ps)
             IN  [x \in {ps[j] : j \in js} |->
                    stack[ParamSlot(ps, CHOOSE j \in js : ps[j] = x)]]

(* With more parameters than arguments the callee is dropped with them,    *)
(* before its environment is read.                                         *)
CallFunction ==
    /\ Visit("post", "apply") /\ KindAt(CalleeSlot) = "function"
    /\ LET c    == CalleeSlot
           f    == stack[c]
           ps   == f.decl.params
           low  == ParamSlot(ps, IF LastRefused(ps) = 0 THEN 1 ELSE LastRefused(ps))
           args == [j \in DOMAIN stack |-> IF low <= j /\ j < vi THEN Junk ELSE stack[j]]
       IN  IF low < 0 \/ (LastRefused(ps) = 0 /\ low <= c /\ f.env # NoNames)
           THEN Stop("undefined")
           ELSE /\ stack' = args
                /\ IF LastRefused(ps) # 0
                   THEN /\ PushFrame("function", Bound(ps))
                        /\ FailPost
                        /\ UNCHANGED vi
                   ELSE /\ PushFrame("function", Over(Bound(ps), f.env))
                        /\ vi' = vi - Len(Here.args)
                        /\ Pre(<<Item("walk", f.decl.body, Depth + 1, 0),
                                 Item("return", Here, Depth, c)>>)
                        /\ UNCHANGED status
                /\ UNCHANGED <<prog, globals, outcome, output>>

(* Mutant: one frame too many goes with those of the call.                  *)
Return_pops_caller ==
    /\ Turn("return")
    /\ LET c == Head(todo).at
           dropped == [stack EXCEPT ![c] = Junk]
       IN  IF vi < 2
           THEN Stop("undefined")
           ELSE /\ PopTo(Head(todo).d - 1)
                /\ stack' = [dropped EXCEPT ![vi - 2] = dropped[vi - 1],
                                            ![vi - 1] = Junk]
                /\ vi' = vi - 1
                /\ Done
                /\ UNCHANGED <<prog, globals, status, outcome, output>>

(* The frames of the call go; the callee is dropped and the value on top   *)
(* of the stack takes the slot below it.                                   *)
Return ==
    /\ Turn("return")
    /\ LET d == Head(todo).d
           c == Head(todo).at
           dropped == [stack EXCEPT ![c] = Junk]
       IN  IF FreesTwice(d) \/ vi < 2
           THEN Stop("undefined")
           ELSE /\ PopTo(d)
                /\ stack' = [dropped EXCEPT ![vi - 2] = dropped[vi - 1],
                                            ![vi - 1] = Junk]
                /\ vi' = vi - 1
                /\ Done
                /\ UNCHANGED <<prog, globals, status, outcome, output>>

---------------------------------------------------------------------------
(* eval_program has returned the status; eval_deinit.                      *)
Finish ==
    /\ outcome = "run" /\ todo = <<>>
    /\ IF FreesTwice(0)
       THEN Stop("undefined")
       ELSE /\ outcome' = "done"
            /\ PopTo(0)
            /\ globals' = NoNames
            /\ vi' = 0
            /\ UNCHANGED <<prog, todo, stack, status, output>>

Statement == \/ DeclareFun \/ DeclareVar
             \/ Assign \/ Assigned
             \/ EnterBrace \/ LeaveBrace
             \/ EnterIf \/ Condition \/ BranchDone
             \/ EnterWhile \/ LoopCondition \/ LoopBody
             \/ ExprStmt \/ Break \/ NextOrReturn \/ EndTop

Expression == \/ Literal \/ Reference \/ LazyDone
              \/ UnaryOp \/ BinaryOp \/ Paren
              \/ CallPrint \/ CallFunction \/ CallBad \/ Return

Next == \/ TopDecl
        \/ SkipAfterError \/ UnwindAfterError \/ StatusAssertFails
        \/ Descend
        \/ Statement
        \/ Expression
        \/ Finish

Spec     == Init /\ [][Next]_vars
(* One thread runs the interpreter, and it goes on as long as it can.      *)
FairSpec == Spec /\ WF_vars(Next)

---------------------------------------------------------------------------
(* Properties of every program.                                            *)

Ops == {"decl", "walk", "post"} \cup Waiting

TodoItem  == [op : Ops, node : Node, d : Nat, at : Nat]
EvalFrame == [kind : {"function", "anonymous"}, base : 0 .. StackSize - 1]

IsSequence(s) == Len(s) \in Nat /\ s = [i \in 1 .. Len(s) |-> s[i]]

TypeOK ==
    /\ todo \in Seq(TodoItem)
    /\ DOMAIN stack = 0 .. StackSize - 1
    /\ vi \in 0 .. StackSize - 1
    /\ frames \in Seq(EvalFrame)
    /\ IsSequence(locals)
    /\ Len(locals) = Len(frames)
    /\ status \in {"OK", "BRK", "ERR"}
    /\ outcome \in {"run", "done", "abort", "undefined"}

(* A frame that somebody is waiting for is still there: the loop and the   *)
(* call that noted the innermost frame before a nested walk (lines 464 and *)
(* 762) find it again however the walk ended, so the loops that pop frames *)
(* down to it (483, 787) stop; and eval_pop_frame at the end of a block    *)
(* (826) or of a lazy value (553) never takes a frame of an enclosing one. *)
FrameFloor ==
    outcome = "run" =>
      \A i \in 1 .. Len(todo) : todo[i].d <= Depth

(* The pointer an assignment holds while its right-hand side runs (line    *)
(* 408) still points to the variable when the value is stored (line 416):  *)
(* no frame of that variable has been popped and no table emptied.         *)
LvalueAlive ==
    outcome = "run" =>
      \A i \in 1 .. Len(todo) :
        todo[i].op = "assigned" =>
          LET x == todo[i].node.lhs.name
          IN  IF todo[i].at = 0 THEN x \in DOMAIN globals
              ELSE todo[i].at <= Depth /\ x \in DOMAIN locals[todo[i].at]

(* After an error the walk only unwinds: the status stays, nothing is      *)
(* printed, no name is declared and no frame is pushed (line 340 guards    *)
(* every visit, but the code that waits for a nested walk has no check).   *)
QuietAfterError ==
    [][status = "ERR" =>
         /\ status' = "ERR"
         /\ output' = output
         /\ Len(frames') <= Len(frames)
         /\ \A i \in 1 .. Len(locals') : DOMAIN locals'[i] = DOMAIN locals[i]]_vars

(* A running function changes no variable of its callers: until it returns *)
(* the tables below its frame stay as they are (ident_lookup stops at the  *)
(* frame of a function, and a closure holds copies of what it captured).   *)
CallersFrames == {i \in 1 .. Depth : \E j \in i + 1 .. Depth : frames[j].kind = "function"}

CallersUntouched ==
    [][status = "OK" => \A i \in CallersFrames : locals'[i] = locals[i]]_vars

(* Once an error is reported the program comes to an end, loops included:  *)
(* no condition can be evaluated any more, and a loop takes what was on    *)
(* the stack for its condition until it meets something else.              *)
ErrorEnds == (status = "ERR") ~> (outcome # "run")

---------------------------------------------------------------------------
(* Properties of the programs that use `ret`, `brk` and calls the way the  *)
(* interpreter supports (see MCEval).                                      *)

Is(op) == outcome = "run" /\ todo # <<>> /\ Head(todo).op = op

(* When a call comes back the callee and, right above it, the result are   *)
(* all it left on the stack: only then do lines 791 to 795 "drop the       *)
(* callee and move the function result down" into the callee's place.      *)
CallLeavesResult ==
    (Is("return") /\ status = "OK") => vi = Head(todo).at + 2

(* The jumps are kinds of `brk` and `nxt`.  S holds each of them and the    *)
(* blocks it leaves: it leaves no function, no branch of an `if` and no    *)
(* statement of the top level, so that the walk it stops is that of a      *)
(* loop's body.                                                            *)
LeftBy(jumps, S) ==
  /\ \A n \in S : n.kind \in {"brk", "nxt", "brace"}
  /\ \A n \in Node :
       /\ n.kind \in jumps => n \in S
       /\ n.kind = "brace" => n \in S \/ \A i \in 1 .. Len(n.stmts) : n.stmts[i] \notin S
       /\ n.kind = "top"   => \A i \in 1 .. Len(n.stmts) : n.stmts[i] \notin S
       /\ n.kind = "fun"   => n.body \notin S
       /\ n.kind = "if"    => n.cond \notin S /\ n.then \notin S /\ n.else \notin S
       /\ n.kind = "while" => n.cond \notin S

(* T holds the statements that always end in a `ret`, whose value is then  *)
(* the last thing they leave: a `ret`, a block that ends with one of them, *)
(* an `if` both of whose branches are among them.  Every function's body   *)
(* is one, and they stand nowhere else: not before the end of a block, not *)
(* in a loop, not in a branch that has no counterpart.                     *)
ReturnsIn(T) ==
  /\ \A n \in T : n.kind \in {"ret", "brace", "if"}
  /\ \A n \in Node :
       /\ n.kind = "ret"   => n \in T
       /\ n.kind = "brace" => /\ n \in T => Len(n.stmts) > 0
                              /\ \A i \in 1 .. Len(n.stmts) :
                                   n.stmts[i] \in T <=> n \in T /\ i = Len(n.stmts)
       /\ n.kind = "top"   => \A i \in 1 .. Len(n.stmts) : n.stmts[i] \notin T
       /\ n.kind = "fun"   => n.body \in T /\ n.body.kind = "brace"
       /\ n.kind = "if"    => (n.then \in T <=> n \in T) /\ (n.else \in T <=> n \in T)
       /\ n.kind = "while" => n.body \notin T

(* What leaves no value on the stack: an assignment (line 419 takes its    *)
(* value off again) and a call whose callee turns out to be `print` when   *)
(* its arguments are there.                                                *)
LeavesNoValue == \/ Is("walk") /\ IsAssignment(Here)
                 \/ Is("post") /\ Here.kind = "apply" /\ KindAt(CalleeSlot) = "print"

(* What leaves no value is evaluated as a statement and never as a part of *)
(* another expression, although eval_node looks the same for both: the     *)
(* value under it would be taken for the one it did not leave.             *)
VoidsAreStatements ==
    (LeavesNoValue /\ status = "OK") =>
      Rest # <<>> /\ Head(Rest).op = "post" /\ Head(Rest).node.kind = "expr_stmt"

(* The assertion of line 341: a visit never finds a `brk` on its way out   *)
(* of a loop.                                                              *)
StatusIsOK == status = "BRK" => ~(Is("walk") \/ Is("post"))

(* capture_set leaves a function's own name out of what it captures, as "a *)
(* recursive reference; no further action required": a call of a function  *)
(* by its own name finds it.                                               *)
RunningName == LET calls == {i \in 1 .. Len(todo) : todo[i].op = "return"}
               IN  IF calls = {} THEN ""
                   ELSE todo[CHOOSE i \in calls : \A j \in calls : i <= j].node.callee.name

RecursionResolves ==
    (Is("post") /\ status = "OK" /\ Here.kind = "ref" /\ Here.name = RunningName)
      => Found(Here.name)

(* A program that has run its last statement has left no value and no      *)
(* frame behind.                                                           *)
CleanEnd == (outcome = "run" /\ todo = <<>>) => (vi = 0 /\ frames = <<>>)

(* Every program comes to its end. *)
Terminates == <>(outcome = "done")
=============================================================================
