------------------------------- MODULE Syntax -------------------------------
(***************************************************************************)
(* Constructors for the programs of the model-checking modules, one per    *)
(* production of the grammar that eval.c evaluates.                        *)
(***************************************************************************)
EXTENDS CaptureSet

NoNode == [kind |-> "none"]

N(i)          == [kind |-> "integer", value |-> i]
B(b)          == [kind |-> "bool", value |-> b]
R(x)          == [kind |-> "ref", name |-> x]
Un(op, e)     == [kind |-> "unary", op |-> op, subexpr |-> e]
Op(op, l, r)  == [kind |-> "binary", op |-> op, lhs |-> l, rhs |-> r]
Par(e)        == [kind |-> "paren", subexpr |-> e]
Call(f, args) == [kind |-> "apply", callee |-> R(f), args |-> args]

Do(e)         == [kind |-> "expr_stmt", expr |-> e]
Set(x, e)     == Do(Op("=", R(x), e))
Echo(e)      == Do(Call("print", <<e>>))
Block(stmts)  == [kind |-> "brace", stmts |-> stmts]
If(c, t)      == [kind |-> "if", cond |-> c, then |-> Block(t), else |-> NoNode]
IfElse(c, t, e) == [kind |-> "if", cond |-> c, then |-> Block(t), else |-> e]
While(c, b)   == [kind |-> "while", cond |-> c, body |-> Block(b)]
Brk           == [kind |-> "brk"]
Nxt           == [kind |-> "nxt"]
Ret(e)        == [kind |-> "ret", expr |-> e]

Var(x, e)     == [kind |-> "var", name |-> x, init |-> e]
Def(f, ps, b) == [kind |-> "fun", name |-> f, params |-> ps, body |-> Block(b)]
Toplevel(stmts) == [kind |-> "top", stmts |-> stmts]

(* All the nodes of a tree. *)
RECURSIVE Subtrees(_)
Subtrees(n) ==
    IF n = NoNode THEN {}
    ELSE {n} \cup UNION {Subtrees(m) : m \in SubNodes(n)}
             \cup (IF n.kind = "fun" THEN Subtrees(n.body) ELSE {})

NodesOf(declarations) == UNION {Subtrees(n) : n \in declarations}
=============================================================================
