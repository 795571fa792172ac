------------------------------ MODULE EvalRef ------------------------------
(***************************************************************************)
(* What a program means, without a value stack, a walk or a frame chain:   *)
(* an evaluator by structural recursion in which an expression has a value *)
(* and a statement ends in one of four ways.  The MC modules compare the   *)
(* output of Eval with it.                                                 *)
(*                                                                         *)
(* It keeps three choices of the language as interpreted: a function       *)
(* declared in a block copies what it captures, a reference to a variable  *)
(* copies its value (closures included), and a global is evaluated anew at *)
(* each reference until it is assigned to.                                 *)
(***************************************************************************)
EXTENDS Eval

(* scopes: the tables of the running function, innermost last. *)
World(scopes, gs, out) == [scopes |-> scopes, globals |-> gs, out |-> out]

HasIt(w, x) == {i \in DOMAIN w.scopes : x \in DOMAIN w.scopes[i]}
Nearest(w, x) == CHOOSE i \in HasIt(w, x) : \A j \in HasIt(w, x) : j <= i

Read(w, x) == IF HasIt(w, x) = {} THEN w.globals[x] ELSE w.scopes[Nearest(w, x)][x]

Write(w, x, v) == IF HasIt(w, x) = {}
                  THEN [w EXCEPT !.globals[x] = v]
                  ELSE [w EXCEPT !.scopes[Nearest(w, x)][x] = v]

Bind(w, x, v) == [w EXCEPT !.scopes[Len(w.scopes)] = AddName(@, x, v)]

Closure(w, f) == Fun(f, IF CaptureSet(f) = {} THEN NoNames
                        ELSE [x \in CaptureSet(f) |-> Read(w, x)])

(* Results of expressions, of argument lists (v a sequence) and of         *)
(* statements (how: "on", "ret", "brk" or "nxt").                          *)
Value(v, w)    == [v |-> v, w |-> w]
Ends(how, v, w) == [how |-> how, v |-> v, w |-> w]

Nothing == Junk

RECURSIVE Evaluate(_, _), Arguments(_, _), Apply(_, _, _), Execute(_, _),
          Sequence(_, _), Loop(_, _)

Evaluate(e, w) ==
    CASE e.kind \in {"integer", "bool"} -> Value(e, w)
      [] e.kind = "ref" ->
           IF e.name = "print" THEN Value(PrintFun, w)
           ELSE IF Read(w, e.name).kind # "lazy" THEN Value(Read(w, e.name), w)
           ELSE LET r == Evaluate(Read(w, e.name).expr, [w EXCEPT !.scopes = <<>>])
                IN  Value(r.v, [r.w EXCEPT !.scopes = w.scopes])
      [] e.kind = "paren" -> Evaluate(e.subexpr, w)
      [] e.kind = "unary" -> LET r == Evaluate(e.subexpr, w)
                             IN  Value(Unary(e.op, r.v), r.w)
      [] IsAssignment(e)  -> LET r == Evaluate(e.rhs, w)
                             IN  Value(Nothing, Write(r.w, e.lhs.name, r.v))
      [] e.kind = "binary" -> LET l == Evaluate(e.lhs, w)
                                  r == Evaluate(e.rhs, l.w)
                              IN  Value(Binary(e.op, l.v, r.v), r.w)
      [] e.kind = "apply" -> LET f == Evaluate(e.callee, w)
                                 a == Arguments(e.args, f.w)
                             IN  Apply(f.v, a.v, a.w)

Arguments(es, w) ==
    IF es = <<>> THEN Value(<<>>, w)
    ELSE LET first == Evaluate(Head(es), w)
             more  == Arguments(Tail(es), first.w)
         IN  Value(<<first.v>> \o more.v, more.w)

Apply(f, args, w) ==
    IF f.kind = "print"
    THEN Value(Nothing, [w EXCEPT !.out = Append(@, Printed(args[1]))])
    ELSE LET ps    == f.decl.params
             bound == [x \in {ps[i] : i \in DOMAIN ps} |->
                         args[CHOOSE i \in DOMAIN ps : ps[i] = x]]
             r     == Execute(f.decl.body, [w EXCEPT !.scopes = <<Over(bound, f.env)>>])
         IN  Value(r.v, [r.w EXCEPT !.scopes = w.scopes])

Execute(s, w) ==
    CASE s.kind = "expr_stmt" -> Ends("on", Nothing, Evaluate(s.expr, w).w)
      [] s.kind = "var" ->
           IF s.init = None THEN Ends("on", Nothing, Bind(w, s.name, Junk))
           ELSE LET r == Evaluate(s.init, w)
                IN  Ends("on", Nothing, Bind(r.w, s.name, r.v))
      [] s.kind = "fun" -> Ends("on", Nothing, Bind(w, s.name, Closure(w, s)))
      [] s.kind = "brace" ->
           LET r == Sequence(s.stmts, [w EXCEPT !.scopes = Append(@, NoNames)])
           IN  Ends(r.how, r.v, [r.w EXCEPT !.scopes = SubSeq(@, 1, Len(w.scopes))])
      [] s.kind = "if" ->
           LET c == Evaluate(s.cond, w)
           IN  IF c.v.value THEN Execute(s.then, c.w)
               ELSE IF s.else = None THEN Ends("on", Nothing, c.w)
               ELSE Execute(s.else, c.w)
      [] s.kind = "while" -> Loop(s, w)
      [] s.kind = "ret" -> LET r == Evaluate(s.expr, w) IN Ends("ret", r.v, r.w)
      [] s.kind \in {"brk", "nxt"} -> Ends(s.kind, Nothing, w)

Sequence(ss, w) ==
    IF ss = <<>> THEN Ends("on", Nothing, w)
    ELSE LET r == Execute(Head(ss), w)
         IN  IF r.how = "on" THEN Sequence(Tail(ss), r.w) ELSE r

Loop(s, w) ==
    LET c == Evaluate(s.cond, w)
        r == Execute(s.body, c.w)
    IN  IF ~c.v.value THEN Ends("on", Nothing, c.w)
        ELSE IF r.how = "brk" THEN Ends("on", Nothing, r.w)
        ELSE IF r.how = "ret" THEN r
        ELSE Loop(s, r.w)

(* The statements of all top-level declarations, in order. *)
RECURSIVE TopStatements(_)
TopStatements(p) == IF p = <<>> THEN <<>>
                    ELSE (IF Head(p).kind = "top" THEN Head(p).stmts ELSE <<>>)
                           \o TopStatements(Tail(p))

Meaning(p) == Sequence(TopStatements(p), World(<<>>, InitialGlobals(p), <<>>)).w.out

---------------------------------------------------------------------------
(* The interpreter computes what the program means: it never stops at an   *)
(* assertion or outside of its memory, and what it has printed at the end  *)
(* is the output of the program.                                           *)
ComputesMeaning ==
    /\ outcome \notin {"abort", "undefined"}
    /\ outcome = "done" => /\ status = "OK"
                           /\ output = Meaning(prog)
=============================================================================
