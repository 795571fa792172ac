------------------------------- MODULE MCEval -------------------------------
(***************************************************************************)
(* Eval on programs that stay inside what the interpreter supports: every  *)
(* call passes as many arguments as there are parameters and reaches a     *)
(* `ret` with nothing left to run after it, `brk` and `nxt` stand in the   *)
(* body of their loop, a nested function uses neither print nor itself.    *)
(*                                                                         *)
(* Each program has a global, plain or computed by a call, a function f, a *)
(* function that returns a closure, and a block with two statements of the *)
(* pool.                                                                   *)
(***************************************************************************)
EXTENDS EvalRef, Syntax

One     == N(1)
Plus1(x) == Op("+", R(x), One)
Below(x, n) == Op("<", R(x), N(n))

Bodies ==
  { <<Ret(Plus1("p"))>>,
    <<IfElse(Below("p", 1), <<Ret(N(0))>>,
             Block(<<Ret(Op("+", R("p"), Call("f", <<Op("-", R("p"), One)>>)))>>))>>,
    <<Var("l", R("p")), While(Below("l", 3), <<Set("l", Plus1("l")), Brk>>), Ret(R("l"))>>,
    <<While(Below("p", 3), <<Set("p", Plus1("p")), Nxt, Set("p", N(9))>>), Ret(R("p"))>>,
    <<Block(<<Var("p", N(5)), Set("p", N(6)), Echo(R("p"))>>), Ret(R("p"))>>,
    <<If(Below("p", 2), <<Set("p", N(4))>>), Block(<<Ret(R("p"))>>)>>,
    <<Set("g", R("p")), Do(R("g")), Ret(Op("+", R("g"), R("p")))>>,
    <<Def("h", <<"q">>, <<Ret(Op("-", R("p"), R("q")))>>), Set("p", N(7)),
      Ret(Call("h", <<One>>))>>,
    <<Def("h", <<>>, <<Set("p", Plus1("p")), Ret(R("p"))>>),
      Ret(Op("+", Call("h", <<>>), Call("h", <<>>)))>> }

Pool ==
  { Echo(Call("f", <<One>>)),
    Set("x", Op("+", R("x"), Call("f", <<R("x")>>))),
    Echo(R("x")),
    Echo(Un("-", R("g"))),
    Set("g", Par(Call("f", <<R("g")>>))),
    While(Op("and", Below("x", 3), B(TRUE)), <<Set("x", Plus1("x")), Echo(R("x"))>>),
    While(B(TRUE), <<Var("x", N(8)), Set("g", R("x")), Brk>>),
    If(Op("==", R("x"), R("g")), <<Set("x", N(2)), Echo(R("x"))>>),
    Block(<<Var("k", Call("mk", <<R("x")>>)), Set("x", N(5)), Echo(Call("k", <<One>>)),
            Echo(R("k"))>>),
    Block(<<Def("c", <<>>, <<Set("x", Plus1("x")), Ret(R("x"))>>),
            Echo(Call("c", <<>>)), Echo(Call("c", <<>>))>>) }

Globals   == {Var("g", i) : i \in {N(2), Call("f", <<N(0)>>)}}
Functions == {Def("f", <<"p">>, b) : b \in Bodies}
Maker     == Def("mk", <<"a">>, <<Def("part", <<"b">>, <<Ret(Op("-", R("a"), R("b")))>>),
                                  Ret(R("part"))>>)
Mains     == {Toplevel(<<Block(<<Var("x", One), s1, s2, Echo(R("x"))>>)>>) :
                s1 \in Pool, s2 \in Pool}

Programs_ == {<<g, f, Maker, m>> : g \in Globals, f \in Functions, m \in Mains}

Trees == NodesOf(Globals \cup Functions \cup {Maker} \cup Mains)
Node_ == Trees

(* The statements in which a jump may be left over, and those that return  *)
(* on every way: the two sets the theorems about StatusIsOK,               *)
(* CallLeavesResult and CleanEnd ask for.                                  *)
RECURSIVE HasJump(_), Returns(_)
HasJump(n) == \/ n.kind \in {"brk", "nxt"}
              \/ n.kind = "brace" /\ \E i \in 1 .. Len(n.stmts) : HasJump(n.stmts[i])
Returns(n) == \/ n.kind = "ret"
              \/ n.kind = "brace" /\ n.stmts # <<>> /\ Returns(n.stmts[Len(n.stmts)])
              \/ n.kind = "if" /\ n.else # None /\ Returns(n.then) /\ Returns(n.else)

ASSUME ProgramsJumpInLoops == LeftBy({"brk", "nxt"}, {n \in Node : HasJump(n)})
ASSUME ProgramsReturn      == ReturnsIn({n \in Node : Returns(n)})
=============================================================================
