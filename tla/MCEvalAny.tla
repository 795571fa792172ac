----------------------------- MODULE MCEvalAny -----------------------------
(***************************************************************************)
(* Eval on programs that do anything the grammar allows, right or wrong:   *)
(* a global, a function with one statement out of FunPool before its       *)
(* `ret`, and a block with two statements out of TopPool.                  *)
(***************************************************************************)
EXTENDS Eval, Syntax

One  == N(1)
Less == Op("<", R("x"), N(2))
Inc  == Set("x", Op("+", R("x"), One))

FunPool ==
  { Echo(R("p")),
    If(Op("==", R("p"), One), <<Ret(R("p"))>>),
    Block(<<Var("l", R("p")), Ret(R("l"))>>),
    While(B(TRUE), <<Ret(R("p"))>>),
    Brk,
    Nxt,
    Set("p", R("u")),
    Set("x", One),
    Set("g", N(7)),
    While(Op("<", R("p"), N(2)), <<Set("p", Op("+", R("p"), One)), Nxt>>),
    If(Op("<", R("p"), N(3)), <<Set("p", Call("f", <<Op("+", R("p"), One)>>))>>),
    Def("h", <<>>, <<Ret(R("p"))>>),
    Def("h", <<>>, <<Set("p", N(5)), Echo(R("p")), Ret(R("p"))>>) }

Tails == { <<Ret(R("p"))>>, <<>> }

TopPool ==
  { Echo(Call("f", <<One>>)),
    Set("x", Call("f", <<R("x")>>)),
    Do(Call("f", <<>>)),
    Echo(Call("f", <<One, N(2)>>)),
    Echo(Op("+", Call("f", <<N(2)>>), R("x"))),
    Echo(Un("-", R("g"))),
    Set("g", Par(Call("f", <<R("g")>>))),
    Set("x", R("u")),
    Set("x", Call("print", <<One>>)),
    Var("x", N(3)),
    If(Less, <<Inc, Echo(R("x"))>>),
    IfElse(B(FALSE), <<>>, Var("y", One)),
    If(R("x"), <<Inc>>),
    While(Less, <<Inc>>),
    While(Less, <<Inc, If(Less, <<Nxt>>), Brk>>),
    While(B(TRUE), <<Def("k", <<>>, <<Brk>>), Do(Call("k", <<>>))>>),
    While(B(TRUE), <<Set("x", R("u"))>>),
    Set("x", Op("and", B(TRUE), Call("f", <<R("u")>>))),
    Def("k", <<"q">>, <<Set("x", R("q")), Ret(R("x"))>>),
    Echo(Call("k", <<N(4)>>)),
    Echo(Op("/", One, N(0))) }

Programs_ ==
  { <<Var("g", One),
      Def("f", <<"p">>, <<s>> \o t),
      Toplevel(<<Block(<<Var("x", One), s1, s2>>)>>)>> :
        s \in FunPool, t \in Tails, s1 \in TopPool, s2 \in TopPool }

Trees == NodesOf({p[i] : p \in Programs_, i \in 1 .. 3})
Node_ == Trees
=============================================================================
