---------------------------- MODULE MCEvalIdioms ----------------------------
(***************************************************************************)
(* Programs that use the language in ordinary ways the interpreter does    *)
(* not support.                                                            *)
(***************************************************************************)
EXTENDS Eval, Syntax

Below(x, n) == Op("<", R(x), N(n))

(* fun f(p) { if p < 1 { ret 0 } ret p }    print(f(0)) *)
EarlyReturn ==
  { <<Def("f", <<"p">>, <<If(Below("p", 1), <<Ret(N(0))>>), Ret(R("p"))>>),
      Toplevel(<<Echo(Call("f", <<N(0)>>))>>)>> }

(* { fun h(n) { if n < 1 { ret 0 } else { ret h(n - 1) } }  print(h(1)) } *)
NestedRecursion ==
  { <<Toplevel(<<Block(<<
        Def("h", <<"n">>,
            <<IfElse(Below("n", 1), <<Ret(N(0))>>,
                     Block(<<Ret(Call("h", <<Op("-", R("n"), N(1))>>))>>))>>),
        Echo(Call("h", <<N(1)>>))>>)>>)>> }

Trees == LET programs == EarlyReturn \cup NestedRecursion
         IN  NodesOf(UNION {{p[i] : i \in 1 .. Len(p)} : p \in programs})
Node_ == Trees
=============================================================================
