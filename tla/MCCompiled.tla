----------------------------- MODULE MCCompiled -----------------------------
(***************************************************************************)
(* Compiled on programs of a function that makes closures, a function with *)
(* up to three statements of the pool, and a block that calls it with a    *)
(* closure; and with global variables.                                     *)
(***************************************************************************)
EXTENDS Compiled

S == INSTANCE Syntax

N0 == S!N(0)
C  == S!Op("<", N0, N0)
Make(x) == S!Call("mk", <<x>>)

(* fun mk(a) { fun c() { ret a } ret c }                                   *)
Maker == S!Def("mk", <<"a">>, <<S!Def("c", <<>>, <<S!Ret(S!R("a"))>>), S!Ret(S!R("c"))>>)

V == S!Var("v", Make(S!R("p")))
W == S!Var("w", Make(N0))

Leaves == {S!Ret(S!R("v")), S!Ret(N0)}

Simple ==
  { W, S!Var("w", Make(S!R("v"))), S!Do(S!Call("v", <<>>)), S!Do(Make(S!R("v"))),
    S!Set("p", S!R("v")), S!Set("v", Make(N0)), S!Set("v", S!R("p")),
    S!Do(Make(S!Call("p", <<>>))), S!Var("w", S!R("v")),
    S!Def("h", <<>>, <<S!Set("v", S!R("v")), S!Ret(S!R("v"))>>) }

Jumps == {S!Brk, S!Nxt}

Conditionals ==
  {S!If(C, <<a>>) : a \in Simple \cup Leaves}
  \cup {S!IfElse(C, <<W, a>>, S!Block(<<b>>)) : a, b \in Leaves \cup {S!Set("v", S!R("p"))}}
  \cup {S!IfElse(C, <<S!Ret(N0)>>, S!IfElse(C, <<W>>, S!Block(<<S!Ret(S!R("p"))>>)))}

InLoops == Simple \cup Leaves \cup Jumps \cup
  {S!If(C, <<W, j>>) : j \in Jumps \cup Leaves}
  \cup {S!IfElse(C, <<j>>, S!Block(<<W, k>>)) : j, k \in Jumps \cup Leaves}
  \cup {S!Block(<<W, j>>) : j \in Jumps}

Loops == {S!While(C, <<W, a>>) : a \in {a \in InLoops : a.kind # "var"}}
         \cup {S!While(C, <<S!If(C, <<S!Ret(S!R("p"))>>), W, j>>) : j \in Jumps}

(* A function has no operator, and is no condition.                        *)
Stops == {S!Do(S!Op("<", S!R("v"), N0)), S!If(S!R("v"), <<W>>)}

Pool == Simple \cup Stops \cup Conditionals \cup Loops \cup {S!Block(<<W>>)}
Seconds == Leaves \cup {W, S!Block(<<S!Var("w", Make(S!R("v")))>>), S!While(C, <<W, S!Brk>>),
                       S!IfElse(C, <<W, S!Ret(N0)>>, S!Block(<<S!Ret(S!R("v"))>>))}

Functions ==
  {S!Def("g", <<"p">>, <<V, a>>) : a \in Pool \cup Leaves}
  \cup {S!Def("g", <<"p">>, <<V, a, b>>) : a \in Conditionals \cup Loops, b \in Seconds}

Main == S!Toplevel(<<S!Block(<<S!Var("m", Make(N0)), S!Var("r", S!Call("g", <<S!R("m")>>))>>)>>)

(* Programs with a global variable, used in a function and in the block,   *)
(* and with print as a value.                                              *)
X == S!Var("x", Make(N0))
Y == {S!Var("y", e) : e \in {Make(S!R("x")), S!R("x"), S!R("mk"), S!R("print"), S!R("z"),
                             S!Call("g", <<S!R("x")>>), S!NoNode}}
     \cup {X, S!Var("mk", Make(N0))}

Prints == {S!Var("w", S!R("print")), S!Do(S!Call("w", <<N0>>)), S!Do(S!Call("x", <<>>)),
           S!Do(S!Call("print", <<S!R("x")>>)), S!Set("x", S!R("print")), S!Do(Make(S!R("print")))}
OnGlobals ==
  { S!Set("x", Make(N0)), S!Set("x", S!R("p")), S!Set("x", S!R("x")), S!Set("mk", N0),
    S!Do(Make(S!R("x"))), S!Var("w", Make(S!R("x"))), S!Var("w", S!R("x")),
    S!Ret(S!R("x")), S!Var("x", Make(S!R("x"))), S!Var("x", Make(S!R("p"))),
    S!Def("h", <<>>, <<S!Ret(S!R("x"))>>),
    S!While(C, <<S!Set("x", Make(S!R("x")))>>), S!If(C, <<S!Ret(S!R("x"))>>) } \cup Prints

OfGlobals == {S!Def("g", <<"p">>, <<a, b>>) : a, b \in OnGlobals}

GlobalPrograms ==
  {<<Maker, X, f, Main>> : f \in OfGlobals}
  \cup {<<Maker, X, y, S!Def("g", <<"p">>, <<a>>), Main>> : y \in Y, a \in OnGlobals}
  \cup {<<Maker, S!Def("g", <<"p">>, <<a>>), X, Main>> : a \in OnGlobals}

Programs_ == {<<Maker, f, Main>> : f \in Functions} \cup GlobalPrograms
=============================================================================
