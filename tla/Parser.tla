------------------------------- MODULE Parser -------------------------------
(***************************************************************************)
(* The recursive descent parser of Cocodol (parser.c).  The C call stack   *)
(* is the sequence `calls`: each item is a function about to begin, or a   *)
(* place in one that waits for a nested call, with its locals.  `ret` is   *)
(* what the last call returned.  Nodes live in the arena `nodes` and are   *)
(* named by their position in it; 0 is no node.                            *)
(***************************************************************************)
EXTENDS TokenWindow

CONSTANTS
    Inputs,        \* the token sequences to parse
    Language,      \* those of them that are sources of the language
    VecCapacity,   \* INITIAL_VEC_CAPACITY, 64 in the code
    MaxParams      \* MAX_PARAM_COUNT, 64 in the code

(* No token has the kind that stands for the end of the source below.      *)
Token == [kind : STRING \ {"end"}, line : BOOLEAN]

ASSUME BoundsAssumption ==
    /\ Inputs \subseteq Seq(Token)
    /\ Language \subseteq Inputs
    /\ VecCapacity \in Nat \ {0}
    /\ MaxParams \in Nat \ {0}

VARIABLES
    input,      \* the tokens of the source: kind, and whether a line begins
    window,     \* lookahead_buffer and its indices
    calls,      \* the calls in progress, the innermost first
    ret,        \* the node the last call returned
    nodes,      \* context->nodes
    scope,      \* self->scope, 0 for none
    reported,   \* report_diag has been called
    outcome,    \* "run", "done", "abort" or "undefined"
    decls       \* the declarations parse returns

vars == <<input, window, calls, ret, nodes, scope, reported, outcome, decls>>

(* Precedence levels of the infix operators, from the lowest, one or two   *)
(* operators for each; prefix-only operators have none.                    *)
Level == [assign |-> 1, or |-> 2, and |-> 3, lt |-> 4, plus |-> 5, minus |-> 5,
          star |-> 6, shift |-> 7, not |-> 0, tilde |-> 0]
Shift == 7

PrefixKinds == {"plus", "minus", "not", "tilde"}
DeclKinds   == {"var", "fun", "obj"}

-----------------------------------------------------------------------------
(* Tokens.                                                                 *)

n == Len(input)

(* The kind of the token peek returns; in a slot that was never read it is *)
(* that of zeroed memory, as Parser.swift makes it.                        *)
Kind(w) ==
    LET t == TokenAt(w, n)
    IN  IF t = Null THEN "end" ELSE IF t = Unread THEN "error" ELSE input[t].kind

Look    == Peeked(window, n)
Take(w) == Consumed(w, n)
Current == Kind(window)

(* The number of tokens consumed, and of consumptions at the end.          *)
Eaten == window.read - (window.end - window.start)

(* A token that can end a statement; the first of the source cannot.       *)
Delimits(t, terminator) ==
    /\ t \notin {1, Unread}
    /\ input[t].kind \in {"semicolon", terminator} \/ input[t].line

-----------------------------------------------------------------------------
(* Nodes and calls.                                                        *)

(* A node with the tokens it keeps (0 for one that is missing), its        *)
(* children, and for a block its declarations, the last one first, and the *)
(* block around it.                                                        *)
Node(kind, toks, kids) ==
    [kind |-> kind, toks |-> toks, kids |-> kids, decls |-> <<>>, outer |-> 0]

New(kind, toks, kids) == Append(nodes, Node(kind, toks, kids))
NewId == Len(nodes) + 1
ErrorNode == Node("error", <<>>, <<>>)

(* from, history only: how many tokens were consumed before the statement. *)
Call(at) == [at |-> at, node |-> 0, level |-> 1, list |-> <<>>, from |-> 0]
Expr     == Call("infix")

(* Waiting for the last child of a node that exists already.               *)
Complete(node, kids) == [Call("complete") EXCEPT !.node = node, !.list = kids]

This        == Head(calls)
Running(at) == outcome = "run" /\ calls # <<>> /\ This.at = at

Goto(first) == calls' = first \o Tail(calls)
Return(id)  == ret' = id /\ calls' = Tail(calls)
Report(if)  == reported' = (reported \/ if)
Keep        == UNCHANGED <<input, outcome, decls>>

Stop(how) ==
    /\ outcome' = how
    /\ UNCHANGED <<input, window, calls, ret, nodes, scope, reported, decls>>

(* Writing behind a local array, before the assertion on the count.        *)
Overflow == \E how \in {"abort", "undefined"} : Stop(how)

Init ==
    /\ input \in Inputs
    /\ window = EmptyWindow
    /\ calls = <<Call("stmts")>>
    /\ ret = 0 /\ nodes = <<>> /\ scope = 0
    /\ reported = FALSE /\ outcome = "run" /\ decls = <<>>

-----------------------------------------------------------------------------
(* Declarations.                                                           *)

AfterKeyword == Take(window)
NameMissing  == Kind(AfterKeyword) # "name"
AfterName    == IF NameMissing THEN Peeked(AfterKeyword, n) ELSE Take(AfterKeyword)
Name         == IF NameMissing THEN 0 ELSE TokenAt(AfterKeyword, n)

(* Mutant: a declaration is registered in the block around the scope.      *)
Declared_outside(kind) ==
    LET all   == New(kind, <<Name>>, <<>>)
        outer == IF scope = 0 THEN 0 ELSE nodes[scope].outer
    IN  IF outer = 0 THEN all
        ELSE [all EXCEPT ![outer].decls = <<NewId>> \o @]

(* The nodes with a new declaration, registered in its block.              *)
Declared(kind) ==
    LET all == New(kind, <<Name>>, <<>>)
    IN  IF scope = 0 THEN all
        ELSE [all EXCEPT ![scope].decls = <<NewId>> \o @]

DeclAtEnd ==
    /\ \E kind \in DeclKinds : Running(kind)
    /\ Kind(AfterKeyword) = "end"
    /\ nodes' = Append(nodes, ErrorNode)
    /\ window' = AfterKeyword
    /\ reported' = TRUE
    /\ Return(NewId)
    /\ Keep /\ UNCHANGED scope

NameOf(kind) == Running(kind) /\ Kind(AfterKeyword) # "end"

VarWithInit ==
    /\ NameOf("var")
    /\ Kind(AfterName) = "assign"
    /\ nodes' = Declared("var")
    /\ Report(NameMissing)
    /\ window' = Take(AfterName)
    /\ Goto(<<Expr, Complete(NewId, <<>>)>>)
    /\ Keep /\ UNCHANGED <<scope, ret>>

VarWithout ==
    /\ NameOf("var")
    /\ Kind(AfterName) \notin {"assign", "end"}
    /\ nodes' = Declared("var")
    /\ Report(NameMissing)
    /\ window' = AfterName
    /\ Return(NewId)
    /\ Keep /\ UNCHANGED scope

(* The end of the declaration is that of a token that is not there.        *)
VarLast == NameOf("var") /\ Kind(AfterName) = "end" /\ Stop("undefined")

FunDecl ==
    /\ NameOf("fun")
    /\ Kind(AfterName) = "l_paren"
    /\ nodes' = Declared("fun")
    /\ Report(NameMissing)
    /\ window' = Take(AfterName)
    /\ Goto(<<[Call("params") EXCEPT !.node = NewId]>>)
    /\ Keep /\ UNCHANGED <<scope, ret>>

(* The count is ~0, for which no memory can be allocated.                  *)
FunNoParams == NameOf("fun") /\ Kind(AfterName) # "l_paren" /\ Stop("undefined")

(* The loop of parse_param_list.                                           *)
NextParam ==
    /\ Running("params")
    /\ Current \notin {"end", "r_paren"}
    /\ window' = Look
    /\ Report(Current = "comma")
    /\ Goto(<<[This EXCEPT !.at = "param"]>>)
    /\ Keep /\ UNCHANGED <<ret, nodes, scope>>

(* Any number of commas in front of a parameter or an argument.            *)
SkipComma ==
    /\ Running("param") \/ Running("item")
    /\ Current = "comma"
    /\ window' = Take(window)
    /\ Keep /\ UNCHANGED <<calls, ret, nodes, scope, reported>>

NoParam ==
    /\ Running("param")
    /\ Current = "end"
    /\ window' = Look
    /\ Goto(<<[This EXCEPT !.at = "params"]>>)
    /\ Keep /\ UNCHANGED <<ret, nodes, scope, reported>>

Param ==
    LET named == Current = "name"
        rest  == IF named THEN Take(window) ELSE Look
        token == IF named THEN TokenAt(window, n) ELSE 0
    IN  /\ Running("param")
        /\ Current \notin {"comma", "end"}
        /\ \/ Len(This.list) >= MaxParams /\ Overflow
           \/ /\ Len(This.list) < MaxParams
              /\ Goto(<<[This EXCEPT !.at = "params", !.list = Append(@, token)]>>)
              /\ window' = IF Kind(rest) = "comma" THEN Take(rest) ELSE Peeked(rest, n)
              /\ Report(~named \/ Kind(rest) \notin {"comma", "r_paren", "end"})
              /\ Keep /\ UNCHANGED <<ret, nodes, scope>>

(* The end of the parameter list and what follows in parse_fun_decl.       *)
CloseParams ==
    LET closed == Current = "r_paren"
        rest   == IF closed THEN Take(window) ELSE Look
        named  == [nodes EXCEPT ![This.node].toks = @ \o This.list]
    IN  /\ Running("params")
        /\ Current \in {"end", "r_paren"}
        /\ window' = Peeked(rest, n)
        /\ Report(~closed \/ Kind(rest) # "l_brace")
        /\ IF Kind(rest) = "l_brace"
           THEN /\ nodes' = named
                /\ Goto(<<Call("brace"), Complete(This.node, <<>>)>>)
                /\ UNCHANGED ret
           ELSE /\ nodes' = Append([named EXCEPT ![This.node].kids = <<NewId>>], ErrorNode)
                /\ Return(This.node)
        /\ Keep /\ UNCHANGED scope

ObjDecl ==
    /\ NameOf("obj")
    /\ Kind(AfterName) # "end"
    /\ window' = AfterName
    /\ Report(NameMissing \/ Kind(AfterName) # "l_brace")
    /\ IF Kind(AfterName) = "l_brace"
       THEN /\ nodes' = Declared("obj")
            /\ Goto(<<Call("brace"), Complete(NewId, <<>>)>>)
            /\ UNCHANGED ret
       ELSE /\ nodes' = Append([Declared("obj") EXCEPT ![NewId].kids = <<NewId + 1>>],
                               ErrorNode)
            /\ Return(NewId)
    /\ Keep /\ UNCHANGED scope

(* The report is at the start of a token that is not there.                *)
ObjLast == NameOf("obj") /\ Kind(AfterName) = "end" /\ Stop("undefined")

(* The last child of a node has been parsed.                               *)
Completed ==
    /\ Running("complete")
    /\ nodes' = [nodes EXCEPT ![This.node].kids = Append(This.list, ret)]
    /\ Return(This.node)
    /\ Keep /\ UNCHANGED <<window, scope, reported>>

-----------------------------------------------------------------------------
(* Expressions.                                                            *)

Infix ==
    /\ Running("infix")
    /\ Goto(<<Call("prefix"), [This EXCEPT !.at = "lhs"]>>)
    /\ Keep /\ UNCHANGED <<window, ret, nodes, scope, reported>>

Lhs ==
    /\ Running("lhs")
    /\ IF nodes[ret].kind = "error"
       THEN Return(ret)
       ELSE /\ Goto(<<[This EXCEPT !.at = "operators", !.list = <<ret>>]>>)
            /\ UNCHANGED ret
    /\ Keep /\ UNCHANGED <<window, nodes, scope, reported>>

(* Mutant: the right operand takes operators of the same level too.        *)
RightOf_same(k) ==
    IF Level[k] = Shift THEN Call("prefix") ELSE [Expr EXCEPT !.level = Level[k]]

(* The call for the right operand: higher levels only.                     *)
RightOf(k) ==
    IF Level[k] = Shift THEN Call("prefix") ELSE [Expr EXCEPT !.level = Level[k] + 1]

IsInfix(k, level) == k \in DOMAIN Level /\ Level[k] >= level

Operator ==
    /\ Running("operators")
    /\ IsInfix(Current, This.level)
    /\ window' = Take(window)
    /\ Goto(<<RightOf(Current),
              [This EXCEPT !.at = "rhs", !.list = Append(@, TokenAt(window, n))]>>)
    /\ Keep /\ UNCHANGED <<ret, nodes, scope, reported>>

NoOperator ==
    /\ Running("operators")
    /\ ~IsInfix(Current, This.level)
    /\ window' = Look
    /\ Return(This.list[1])
    /\ Keep /\ UNCHANGED <<nodes, scope, reported>>

Rhs ==
    /\ Running("rhs")
    /\ nodes' = New("binary", <<This.list[2]>>, <<This.list[1], ret>>)
    /\ Goto(<<[This EXCEPT !.at = "operators", !.list = <<NewId>>]>>)
    /\ Keep /\ UNCHANGED <<window, ret, scope, reported>>

(* Mutant: a prefix operator takes the next operand only.                  *)
PrefixOperator_tight ==
    /\ Running("prefix")
    /\ Current \in PrefixKinds
    /\ window' = Take(window)
    /\ Goto(<<Call("prefix"), [Call("operand") EXCEPT !.list = <<TokenAt(window, n)>>]>>)
    /\ Keep /\ UNCHANGED <<ret, nodes, scope, reported>>

PrefixOperator ==
    /\ Running("prefix")
    /\ Current \in PrefixKinds
    /\ window' = Take(window)
    /\ Goto(<<Expr, [Call("operand") EXCEPT !.list = <<TokenAt(window, n)>>]>>)
    /\ Keep /\ UNCHANGED <<ret, nodes, scope, reported>>

NoPrefix ==
    /\ Running("prefix")
    /\ Current \notin PrefixKinds
    /\ window' = Look
    /\ Goto(<<Call("primary"), Call("postfix")>>)
    /\ Keep /\ UNCHANGED <<ret, nodes, scope, reported>>

Operand ==
    /\ Running("operand")
    /\ nodes' = New("unary", This.list, <<ret>>)
    /\ Return(NewId)
    /\ Keep /\ UNCHANGED <<window, scope, reported>>

(* A literal or a name.                                                    *)
Atom ==
    /\ Running("primary")
    /\ Current \in {"literal", "name"}
    /\ window' = Take(window)
    /\ nodes' = New(Current, <<TokenAt(window, n)>>, <<>>)
    /\ Return(NewId)
    /\ Keep /\ UNCHANGED <<scope, reported>>

OpenParen ==
    /\ Running("primary")
    /\ Current = "l_paren"
    /\ window' = Take(window)
    /\ Goto(<<Expr, Call("paren")>>)
    /\ Keep /\ UNCHANGED <<ret, nodes, scope, reported>>

(* An expression is missing at the end; that too is consumed.              *)
ExprAtEnd ==
    /\ Running("primary")
    /\ Current = "end"
    /\ window' = Take(window)
    /\ nodes' = Append(nodes, ErrorNode)
    /\ reported' = TRUE
    /\ Return(NewId)
    /\ Keep /\ UNCHANGED scope

(* Mutant: a token that begins no expression is left to the caller.        *)
NoExpr_kept ==
    /\ Running("primary")
    /\ Current \notin {"literal", "name", "l_paren", "end"}
    /\ window' = Look
    /\ nodes' = Append(nodes, ErrorNode)
    /\ reported' = TRUE
    /\ Return(NewId)
    /\ Keep /\ UNCHANGED scope

(* Whatever else the token is, it is consumed.                             *)
NoExpr ==
    /\ Running("primary")
    /\ Current \notin {"literal", "name", "l_paren", "end"}
    /\ window' = Take(window)
    /\ nodes' = Append(nodes, ErrorNode)
    /\ reported' = TRUE
    /\ Return(NewId)
    /\ Keep /\ UNCHANGED scope

CloseParen ==
    /\ Running("paren")
    /\ window' = IF Current = "r_paren" THEN Take(window) ELSE Look
    /\ Report(Current # "r_paren")
    /\ nodes' = New("paren", <<>>, <<ret>>)
    /\ Return(NewId)
    /\ Keep /\ UNCHANGED scope

PostfixDone ==
    /\ Running("postfix")
    /\ nodes[ret].kind = "error" \/ Current \notin {"dot", "l_paren"}
    /\ window' = IF nodes[ret].kind = "error" THEN window ELSE Look
    /\ Return(ret)
    /\ Keep /\ UNCHANGED <<nodes, scope, reported>>

Member ==
    LET rest == Take(window)
    IN  /\ Running("postfix")
        /\ nodes[ret].kind # "error" /\ Current = "dot"
        /\ IF Kind(rest) = "name"
           THEN /\ window' = Take(rest)
                /\ nodes' = New("member", <<TokenAt(rest, n)>>, <<ret>>)
                /\ ret' = NewId
                /\ UNCHANGED <<calls, reported>>
           ELSE /\ window' = Peeked(rest, n)
                /\ nodes' = [nodes EXCEPT ![ret].kind = "error"]
                /\ reported' = TRUE
                /\ Return(ret)
        /\ Keep /\ UNCHANGED scope

OpenArgs ==
    /\ Running("postfix")
    /\ nodes[ret].kind # "error" /\ Current = "l_paren"
    /\ window' = Take(window)
    /\ Goto(<<[Call("args") EXCEPT !.list = <<ret>>]>>)
    /\ Keep /\ UNCHANGED <<ret, nodes, scope, reported>>

(* The loop of parse_expr_list, up to the argument.                        *)
NextArg ==
    /\ Running("args")
    /\ Current \notin {"end", "r_paren"}
    /\ window' = Look
    /\ Report(Current = "comma")
    /\ Goto(<<[This EXCEPT !.at = "item"]>>)
    /\ Keep /\ UNCHANGED <<ret, nodes, scope>>

Arg ==
    /\ Running("item")
    /\ Current # "comma"
    /\ window' = Look
    /\ Goto(<<Expr, [This EXCEPT !.at = "arg"]>>)
    /\ Keep /\ UNCHANGED <<ret, nodes, scope, reported>>

(* Mutant: the comma behind an argument is left to the next turn.          *)
ArgParsed_keeps_comma ==
    /\ Running("arg")
    /\ \/ Len(This.list) > MaxParams /\ Overflow
       \/ /\ Len(This.list) <= MaxParams
          /\ Goto(<<[This EXCEPT !.at = "args", !.list = Append(@, ret)]>>)
          /\ window' = Look
          /\ Report(Current \notin {"comma", "r_paren", "end"})
          /\ Keep /\ UNCHANGED <<ret, nodes, scope>>

(* The rest of that turn: the argument is stored, then checked for room.   *)
ArgParsed ==
    /\ Running("arg")
    /\ \/ Len(This.list) > MaxParams /\ Overflow
       \/ /\ Len(This.list) <= MaxParams
          /\ Goto(<<[This EXCEPT !.at = "args", !.list = Append(@, ret)]>>)
          /\ window' = IF Current = "comma" THEN Take(window) ELSE Look
          /\ Report(Current \notin {"comma", "r_paren", "end"})
          /\ Keep /\ UNCHANGED <<ret, nodes, scope>>

CloseArgs ==
    /\ Running("args")
    /\ Current \in {"end", "r_paren"}
    /\ window' = IF Current = "r_paren" THEN Take(window) ELSE Look
    /\ Report(Current = "end")
    /\ nodes' = New("apply", <<>>, This.list)
    /\ ret' = NewId
    /\ Goto(<<Call("postfix")>>)
    /\ Keep /\ UNCHANGED scope

-----------------------------------------------------------------------------
(* Statements.                                                             *)

Terminator(list) == IF list.node = 0 THEN "eof" ELSE "r_brace"

(* Mutant: a semicolon is skipped but not consumed.                        *)
SkipSemicolon_peeks ==
    /\ Running("stmts")
    /\ Current = "semicolon"
    /\ window' = Look
    /\ Keep /\ UNCHANGED <<calls, ret, nodes, scope, reported>>

(* Any number of semicolons in front of a statement.                       *)
SkipSemicolon ==
    /\ Running("stmts")
    /\ Current = "semicolon"
    /\ window' = Take(window)
    /\ Keep /\ UNCHANGED <<calls, ret, nodes, scope, reported>>

NextStmt ==
    /\ Running("stmts")
    /\ Current \notin {"semicolon", "end", Terminator(This)}
    /\ window' = Look
    /\ Goto(<<Call("stmt"), [This EXCEPT !.at = "stmt_done", !.from = Eaten]>>)
    /\ Keep /\ UNCHANGED <<ret, nodes, scope, reported>>

(* The buffer of the statements grows once: its new capacity is not noted. *)
BufferSize == 2 * VecCapacity

StmtParsed ==
    LET next == IF nodes[ret].kind = "error" THEN "recover" ELSE "stmts"
    IN  /\ Running("stmt_done")
        /\ \/ Len(This.list) >= BufferSize /\ Stop("undefined")
           \/ /\ Len(This.list) < BufferSize
              /\ Goto(<<[This EXCEPT !.at = next, !.list = Append(@, ret)]>>)
              /\ Keep /\ UNCHANGED <<window, ret, nodes, scope, reported>>

(* A statement that failed is followed by nothing up to a delimiter.       *)
AtDelimiter == Current # "end" => Delimits(TokenAt(window, n), Terminator(This))

Recover ==
    /\ Running("recover")
    /\ IF AtDelimiter
       THEN window' = Look /\ Goto(<<[This EXCEPT !.at = "stmts"]>>)
       ELSE window' = Take(window) /\ UNCHANGED calls
    /\ Keep /\ UNCHANGED <<ret, nodes, scope, reported>>

(* The functions parse_stmt and parse_decl choose from.                    *)
Productions ==
    [var |-> "var", fun |-> "fun", obj |-> "obj", l_brace |-> "brace",
     if |-> "if", while |-> "while", brk |-> "brk", nxt |-> "nxt", ret |-> "ret"]

StmtAtEnd ==
    /\ Running("stmt")
    /\ Current = "end"
    /\ nodes' = Append(nodes, ErrorNode)
    /\ reported' = TRUE
    /\ Return(NewId)
    /\ Keep /\ UNCHANGED <<window, scope>>

Production ==
    /\ Running("stmt")
    /\ Current \in DOMAIN Productions
    /\ window' = Look
    /\ Goto(<<Call(Productions[Current])>>)
    /\ Keep /\ UNCHANGED <<ret, nodes, scope, reported>>

ExprStmt ==
    /\ Running("stmt")
    /\ Current \notin DOMAIN Productions \cup {"end"}
    /\ window' = Look
    /\ Goto(<<Expr, Call("expr_stmt")>>)
    /\ Keep /\ UNCHANGED <<ret, nodes, scope, reported>>

WrapExpr ==
    /\ Running("expr_stmt")
    /\ nodes' = New("expr_stmt", <<>>, <<ret>>)
    /\ Return(NewId)
    /\ Keep /\ UNCHANGED <<window, scope, reported>>

OpenBrace ==
    /\ Running("brace")
    /\ window' = Take(window)
    /\ nodes' = Append(nodes, [Node("brace", <<>>, <<>>) EXCEPT !.outer = scope])
    /\ scope' = NewId
    /\ Goto(<<[Call("stmts") EXCEPT !.node = NewId]>>)
    /\ Keep /\ UNCHANGED <<ret, reported>>

(* Mutant: a block that is not closed leaves its scope in place.           *)
CloseBrace_early_return ==
    /\ Running("stmts") /\ This.node # 0
    /\ Current \in {"end", "r_brace"}
    /\ nodes' = [nodes EXCEPT ![This.node].kids = This.list]
    /\ scope' = IF Current = "end" THEN scope ELSE nodes[This.node].outer
    /\ window' = IF Current = "r_brace" THEN Take(window) ELSE Look
    /\ Report(Current = "end")
    /\ Return(This.node)
    /\ Keep

CloseBrace ==
    /\ Running("stmts") /\ This.node # 0
    /\ Current \in {"end", "r_brace"}
    /\ nodes' = [nodes EXCEPT ![This.node].kids = This.list]
    /\ scope' = nodes[This.node].outer
    /\ window' = IF Current = "r_brace" THEN Take(window) ELSE Look
    /\ Report(Current = "end")
    /\ Return(This.node)
    /\ Keep

(* if, while and ret: a node, then an expression.                          *)
Keyword(kind, next) ==
    /\ Running(kind)
    /\ window' = Take(window)
    /\ nodes' = New(kind, <<>>, <<>>)
    /\ Goto(<<Expr, [next EXCEPT !.node = NewId]>>)
    /\ Keep /\ UNCHANGED <<ret, scope, reported>>

IfStmt    == Keyword("if", Call("then"))
WhileStmt == Keyword("while", Call("body"))
RetStmt   == Keyword("ret", Call("complete"))

(* The condition has been parsed; a branch must be a block.                *)
Then ==
    LET next == [This EXCEPT !.at = "else", !.list = <<ret>>]
        braced == Current = "l_brace"
    IN  /\ Running("then")
        /\ window' = Look
        /\ Report(~braced)
        /\ IF braced
           THEN Goto(<<Call("brace"), next>>) /\ UNCHANGED <<ret, nodes>>
           ELSE /\ nodes' = Append(nodes, ErrorNode)
                /\ ret' = NewId
                /\ Goto(<<next>>)
        /\ Keep /\ UNCHANGED scope

Else ==
    LET branches == Append(This.list, ret)
    IN  /\ Running("else")
        /\ IF Current = "else"
           THEN /\ window' = Take(window)
                /\ Goto(<<Call("stmt"), Complete(This.node, branches)>>)
                /\ UNCHANGED <<ret, nodes>>
           ELSE /\ window' = Look
                /\ nodes' = [nodes EXCEPT ![This.node].kids = branches]
                /\ Return(This.node)
        /\ Keep /\ UNCHANGED <<scope, reported>>

Body ==
    LET braced == Current = "l_brace"
    IN  /\ Running("body")
        /\ window' = Look
        /\ Report(~braced)
        /\ IF braced
           THEN /\ Goto(<<Call("brace"), Complete(This.node, <<ret>>)>>)
                /\ UNCHANGED <<ret, nodes>>
           ELSE /\ nodes' = Append([nodes EXCEPT ![This.node].kids = <<ret, NewId>>],
                                   ErrorNode)
                /\ Return(This.node)
        /\ Keep /\ UNCHANGED scope

BrkOrNxt ==
    /\ \E kind \in {"brk", "nxt"} :
         Running(kind) /\ nodes' = New(kind, <<>>, <<>>)
    /\ window' = Take(window)
    /\ Return(NewId)
    /\ Keep /\ UNCHANGED <<scope, reported>>

-----------------------------------------------------------------------------
(* Top level: the statements between two declarations become one.          *)

(* `gather` goes through the statements, and `run` under it keeps those    *)
(* since the last declaration.                                             *)
EndOfSource ==
    /\ Running("stmts") /\ This.node = 0
    /\ Current \in {"end", "eof"}
    /\ window' = Look
    /\ Goto(<<[This EXCEPT !.at = "gather"], Call("run")>>)
    /\ Keep /\ UNCHANGED <<ret, nodes, scope, reported>>

Run          == calls[2].list
GathersDecl  == This.list # <<>> /\ nodes[Head(This.list)].kind \in DeclKinds

GatherStmt ==
    /\ Running("gather") /\ This.list # <<>> /\ ~GathersDecl
    /\ calls' = <<[This EXCEPT !.list = Tail(@)],
                  [calls[2] EXCEPT !.list = Append(@, Head(This.list))]>>
    /\ Keep /\ UNCHANGED <<window, ret, nodes, scope, reported>>

WrapRun ==
    /\ Running("gather") /\ (This.list = <<>> \/ GathersDecl)
    /\ Run # <<>>
    /\ nodes' = New("top", <<>>, Run)
    /\ decls' = Append(decls, NewId)
    /\ calls' = <<This, Call("run")>>
    /\ UNCHANGED <<input, window, ret, scope, reported, outcome>>

GatherDecl ==
    /\ Running("gather") /\ GathersDecl /\ Run = <<>>
    /\ decls' = Append(decls, Head(This.list))
    /\ calls' = <<[This EXCEPT !.list = Tail(@)], Call("run")>>
    /\ UNCHANGED <<input, window, ret, nodes, scope, reported, outcome>>

Finish ==
    /\ Running("gather") /\ This.list = <<>> /\ Run = <<>>
    /\ outcome' = "done"
    /\ calls' = <<>>
    /\ UNCHANGED <<input, window, ret, nodes, scope, reported, decls>>

Declaration ==
    \/ DeclAtEnd \/ VarWithInit \/ VarWithout \/ VarLast
    \/ FunDecl \/ FunNoParams \/ NextParam \/ SkipComma \/ NoParam \/ Param
    \/ CloseParams \/ ObjDecl \/ ObjLast \/ Completed

Expression ==
    \/ Infix \/ Lhs \/ Operator \/ NoOperator \/ Rhs
    \/ PrefixOperator \/ NoPrefix \/ Operand
    \/ Atom \/ OpenParen \/ ExprAtEnd \/ NoExpr \/ CloseParen
    \/ PostfixDone \/ Member \/ OpenArgs \/ NextArg \/ Arg \/ ArgParsed \/ CloseArgs

Statement ==
    \/ SkipSemicolon \/ NextStmt \/ StmtParsed \/ Recover
    \/ StmtAtEnd \/ Production \/ ExprStmt \/ WrapExpr
    \/ OpenBrace \/ CloseBrace \/ IfStmt \/ Then \/ Else
    \/ WhileStmt \/ Body \/ BrkOrNxt \/ RetStmt
    \/ EndOfSource \/ GatherStmt \/ WrapRun \/ GatherDecl \/ Finish

Next == Declaration \/ Expression \/ Statement

Spec     == Init /\ [][Next]_vars
FairSpec == Spec /\ WF_vars(Next)

-----------------------------------------------------------------------------
(* Properties.                                                             *)

Labels == {"stmts", "stmt_done", "recover", "stmt", "expr_stmt", "brace", "complete",
           "params", "param", "then", "else", "body", "infix", "lhs", "operators", "rhs",
           "prefix", "operand", "primary", "paren", "postfix", "args", "item", "arg",
           "var", "fun", "obj", "if", "while", "brk", "nxt", "ret", "gather", "run"}

TypeOK ==
    /\ window.start \in 0 .. WindowLength - 1
    /\ window.end \in 0 .. SizeRange - 1
    /\ window.read \in 0 .. n
    /\ \A i \in DOMAIN calls : /\ calls[i].at \in Labels
                               /\ calls[i].node \in 0 .. Len(nodes)
    /\ ret \in 0 .. Len(nodes)
    /\ scope \in 0 .. Len(nodes)
    /\ \A id \in DOMAIN nodes :
         /\ \A i \in DOMAIN nodes[id].kids : nodes[id].kids[i] \in DOMAIN nodes
         /\ \A i \in DOMAIN nodes[id].toks : nodes[id].toks[i] \in 0 .. n
         /\ \A i \in DOMAIN nodes[id].decls : nodes[id].decls[i] \in DOMAIN nodes
    /\ \A i \in DOMAIN decls : decls[i] \in DOMAIN nodes
    /\ outcome \in {"run", "done", "abort", "undefined"}

(* peek never goes back: the next token is the last one read or one that   *)
(* has not been read (parser.c 34, 48).                                    *)
NeverGoesBack == TokenAt(window, n) \in {Null, window.read, window.read + 1}

(* The blocks being parsed, by their place among the calls.                *)
Blocks ==
    {i \in DOMAIN calls : calls[i].at \in {"stmts", "stmt_done", "recover"} /\ calls[i].node # 0}

(* The scope is the innermost block being parsed, whatever errors its      *)
(* statements have (parser.c 713 and 741).                                 *)
ScopeIsInnermost ==
    outcome = "run" =>
        \/ Blocks = {} /\ scope = 0
        \/ \E i \in Blocks : scope = calls[i].node /\ \A j \in Blocks : i <= j

(* The level of a node that is an infix operation, above all for others.   *)
LevelOf(id) ==
    IF nodes[id].kind = "binary" THEN Level[input[nodes[id].toks[1]].kind] ELSE Shift + 1

(* As long as nothing is reported, infix operators bind by their level,    *)
(* and those of one level to the left (token.h 11 to 17, parser.c 620).    *)
BindsByLevel ==
    ~reported =>
        \A id \in DOMAIN nodes :
            nodes[id].kind = "binary" =>
                /\ LevelOf(nodes[id].kids[1]) >= LevelOf(id)
                /\ LevelOf(nodes[id].kids[2]) > LevelOf(id)

(* A statement, also one that fails, takes a token with it, or the loop of *)
(* parse_stmt_list would never end (parser.c 675 and 694).                 *)
EveryStatementEats == Running("stmt_done") => This.from < Eaten

(* A source of the language is parsed without a report and without         *)
(* anything undefined.                                                     *)
Accepted ==
    outcome # "run" /\ (reported \/ outcome # "done") => input \notin Language

(* Whatever the source, the parser comes to an end.                        *)
Terminates == <>(outcome # "run")

=============================================================================
