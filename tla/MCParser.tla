------------------------------ MODULE MCParser ------------------------------
(***************************************************************************)
(* Parser on two sets of sources.  Sources of the language: expressions    *)
(* with up to three infix operators and prefix operators anywhere, and     *)
(* pairs of statements, at the top level and in a function.                *)
(* And anything: every sequence of up to two or three tokens, behind       *)
(* beginnings that lead into each production.  Where anything goes, a      *)
(* source with WindowLength - 1 tokens in the last turn of the ring is     *)
(* left out: see MCParserFlaws.                                            *)
(***************************************************************************)
EXTENDS ParserTrees

Toks(kinds) == [i \in DOMAIN kinds |-> [kind |-> kinds[i], line |-> FALSE]]

Op     == {"assign", "or", "and", "lt", "plus", "star", "shift"}
Prefix == {<<>>, <<"minus">>, <<"not">>}
Atom_  == {<<"name">>, <<"literal">>}
N      == <<"name">>

In(left, e, right) == <<left>> \o e \o <<right>>
Args(list)         == In("l_paren", list, "r_paren")

Post == { N \o Args(<<>>),
          N \o Args(N),
          N \o Args(<<"name", "plus", "literal", "comma", "minus", "literal">>),
          <<"name", "dot", "name">>,
          <<"name", "dot", "name">> \o Args(N) \o <<"dot", "name">>,
          In("l_paren", <<"name", "assign", "not", "name">>, "r_paren") \o Args(<<>>),
          Args(Args(N)) }

Chains ==
  {p \o N \o <<o1>> \o q \o N \o <<o2>> \o N : o1 \in Op, o2 \in Op, p \in Prefix, q \in Prefix}
  \cup
  {N \o <<o1>> \o N \o <<o2>> \o p \o N \o <<o3>> \o N :
     o1 \in Op, o2 \in Op, o3 \in Op, p \in {<<>>, <<"not">>}}

Exprs ==
  Atom_ \cup Post \cup
  {p \o <<"minus">> \o q : p \in Post, q \in Post} \cup
  {Args(N \o <<o>> \o N) \o <<"star">> \o N : o \in Op}

Simple == { N, <<"name", "plus", "name">>, <<"name", "assign", "name">> \o Args(N),
            <<"not", "name">> }

Braced(list) == In("l_brace", list, "r_brace")

Bodies == { Braced(<<>>),
            Braced(<<"ret">> \o N),
            Braced(<<"var", "name", "semicolon", "nxt", "fun", "name", "l_paren", "r_paren",
                     "l_brace", "brk", "r_brace", "name">>) }

Stmts ==
  Simple \cup Bodies \cup { <<"var", "name">>, <<"brk">>, <<"nxt">> } \cup
  {<<"var", "name", "assign">> \o e : e \in Simple} \cup
  {<<"ret">> \o e : e \in Simple} \cup
  {<<"if">> \o e \o b : e \in Simple, b \in Bodies} \cup
  {<<"if">> \o N \o b \o <<"else">> \o s : b \in Bodies, s \in Bodies \cup {<<"brk">>, N}} \cup
  {<<"while">> \o N \o b : b \in Bodies} \cup
  {<<"obj", "name">> \o b : b \in Bodies} \cup
  {<<"fun", "name">> \o Args(p) \o b :
     p \in {<<>>, N, <<"name", "comma", "name">>, <<"name", "comma", "name", "comma">>},
     b \in Bodies}

Short == { N, <<"var", "name">>, <<"var", "name", "assign", "name">>,
         <<"fun", "name", "l_paren", "r_paren", "l_brace", "r_brace">>, Braced(N),
         <<"if", "name", "l_brace", "r_brace">> }

Pairs == {s \o <<"semicolon">> \o t \o <<"semicolon">> : s \in Stmts, t \in Short}

Swapped == {t \o <<"semicolon", "semicolon">> \o s \o <<"semicolon">> : s \in Stmts, t \in Short}

Sources == Chains \cup Exprs \cup Pairs \cup
           {<<"fun", "name">> \o Args(<<>>) \o Braced(p) : p \in Swapped}

-----------------------------------------------------------------------------

UpTo(kinds, max) == UNION {[1 .. k -> kinds] : k \in 0 .. max}

Few  == {"name", "minus", "comma", "l_paren", "r_paren", "l_brace", "r_brace"}
Many == Few \cup {"literal", "not", "shift", "assign", "dot", "semicolon", "colon",
                  "var", "fun", "obj", "if", "else", "while", "brk", "ret"}

Heads ==
  { <<>>,
    <<"var", "name", "assign">>,
    <<"fun", "name", "l_paren">>,
    <<"fun", "name", "l_paren", "r_paren", "l_brace", "ret">>,
    <<"obj", "name", "l_brace">>,
    <<"l_brace", "var", "name", "semicolon">>,
    <<"if", "name", "l_brace">>,
    <<"if", "name", "l_brace", "r_brace", "else">>,
    <<"while", "name">>,
    <<"name", "l_paren", "name">>,
    <<"name", "dot">> }

LongList == [i \in 1 .. BufferSize + 1 |-> "name"]

Language_ == {Toks(s) : s \in Sources}

Anything ==
  {s \in {Toks(h \o t) : h \in Heads, t \in UpTo(Many, 2)} \cup
         {Toks(h \o t) : h \in Heads, t \in [1 .. 3 -> Few]} \cup {Toks(LongList)} :
     Len(s) % WindowLength # WindowLength - 1}

Inputs_ == Language_ \cup Anything
=============================================================================
