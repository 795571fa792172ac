------------------------------ MODULE MCLexer ------------------------------
(***************************************************************************)
(* Texts for Lexer: up to four pieces, so that every piece meets every     *)
(* other on both sides, and every keyword with something behind it.        *)
(***************************************************************************)
EXTENDS Lexemes

Pieces == {<<>>, <<"x">>, <<"i">>, <<"o", "r">>, <<"1">>, <<"2", "3">>, <<".">>, <<"/">>,
           <<"space">>, <<"newline">>, <<"<">>, <<"=">>, <<"!">>, <<"_">>, <<"other">>}

Behind == {<<>>, <<"a">>, <<"1">>, <<"_">>, <<"=">>, <<"eof">>, <<"(">>, <<"space">>}

Others == {<<"a", "/", "/", "<", "return", "f">>,
           <<"/", "/", "x", "newline", "/", "/", "x">>,
           <<"1", ".", "2", ".", "3", ".", "x">>,
           <<">", ">", ">", "=", "=", "=">>} \cup {<<c>> : c \in Operator}

MCSources ==
    {a \o b \o c \o d : a, b, c, d \in Pieces}
    \cup {w \o b : w \in Keywords, b \in Behind}
    \cup {SubSeq(w, 1, Len(w) - 1) \o b : w \in Keywords, b \in Behind}
    \cup Others
=============================================================================
