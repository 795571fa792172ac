------------------------------ MODULE Lexemes ------------------------------
(***************************************************************************)
(* What a text is made of, said without a scanner: at each place stands    *)
(* the longest word that is a lexeme.  The tokens of Lexer are compared    *)
(* with that.                                                              *)
(***************************************************************************)
EXTENDS Lexer, FiniteSetsExt

AllIn(w, S) == \A k \in DOMAIN w : w[k] \in S

IsName(w)    == w[1] \in Letter \cup {"_"} /\ AllIn(w, Ident)
IsInteger(w) == AllIn(w, Digit)
IsFloat(w)   == \E dot \in 2 .. Len(w) - 1 :
                   \A k \in DOMAIN w : IF k = dot THEN w[k] = "." ELSE w[k] \in Digit
IsComment(w) == /\ Len(w) >= 2 /\ w[1] = "/" /\ w[2] = "/"
                /\ \A k \in 1 .. Len(w) - 1 : w[k] \notin LineEnd
IsBlank(w)   == Len(w) = 1 /\ w[1] \in Blank

IsLexeme(w) == \/ Len(w) = 1
               \/ w \in Double
               \/ IsName(w) \/ IsInteger(w) \/ IsFloat(w) \/ IsComment(w)

(* The kind of a lexeme that is a token. *)
KindOf(w) == CASE w \in Keywords     -> w
               [] w \in Double       -> w
               [] IsInteger(w)       -> Integer
               [] IsFloat(w)         -> Float
               [] w[1] \in Operator  -> w
               [] w[1] = EofByte     -> Eof
               [] w[1] = "other"     -> Error
               [] OTHER              -> Name

Text(text, start, end) == SubSeq(text, start + 1, end)

Longest(text, i) == Max({j \in i + 1 .. Len(text) : IsLexeme(Text(text, i, j))})

IsSkipped(w) == IsBlank(w) \/ IsComment(w)

(* The places of the tokens of a text, from each i on. *)
PlacesFrom(text) ==
    LET from[i \in 0 .. Len(text)] ==
          IF i = Len(text) THEN <<>>
          ELSE (IF IsSkipped(Text(text, i, Longest(text, i))) THEN <<>>
                ELSE <<<<i, Longest(text, i)>>>>) \o from[Longest(text, i)]
    IN  from

-----------------------------------------------------------------------------

(* Every token is the longest lexeme at its place, and no lexeme but white *)
(* space and comments is left out: "1.2.3", "<<=", "a//b" and a comment    *)
(* without a line end are cut where longest match cuts them.               *)
LongestMatch ==
    LET places == [i \in DOMAIN tokens |-> <<tokens[i].start, tokens[i].end>>]
        all    == PlacesFrom(source)[0]
    IN  IF answer THEN places = SubSeq(all, 1, Len(places)) ELSE places = all

(* The two mistakes of lexer_next: an identifier that begins like a        *)
(* keyword (lexer.c 75), and an integer before a dot (119).                *)
BeginsLikeKeyword(w) == \E k \in 1 .. Len(w) - 1 : SubSeq(w, 1, k) \in Keywords

Spelling(t) == Text(source, t.start, t.end)

Mistaken(t) == \/ BeginsLikeKeyword(Spelling(t))
               \/ IsInteger(Spelling(t)) /\ At(t.end) = "."

(* Every other token has the kind of its text.                             *)
KindsRight == \A i \in DOMAIN tokens :
                 \/ Mistaken(tokens[i])
                 \/ tokens[i].kind = KindOf(Spelling(tokens[i]))
=============================================================================
