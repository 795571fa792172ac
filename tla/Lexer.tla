------------------------------- MODULE Lexer -------------------------------
(***************************************************************************)
(* lexer.c: lexer_next called again and again on a source text, as the     *)
(* parser and the lexer's tests do.  A turn of the loop that skips         *)
(* comments is one action, and so is the rest of a call, by the kind of    *)
(* token it returns; `tokens` is what the calls have returned so far.      *)
(* A character is a letter of its name; one stands for all that isspace,   *)
(* isalpha and isdigit do not tell apart.  The text is a C string: it ends *)
(* with a NUL and has no other.                                            *)
(***************************************************************************)
EXTENDS Integers, Sequences

CONSTANT Sources     \* the texts

Nul == "nul"

Blank   == {"space", "newline", "return"}
LineEnd == {"newline", "return"}
Digit   == {"0", "1", "2", "3"}
Letter  == {"a", "b", "d", "e", "f", "h", "i", "j", "k", "l", "n", "o", "r", "s",
            "t", "u", "v", "w", "x"}
Ident   == Letter \cup Digit \cup {"_"}

(* A byte that compares equal to EOF, -1, where char is signed.            *)
EofByte == "eof"

Operator == {"+", "-", "*", "/", "%", "|", "&", "^", "~", ".", ":", ";", ",",
             "(", ")", "{", "}", "!", "<", ">", "="}

Char == Blank \cup Ident \cup Operator \cup {EofByte, "other"}

ASSUME SourcesAssumption == Sources \in SUBSET Seq(Char)

(* Operators of two characters, and the keywords.                          *)
Double == {<<"!", "=">>, <<"<", "=">>, <<"<", "<">>, <<">", "=">>, <<">", ">">>,
           <<"=", "=">>}

Keywords == {<<"i", "f">>, <<"o", "r">>, <<"v", "a", "r">>, <<"f", "u", "n">>,
             <<"r", "e", "t">>, <<"o", "b", "j">>, <<"b", "r", "k">>,
             <<"n", "x", "t">>, <<"a", "n", "d">>, <<"t", "r", "u", "e">>,
             <<"e", "l", "s", "e">>, <<"f", "a", "l", "s", "e">>,
             <<"w", "h", "i", "l", "e">>}

(* The kind of an operator or keyword is its spelling.                     *)
Name    == <<"a name">>
Integer == <<"an integer">>
Float   == <<"a float">>
Eof     == <<"the end">>
Error   == <<"an error">>

Kind == {Name, Integer, Float, Eof, Error} \cup Keywords \cup Double
        \cup {<<operator>> : operator \in Operator}

VARIABLES
    source,   \* LexerState.source
    index,    \* LexerState.index
    tokens,   \* the tokens returned
    answer    \* what the last call returned

vars == <<source, index, tokens, answer>>

Token(kind, start, end) == [kind |-> kind, start |-> start, end |-> end]

Init ==
    /\ source \in Sources
    /\ index = 0
    /\ tokens = <<>>
    /\ answer = TRUE

-----------------------------------------------------------------------------

At(i) == IF i < Len(source) THEN source[i + 1] ELSE Nul

Least(S) == CHOOSE i \in S : \A j \in S : i <= j

(* lexer_take_while: where the run of characters of S from i on ends.      *)
RunEnd(i, S) == Least({j \in i .. Len(source) : At(j) \notin S})

Start == RunEnd(index, Blank)

AtComment == At(Start) = "/" /\ At(Start + 1) = "/"

(* strncmp of the text from i on with the word, over the word's length.    *)
HasPrefix(i, word) == \A k \in 1 .. Len(word) : At(i + k - 1) = word[k]

(* Mutant: the search for a keyword looks for the whole identifier's       *)
(* length, and takes "i" for "if".                                         *)
WordKind_any_length(i) ==
    LET length == RunEnd(i, Ident) - i
        Starts(word) == \A k \in 1 .. Len(word) : k <= length => At(i + k - 1) = word[k]
    IN  IF \E word \in Keywords : Starts(word)
        THEN CHOOSE word \in Keywords : Starts(word)
        ELSE Name

(* The keyword whose spelling the identifier begins with, if there is one. *)
WordKind(i) ==
    IF \E word \in Keywords : HasPrefix(i, word)
    THEN CHOOSE word \in Keywords : HasPrefix(i, word)
    ELSE Name

(* A call returns a token that begins at Start and ends before `end`.      *)
Return(kind, end) ==
    /\ ~AtComment
    /\ index' = end
    /\ tokens' = Append(tokens, Token(kind, Start, end))
    /\ answer' = TRUE
    /\ UNCHANGED source

(* Mutant: a comment without a line end is not passed.                     *)
SkipComment_stuck ==
    LET end == RunEnd(Start, Char \ LineEnd)
    IN  /\ AtComment
        /\ index' = IF At(end) = Nul THEN Start ELSE end + 1
        /\ UNCHANGED <<source, tokens, answer>>

(* A comment is skipped with the end of its line.                          *)
SkipComment ==
    LET end == RunEnd(Start, Char \ LineEnd)
    IN  /\ AtComment
        /\ index' = IF At(end) = Nul THEN end ELSE end + 1
        /\ UNCHANGED <<source, tokens, answer>>

(* Mutant: a call at the end starts over.                                  *)
End_again ==
    /\ At(Start) = Nul
    /\ index' = 0
    /\ answer' = FALSE
    /\ UNCHANGED <<source, tokens>>

End ==
    /\ At(Start) = Nul
    /\ index' = Start
    /\ answer' = FALSE
    /\ UNCHANGED <<source, tokens>>

Word ==
    /\ At(Start) \in Letter \cup {"_"}
    /\ Return(WordKind(Start), RunEnd(Start, Ident))

(* Mutant: the dot is not given back when no digit follows it.             *)
Number_keeps_dot ==
    LET dot == RunEnd(Start, Digit)
    IN  /\ At(Start) \in Digit
        /\ IF At(dot) = "." THEN Return(Float, RunEnd(dot + 1, Digit))
                            ELSE Return(Integer, dot)

(* A dot after the digits makes a float, though it is given back when no   *)
(* digit follows it.                                                       *)
Number ==
    LET dot == RunEnd(Start, Digit)
        end == RunEnd(dot + 1, Digit)
    IN  /\ At(Start) \in Digit
        /\ IF At(dot) # "." THEN Return(Integer, dot)
           ELSE Return(Float, IF end = dot + 1 THEN dot ELSE end)

(* Mutant: the second character is taken without a look at it.             *)
Symbol_blind ==
    LET one == At(Start)
    IN  /\ one \notin Letter \cup {"_", Nul} \cup Digit
        /\ IF one \in {"!", "<", ">", "="} THEN Return(<<one, "=">>, Start + 2)
           ELSE Return(IF one \in Operator THEN <<one>>
                       ELSE IF one = EofByte THEN Eof ELSE Error, Start + 1)

Symbol ==
    LET two == <<At(Start), At(Start + 1)>>
    IN  /\ At(Start) \notin Letter \cup {"_", Nul} \cup Digit
        /\ IF two \in Double THEN Return(two, Start + 2)
           ELSE Return(IF At(Start) \in Operator THEN <<At(Start)>>
                       ELSE IF At(Start) = EofByte THEN Eof ELSE Error, Start + 1)

Next == SkipComment \/ End \/ Word \/ Number \/ Symbol

Spec     == Init /\ [][Next]_vars
FairSpec == Spec /\ WF_vars(Next)

-----------------------------------------------------------------------------

TypeOK ==
    /\ source \in Seq(Char)
    /\ index \in 0 .. Len(source)
    /\ tokens \in Seq([kind : Kind, start : Nat, end : Nat])
    /\ answer \in BOOLEAN

(* The tokens lie in the text one after the other, none is empty and none  *)
(* reaches beyond the position from where the next call goes on: what the  *)
(* parser cuts out of the text with a token's start and end (parser.c,     *)
(* eval.c 40) is inside it, and no character is read twice.                *)
InOrder ==
    /\ \A i \in 1 .. Len(tokens) : tokens[i].start < tokens[i].end
    /\ \A i \in 1 .. Len(tokens) - 1 : tokens[i].end <= tokens[i + 1].start
    /\ \A i \in 1 .. Len(tokens) : tokens[i].end <= index
    /\ index <= Len(source)

(* Once lexer_next has returned false it always does, and returns no other *)
(* token: parser.c calls it again at each peek at the end (line 39).       *)
EndIsFinal == [][answer = FALSE => answer' = FALSE /\ UNCHANGED tokens]_vars

(* Every call returns, and so many of them that the end is met: each       *)
(* moves on in the text.                                                   *)
ReachesEnd == <>(answer = FALSE)
=============================================================================
