---------------------------- MODULE Lexer_proofs ----------------------------
(***************************************************************************)
(* Proofs about Lexer, for every set of texts: its tokens lie in the text  *)
(* in order, they are the longest lexemes of Lexemes, and their kinds are  *)
(* those of their texts.                                                   *)
(***************************************************************************)
EXTENDS Lexemes, WellFoundedInduction, SequenceTheorems, TLAPS

(* The least of some numbers is one of them, and no other is less.         *)
LEMMA LeastIsLeast ==
    ASSUME NEW S \in SUBSET Nat, S # {}
    PROVE  /\ Least(S) \in S
           /\ \A j \in S : Least(S) <= j
<1> DEFINE Less == {pair \in Nat \X Nat : pair[1] < pair[2]}
<1>1. IsWellFoundedOn(Less, Nat)
  BY NatLessThanWellFounded, Zenon DEF OpToRel
<1>2. \A i, j \in Nat : j < i => <<j, i>> \in Less
  OBVIOUS
<1>3. \E i \in S : \A j \in S : i <= j
  <2> HIDE DEF Less
  <2>1. PICK i \in S : \A j \in S : ~ (<<j, i>> \in Less)
    BY <1>1, WFMin, Zenon
  <2>2. \A j \in S : ~ (j < i)
    BY <1>2, <2>1, Zenon
  <2> QED
    BY <2>2
<1> QED
  BY <1>3 DEF Least

(* No character of a text is the NUL that ends it.                         *)
LEMMA NulIsNoChar == Nul \notin Char
<1>1. Nul \notin Blank /\ Nul \notin Digit
  BY DEF Nul, Blank, Digit
<1>2. Nul \notin Letter
  BY DEF Nul, Letter
<1>3. Nul \notin Operator
  BY DEF Nul, Operator
<1>4. Nul \notin {"_"} /\ Nul \notin {EofByte, "other"}
  BY DEF Nul, EofByte
<1> QED
  BY <1>1, <1>2, <1>3, <1>4, Zenon DEF Char, Ident

(* Before the end of the text stands a character, and no NUL.              *)
LEMMA CharAt ==
    ASSUME source \in Seq(Char), NEW i \in Nat
    PROVE  /\ i < Len(source) => At(i) \in Char
           /\ At(i) = Nul <=> i >= Len(source)
<1>1. Len(source) \in Nat
  OBVIOUS
<1>2. ASSUME i < Len(source) PROVE At(i) \in Char
  <2>1. i + 1 \in 1 .. Len(source)
    BY <1>1, <1>2
  <2>2. source[i + 1] \in Char
    BY <2>1, ElementOfSeq
  <2> QED
    BY <1>2, <2>2 DEF At
<1>3. ~(i < Len(source)) => At(i) = Nul
  BY DEF At
<1> QED
  BY <1>1, <1>2, <1>3, NulIsNoChar

(* A run ends inside the text, on the first character that is not of it.   *)
LEMMA RunInside ==
    ASSUME source \in Seq(Char), NEW i \in 0 .. Len(source), NEW S \in SUBSET Char
    PROVE  /\ RunEnd(i, S) \in i .. Len(source)
           /\ At(RunEnd(i, S)) \notin S
           /\ At(i) \in S => RunEnd(i, S) > i
<1> DEFINE Ends == {j \in i .. Len(source) : At(j) \notin S}
<1>1. Len(source) \in Nat /\ Nul \notin Char
  BY NulIsNoChar
<1>2. At(Len(source)) = Nul
  BY <1>1, CharAt
<1>3. Len(source) \in Ends
  BY <1>1, <1>2
<1>4. Ends \in SUBSET Nat
  BY <1>1
<1>5. Least(Ends) \in Ends
  BY <1>3, <1>4, LeastIsLeast
<1> QED
  BY <1>5 DEF RunEnd

(* The runs of the lexer: of blanks, of a name, of a number, of a comment. *)
LEMMA Runs ==
    ASSUME source \in Seq(Char), NEW i \in 0 .. Len(source)
    PROVE  /\ RunEnd(i, Blank) \in i .. Len(source)
           /\ RunEnd(i, Ident) \in i .. Len(source)
           /\ At(i) \in Ident => RunEnd(i, Ident) > i
           /\ RunEnd(i, Digit) \in i .. Len(source)
           /\ At(i) \in Digit => RunEnd(i, Digit) > i
           /\ RunEnd(i, Char \ LineEnd) \in i .. Len(source)
<1>1. /\ Blank \in SUBSET Char /\ Ident \in SUBSET Char
      /\ Digit \in SUBSET Char /\ Char \ LineEnd \in SUBSET Char
  BY Zenon DEF Char, Ident
<1>2. RunEnd(i, Blank) \in i .. Len(source)
  BY <1>1, RunInside, Zenon
<1>3. RunEnd(i, Ident) \in i .. Len(source) /\ (At(i) \in Ident => RunEnd(i, Ident) > i)
  BY <1>1, RunInside, Zenon
<1>4. RunEnd(i, Digit) \in i .. Len(source) /\ (At(i) \in Digit => RunEnd(i, Digit) > i)
  BY <1>1, RunInside, Zenon
<1>5. RunEnd(i, Char \ LineEnd) \in i .. Len(source)
  BY <1>1, RunInside, Zenon
<1> QED
  BY <1>2, <1>3, <1>4, <1>5

(* The kinds that the actions return are kinds.                            *)
LEMMA Kinds ==
    /\ {Name, Integer, Float, Eof, Error} \in SUBSET Kind
    /\ Keywords \in SUBSET Kind
    /\ Double \in SUBSET Kind
    /\ \A operator \in Operator : <<operator>> \in Kind
BY DEF Kind

(* So is the kind of a word.                                               *)
LEMMA WordKindType == ASSUME NEW i \in Nat PROVE WordKind(i) \in Kind
<1>1. (\E word \in Keywords : HasPrefix(i, word)) =>
          (CHOOSE word \in Keywords : HasPrefix(i, word)) \in Keywords
  OBVIOUS
<1> QED
  BY <1>1, Kinds DEF WordKind

-----------------------------------------------------------------------------

(* What a token's fields are.                                              *)
LEMMA TokenType ==
    ASSUME NEW list \in Seq([kind : Kind, start : Nat, end : Nat]),
           NEW i \in 1 .. Len(list)
    PROVE  list[i].start \in Nat /\ list[i].end \in Nat
<1>1. list[i] \in [kind : Kind, start : Nat, end : Nat]
  BY ElementOfSeq, Zenon
<1> QED
  BY <1>1

Final == answer = FALSE => index = Len(source)

LexInv == TypeOK /\ InOrder /\ Final

(* The invariant holds before the first call,                              *)
LEMMA LexInit == Init => LexInv
<1> SUFFICES ASSUME Init PROVE LexInv
  OBVIOUS
<1>1. source \in Seq(Char)
  BY SourcesAssumption DEF Init
<1> QED
  BY <1>1 DEF Init, LexInv, TypeOK, InOrder, Final

(* A token that begins at the start and ends after it, inside the text,    *)
(* keeps the order.                                                        *)
LEMMA ReturnStep ==
    ASSUME LexInv, NEW kind \in Kind, NEW end \in Nat,
           Start \in index .. Len(source), Start < end, end <= Len(source),
           Return(kind, end)
    PROVE  LexInv'
<1>1. Start \in Nat /\ index \in Nat /\ Len(source) \in Nat
  BY DEF LexInv, TypeOK
<1>2. Token(kind, Start, end) \in [kind : Kind, start : Nat, end : Nat]
  BY <1>1 DEF Token
<1>3. TypeOK'
  BY <1>1, <1>2, AppendProperties DEF LexInv, TypeOK, Return
<1>4. InOrder'
  <2>1. /\ tokens \in Seq([kind : Kind, start : Nat, end : Nat])
        /\ tokens' = Append(tokens, Token(kind, Start, end))
        /\ index' = end /\ source' = source
    BY DEF LexInv, TypeOK, Return
  <2>2. /\ Len(tokens') = Len(tokens) + 1
        /\ Len(tokens) \in Nat
        /\ tokens'[Len(tokens) + 1] = Token(kind, Start, end)
        /\ \A i \in 1 .. Len(tokens) : tokens'[i] = tokens[i]
    BY <2>1, <1>2, AppendProperties
  <2>3. /\ \A i \in 1 .. Len(tokens) : tokens[i].start < tokens[i].end
        /\ \A i \in 1 .. Len(tokens) - 1 : tokens[i].end <= tokens[i + 1].start
        /\ \A i \in 1 .. Len(tokens) : tokens[i].end <= index
    BY DEF LexInv, InOrder
  <2>4. \A i \in 1 .. Len(tokens) : tokens[i].end \in Nat
    BY <2>1, TokenType
  <2>5. Token(kind, Start, end).start = Start /\ Token(kind, Start, end).end = end
    BY DEF Token
  <2>6. \A i \in 1 .. Len(tokens') : tokens'[i].start < tokens'[i].end
    BY <2>2, <2>3, <2>5
  <2>7. \A i \in 1 .. Len(tokens') - 1 : tokens'[i].end <= tokens'[i + 1].start
    <3> SUFFICES ASSUME NEW i \in 1 .. Len(tokens') - 1
                 PROVE  tokens'[i].end <= tokens'[i + 1].start
      OBVIOUS
    <3>1. CASE i = Len(tokens)
      BY <3>1, <2>2, <2>3, <2>4, <2>5, <1>1
    <3>2. CASE i # Len(tokens)
      BY <3>2, <2>2, <2>3
    <3> QED
      BY <3>1, <3>2
  <2>8. \A i \in 1 .. Len(tokens') : tokens'[i].end <= index'
    <3> SUFFICES ASSUME NEW i \in 1 .. Len(tokens')
                 PROVE  tokens'[i].end <= index'
      OBVIOUS
    <3>1. CASE i = Len(tokens) + 1
      BY <3>1, <2>1, <2>2, <2>5, <1>1
    <3>2. CASE i # Len(tokens) + 1
      <4>1. i \in 1 .. Len(tokens)
        BY <3>2, <2>2
      <4>2. tokens[i].end <= index /\ tokens[i].end \in Nat /\ tokens'[i] = tokens[i]
        BY <4>1, <2>2, <2>3, <2>4
      <4> QED
        BY <4>2, <2>1, <1>1
    <3> QED
      BY <3>1, <3>2
  <2> QED
    BY <2>1, <2>6, <2>7, <2>8 DEF InOrder
<1>5. Final'
  BY DEF Final, Return
<1> QED
  BY <1>3, <1>4, <1>5 DEF LexInv

(* A call that returns no token moves on and keeps the tokens.             *)
LEMMA SkipStep ==
    ASSUME LexInv, index' \in index .. Len(source), source' = source, tokens' = tokens,
           answer' \in BOOLEAN, Final'
    PROVE  LexInv'
<1>1. index \in Nat /\ Len(source) \in Nat
  BY DEF LexInv, TypeOK
<1>2. \A i \in 1 .. Len(tokens) : tokens[i].end \in Nat
  BY TokenType DEF LexInv, TypeOK
<1> QED
  BY <1>1, <1>2 DEF LexInv, TypeOK, InOrder

(* and every turn of a call keeps it.                                      *)
LEMMA LexStep == LexInv /\ [Next]_vars => LexInv'
<1> SUFFICES ASSUME LexInv, [Next]_vars PROVE LexInv'
  OBVIOUS
<1>1. source \in Seq(Char) /\ Len(source) \in Nat /\ index \in 0 .. Len(source)
  BY DEF LexInv, TypeOK
<1>2. Start \in index .. Len(source) /\ Start \in 0 .. Len(source) /\ Start \in Nat
  BY <1>1, Runs DEF Start
<1>3. At(Start) # Nul => Start < Len(source)
  BY <1>1, <1>2, CharAt
<1>4. CASE SkipComment
  <2> DEFINE end == RunEnd(Start, Char \ LineEnd)
  <2>1. end \in Start .. Len(source)
    BY <1>1, <1>2, Runs
  <2>2. At(end) # Nul => end < Len(source)
    BY <1>1, <1>2, <2>1, CharAt
  <2>3. index' \in index .. Len(source)
    BY <1>1, <1>2, <1>4, <2>1, <2>2 DEF SkipComment
  <2>4. answer = FALSE => Start = Len(source)
    BY <1>1, <1>2 DEF LexInv, Final
  <2>5. answer = TRUE
    <3>1. At(Start) # Nul
      BY <1>4 DEF SkipComment, AtComment, Nul
    <3> QED
      BY <1>1, <1>2, <1>3, <2>4, <3>1 DEF LexInv, TypeOK
  <2> QED
    BY <1>4, <2>3, <2>5, SkipStep DEF SkipComment, Final, LexInv, TypeOK
<1>5. CASE End
  <2>1. Start = Len(source)
    BY <1>1, <1>2, <1>5, CharAt DEF End
  <2> QED
    BY <1>1, <1>2, <1>5, <2>1, SkipStep DEF End, Final
<1>6. CASE Word
  <2>1. At(Start) \in Ident
    BY <1>6 DEF Word, Ident
  <2>2. RunEnd(Start, Ident) \in Start .. Len(source) /\ RunEnd(Start, Ident) > Start
    BY <1>1, <1>2, <2>1, Runs
  <2> QED
    <3> DEFINE end == RunEnd(Start, Ident)
    <3>1. Return(WordKind(Start), end)
      BY <1>6 DEF Word
    <3>2. WordKind(Start) \in Kind
      BY <1>2, WordKindType, Zenon
    <3>3. end \in Nat /\ Start < end /\ end <= Len(source)
      BY <1>1, <1>2, <2>2
    <3> HIDE DEF end
    <3> QED
      BY <1>2, <3>1, <3>2, <3>3, ReturnStep
<1>7. CASE Number
  <2> DEFINE dot == RunEnd(Start, Digit)
             end == RunEnd(dot + 1, Digit)
  <2>1. dot \in Start .. Len(source) /\ dot > Start
    BY <1>1, <1>2, <1>7, Runs DEF Number
  <2>2. Integer \in Kind /\ Float \in Kind
    BY Kinds
  <2>3. CASE At(dot) # "."
    BY <1>1, <1>2, <1>7, <2>1, <2>2, <2>3, ReturnStep DEF Number
  <2>4. CASE At(dot) = "."
    <3>1. dot < Len(source)
      BY <1>1, <1>2, <2>1, <2>4, CharAt DEF Nul
    <3>2. end \in dot + 1 .. Len(source)
      <4>1. dot + 1 \in 0 .. Len(source)
        BY <1>1, <1>2, <2>1, <3>1
      <4> QED
        BY <1>1, <4>1, Runs
    <3>3. Return(Float, IF end = dot + 1 THEN dot ELSE end)
      BY <1>7, <2>4 DEF Number
    <3> HIDE DEF dot, end
    <3> QED
      BY <1>1, <1>2, <2>1, <2>2, <3>1, <3>2, <3>3, ReturnStep
  <2> QED
    BY <2>3, <2>4
<1>8. CASE Symbol
  <2>1. Start < Len(source)
    BY <1>3, <1>8 DEF Symbol
  <2>2. CASE <<At(Start), At(Start + 1)>> \in Double
    <3>1. At(Start + 1) # Nul
      BY <2>2 DEF Double, Nul
    <3>2. Start + 1 < Len(source)
      BY <1>1, <1>2, <3>1, CharAt
    <3>3. <<At(Start), At(Start + 1)>> \in Kind
      BY <2>2, Kinds
    <3>4. Return(<<At(Start), At(Start + 1)>>, Start + 2)
      BY <1>8, <2>2 DEF Symbol
    <3> QED
      BY <1>1, <1>2, <3>2, <3>3, <3>4, ReturnStep
  <2>3. CASE ~(<<At(Start), At(Start + 1)>> \in Double)
    <3> DEFINE kind == IF At(Start) \in Operator THEN <<At(Start)>>
                       ELSE IF At(Start) = EofByte THEN Eof ELSE Error
    <3>1. Eof \in Kind /\ Error \in Kind
      BY Kinds
    <3>2. kind \in Kind
      BY <3>1, Kinds
    <3>3. Return(kind, Start + 1)
      BY <1>8, <2>3 DEF Symbol
    <3> HIDE DEF kind
    <3> QED
      BY <1>1, <1>2, <2>1, <3>2, <3>3, ReturnStep
  <2> QED
    BY <2>2, <2>3
<1>9. CASE UNCHANGED vars
  BY <1>9 DEF vars, LexInv, TypeOK, InOrder, Final
<1> QED
  BY <1>4, <1>5, <1>6, <1>7, <1>8, <1>9 DEF Next

(* Every reachable state satisfies the invariant.                          *)
THEOREM LexerInvariant == Spec => []LexInv
  BY LexInit, LexStep, PTL DEF Spec

(* The index of the lexer never passes the NUL behind the text.            *)
THEOREM IndexStaysInside == Spec => []TypeOK
<1>1. LexInv => TypeOK
  BY DEF LexInv
<1> QED
  BY <1>1, LexerInvariant, PTL

(* The tokens of every text lie in it one after the other, and none is     *)
(* empty: whatever the parser cuts out of the text is there.               *)
THEOREM TokensInOrder == Spec => []InOrder
<1>1. LexInv => InOrder
  BY DEF LexInv
<1> QED
  BY <1>1, LexerInvariant, PTL

(* After the end there is no other token.                                  *)
THEOREM EndStays == Spec => EndIsFinal
<1>1. ASSUME LexInv, [Next]_vars, answer = FALSE
      PROVE  answer' = FALSE /\ UNCHANGED tokens
  <2>1. source \in Seq(Char) /\ Len(source) \in Nat /\ index = Len(source)
    BY <1>1 DEF LexInv, TypeOK, Final
  <2>2. Start = Len(source) /\ Start \in Nat
    <3>1. index \in 0 .. Len(source)
      BY <2>1
    <3>2. RunEnd(index, Blank) \in index .. Len(source)
      BY <2>1, <3>1, Runs, Zenon
    <3> QED
      BY <2>1, <3>2 DEF Start
  <2>3. At(Start) = Nul
    BY <2>1, <2>2, CharAt
  <2>4. At(Start) \notin Letter \cup {"_"} \cup Digit /\ ~AtComment
    BY <2>3 DEF Nul, Letter, Digit, AtComment
  <2> QED
    BY <1>1, <2>3, <2>4 DEF Next, vars, SkipComment, End, Word, Number, Symbol
<1> QED
  BY <1>1, LexInit, LexStep, PTL DEF Spec, EndIsFinal

-----------------------------------------------------------------------------
(* The places of Lexemes, without the recursive function that gives them.  *)

(* The greatest of some numbers is one of them, and no other is greater.   *)
LEMMA MaxIsMost ==
    ASSUME NEW S \in SUBSET Nat, NEW m \in S, \A j \in S : j <= m
    PROVE  Max(S) = m
<1>1. \E x \in S : \A y \in S : x >= y
  OBVIOUS
<1>2. Max(S) \in S /\ \A y \in S : Max(S) >= y
  BY <1>1 DEF Max
<1>3. Max(S) \in Nat /\ m \in Nat /\ Max(S) <= m /\ Max(S) >= m
  BY <1>2, Zenon
<1> QED
  BY <1>3

(* A lexeme that no longer one begins with is the longest at its place.    *)
LEMMA LongestIs ==
    ASSUME source \in Seq(Char), NEW i \in Nat, NEW end \in i + 1 .. Len(source),
           IsLexeme(Text(source, i, end)),
           \A j \in end + 1 .. Len(source) : ~ IsLexeme(Text(source, i, j))
    PROVE  Longest(source, i) = end
<1> DEFINE S == {j \in i + 1 .. Len(source) : IsLexeme(Text(source, i, j))}
<1>1. Len(source) \in Nat
  OBVIOUS
<1>2. S \in SUBSET Nat /\ end \in S
  BY <1>1
<1>3. \A j \in S : j <= end
  BY <1>1
<1> HIDE DEF S
<1>4. Max(S) = end
  BY <1>2, <1>3, MaxIsMost
<1> QED
  BY <1>4 DEF Longest, S

(* The characters of a piece of the text.                                  *)
LEMMA TextIs ==
    ASSUME source \in Seq(Char), NEW i \in Nat, NEW j \in i + 1 .. Len(source)
    PROVE  /\ Text(source, i, j) \in Seq(Char)
           /\ Len(Text(source, i, j)) = j - i
           /\ DOMAIN Text(source, i, j) = 1 .. j - i
           /\ \A k \in 1 .. j - i : Text(source, i, j)[k] = At(i + k - 1)
<1>1. Len(source) \in Nat
  OBVIOUS
<1>2. /\ Len(Text(source, i, j)) = j - i
      /\ \A k \in 1 .. j - i : Text(source, i, j)[k] = source[i + k]
      /\ Text(source, i, j) \in Seq(Char)
  BY <1>1, SubSeqProperties DEF Text
<1>3. \A k \in 1 .. j - i : At(i + k - 1) = source[i + k]
  BY <1>1 DEF At
<1>4. DOMAIN Text(source, i, j) = 1 .. j - i
  BY <1>2
<1> HIDE DEF Text
<1> QED
  BY <1>2, <1>3, <1>4

(* The places of the tokens, without the function they are computed with.  *)
LEMMA PlacesUnfold ==
    ASSUME NEW text \in Seq(Char),
           \A i \in 0 .. Len(text) - 1 : Longest(text, i) \in i + 1 .. Len(text)
    PROVE  \A i \in 0 .. Len(text) : PlacesFrom(text)[i] =
             IF i = Len(text) THEN <<>>
             ELSE (IF IsSkipped(Text(text, i, Longest(text, i))) THEN <<>>
                   ELSE <<<<i, Longest(text, i)>>>>) \o PlacesFrom(text)[Longest(text, i)]
<1> DEFINE n == Len(text)
           Here(i) == IF IsSkipped(Text(text, i, Longest(text, i))) THEN <<>>
                      ELSE <<<<i, Longest(text, i)>>>>
           Body(g, i) == IF i = n THEN <<>> ELSE Here(i) \o g[Longest(text, i)]
           Known == {d \in 0 .. n : \E g : \A i \in n - d .. n : g[i] = Body(g, i)}
<1>1. n \in Nat
  OBVIOUS
<1>2. \A i \in 0 .. n - 1 : Longest(text, i) \in i + 1 .. n
  OBVIOUS
<1> HIDE DEF n, Here
<1>3. 0 \in Known
  <2>1. \A i \in n - 0 .. n : [k \in {n} |-> <<>>][i] = Body([k \in {n} |-> <<>>], i)
    BY <1>1
  <2> QED
    <3>1. n - 0 \in Int /\ 0 \in 0 .. n
      BY <1>1
    <3> HIDE DEF Body
    <3> QED
      BY <2>1, <3>1
<1>4. ASSUME NEW d \in Known, d # n PROVE d + 1 \in Known
  <2>1. PICK g : \A i \in n - d .. n : g[i] = Body(g, i)
    OBVIOUS
  <2>2. d \in Nat /\ d + 1 \in 0 .. n /\ n - d \in 1 .. n /\ n - (d + 1) = n - d - 1 /\ n - d - 1 \in 0 .. n - 1
    BY <1>1, <1>4
  <2> DEFINE e == n - d - 1
             f == [i \in e .. n |-> IF i = e THEN Body(g, e) ELSE g[i]]
  <2>3. e \in 0 .. n - 1 /\ n - (d + 1) = e /\ n - d = e + 1
    BY <1>1, <2>2
  <2>4. ASSUME NEW i \in e .. n PROVE f[i] = Body(f, i)
    <3> HIDE DEF e
    <3>1. CASE i = n
      <4>1. i \in n - d .. n /\ i # e
        BY <1>1, <2>2, <2>3, <3>1
      <4> QED
        BY <2>1, <3>1, <4>1
    <3>2. CASE i # n
      <4>1. i \in 0 .. n - 1
        BY <1>1, <2>3, <3>2
      <4>2. Longest(text, i) \in e + 1 .. n
        BY <1>1, <1>2, <2>3, <4>1
      <4>3. Longest(text, i) \in e .. n /\ Longest(text, i) # e
        BY <1>1, <2>3, <4>2
      <4>4. f[Longest(text, i)] = g[Longest(text, i)]
        BY <4>3
      <4>5. CASE i = e
        BY <3>2, <4>4, <4>5
      <4>6. CASE i # e
        <5>1. i \in n - d .. n
          BY <1>1, <2>3, <4>6
        <5>2. g[i] = Body(g, i)
          BY <2>1, <5>1
        <5>3. f[i] = g[i]
          BY <4>6
        <5> HIDE DEF f
        <5> QED
          BY <3>2, <4>4, <5>2, <5>3
      <4> QED
        BY <4>5, <4>6
    <3> QED
      BY <3>1, <3>2
  <2> HIDE DEF e, f
  <2>5. \E h : \A i \in n - (d + 1) .. n : h[i] = Body(h, i)
    BY <2>3, <2>4
  <2> QED
    BY <2>2, <2>5
<1>5. n \in Known
  <2> SUFFICES ASSUME n \notin Known PROVE FALSE
    OBVIOUS
  <2> DEFINE Bad == (0 .. n) \ Known
             d   == Least(Bad)
  <2>1. Bad \in SUBSET Nat /\ Bad # {}
    <3> HIDE DEF Known
    <3> QED
      BY <1>1
  <2>2. d \in Bad /\ \A j \in Bad : d <= j
    BY <2>1, LeastIsLeast
  <2> HIDE DEF d
  <2>3. d \in 1 .. n /\ d - 1 \in 0 .. n /\ ~(d <= d - 1) /\ d - 1 # n /\ d - 1 + 1 = d
    BY <1>1, <1>3, <2>2
  <2>4. d - 1 \in Known
    BY <2>2, <2>3
  <2> HIDE DEF Known
  <2> QED
    BY <1>4, <2>2, <2>3, <2>4
<1>6. PICK g : \A i \in 0 .. n : g[i] = Body(g, i)
  BY <1>1, <1>5
<1> DEFINE f == [i \in 0 .. n |-> g[i]]
<1>7. \A i \in 0 .. n : f[i] = Body(f, i)
  <2> SUFFICES ASSUME NEW i \in 0 .. n PROVE f[i] = Body(f, i)
    OBVIOUS
  <2>1. CASE i = n
    BY <1>6, <2>1
  <2>2. CASE i # n
    <3>1. Longest(text, i) \in 0 .. n
      BY <1>1, <1>2, <2>2
    <3>2. f[Longest(text, i)] = g[Longest(text, i)] /\ f[i] = g[i]
      BY <3>1
    <3> HIDE DEF f
    <3> QED
      BY <1>6, <2>2, <3>2
  <2> QED
    BY <2>1, <2>2
<1>8. f = [i \in 0 .. n |-> Body(f, i)]
  <2>1. f = [i \in 0 .. n |-> f[i]]
    OBVIOUS
  <2> HIDE DEF f, Body
  <2> QED
    BY <1>7, <2>1
<1>9. \E h : h = [i \in 0 .. n |-> Body(h, i)]
  <2> HIDE DEF f, Body
  <2> QED
    BY <1>8
<1>10. PlacesFrom(text) = CHOOSE h : h = [i \in 0 .. n |-> Body(h, i)]
  BY DEF PlacesFrom, n, Here
<1>11. PlacesFrom(text) = [i \in 0 .. n |-> Body(PlacesFrom(text), i)]
  <2> HIDE DEF Body
  <2> QED
    BY <1>9, <1>10
<1>12. \A i \in 0 .. n : PlacesFrom(text)[i] = Body(PlacesFrom(text), i)
  <2> HIDE DEF Body
  <2> QED
    BY <1>11
<1> QED
  BY <1>12 DEF n, Here

(* A piece of the text is made of characters that stand there.             *)
LEMMA TextAll ==
    ASSUME source \in Seq(Char), NEW i \in Nat, NEW j \in i + 1 .. Len(source), NEW S
    PROVE  AllIn(Text(source, i, j), S) <=> \A k \in i .. j - 1 : At(k) \in S
<1> DEFINE w == Text(source, i, j)
<1>1. Len(source) \in Nat
  OBVIOUS
<1>2. DOMAIN w = 1 .. j - i /\ \A k \in 1 .. j - i : w[k] = At(i + k - 1)
  BY TextIs
<1> HIDE DEF w
<1>3. ASSUME AllIn(w, S), NEW k \in i .. j - 1 PROVE At(k) \in S
  <2>1. k - i + 1 \in 1 .. j - i /\ i + (k - i + 1) - 1 = k
    BY <1>1
  <2>2. w[k - i + 1] \in S
    BY <1>2, <1>3, <2>1 DEF AllIn
  <2> QED
    BY <1>2, <2>1, <2>2
<1>4. ASSUME \A k \in i .. j - 1 : At(k) \in S, NEW k \in DOMAIN w PROVE w[k] \in S
  <2>1. k \in 1 .. j - i /\ i + k - 1 \in i .. j - 1
    BY <1>1, <1>2
  <2> QED
    BY <1>2, <1>4, <2>1
<1> QED
  BY <1>3, <1>4 DEF AllIn, w

(* The first character of a piece of the text.                             *)
LEMMA TextFirst ==
    ASSUME source \in Seq(Char), NEW i \in Nat, NEW j \in i + 1 .. Len(source)
    PROVE  Text(source, i, j)[1] = At(i)
<1>1. 1 \in 1 .. j - i /\ i + 1 - 1 = i
  OBVIOUS
<1>2. Text(source, i, j)[1] = At(i + 1 - 1)
  BY <1>1, TextIs, Zenon
<1> QED
  BY <1>1, <1>2

(* What sort of lexeme a piece of the text is, by its characters: a name,  *)
LEMMA TextName ==
    ASSUME source \in Seq(Char), NEW i \in Nat, NEW j \in i + 1 .. Len(source)
    PROVE  IsName(Text(source, i, j)) <=>
             At(i) \in Letter \cup {"_"} /\ \A k \in i .. j - 1 : At(k) \in Ident
  BY TextFirst, TextAll DEF IsName

(* an integer,                                                             *)
LEMMA TextInteger ==
    ASSUME source \in Seq(Char), NEW i \in Nat, NEW j \in i + 1 .. Len(source)
    PROVE  IsInteger(Text(source, i, j)) <=> \A k \in i .. j - 1 : At(k) \in Digit
  BY TextAll DEF IsInteger

(* a float,                                                                *)
LEMMA TextFloat ==
    ASSUME source \in Seq(Char), NEW i \in Nat, NEW j \in i + 1 .. Len(source)
    PROVE  IsFloat(Text(source, i, j)) <=>
             \E dot \in i + 1 .. j - 2 :
               \A k \in i .. j - 1 : IF k = dot THEN At(k) = "." ELSE At(k) \in Digit
<1> DEFINE w == Text(source, i, j)
<1>1. Len(source) \in Nat
  OBVIOUS
<1>2. DOMAIN w = 1 .. j - i /\ Len(w) = j - i /\ \A k \in 1 .. j - i : w[k] = At(i + k - 1)
  BY TextIs
<1> HIDE DEF w
<1>3. ASSUME NEW d \in 2 .. Len(w) - 1,
             \A k \in DOMAIN w : IF k = d THEN w[k] = "." ELSE w[k] \in Digit
      PROVE  \E dot \in i + 1 .. j - 2 :
               \A k \in i .. j - 1 : IF k = dot THEN At(k) = "." ELSE At(k) \in Digit
  <2>1. i + d - 1 \in i + 1 .. j - 2
    BY <1>1, <1>2
  <2>2. ASSUME NEW k \in i .. j - 1
        PROVE  IF k = i + d - 1 THEN At(k) = "." ELSE At(k) \in Digit
    <3>1. /\ k - i + 1 \in DOMAIN w /\ k - i + 1 \in 1 .. j - i
          /\ i + (k - i + 1) - 1 = k
          /\ k - i + 1 = d <=> k = i + d - 1
      BY <1>1, <1>2
    <3>2. w[k - i + 1] = At(k)
      BY <1>2, <3>1
    <3>3. IF k - i + 1 = d THEN w[k - i + 1] = "." ELSE w[k - i + 1] \in Digit
      BY <1>3, <3>1
    <3> QED
      BY <3>1, <3>2, <3>3
  <2> QED
    BY <2>1, <2>2
<1>4. ASSUME NEW dot \in i + 1 .. j - 2,
             \A k \in i .. j - 1 : IF k = dot THEN At(k) = "." ELSE At(k) \in Digit
      PROVE  \E d \in 2 .. Len(w) - 1 :
               \A k \in DOMAIN w : IF k = d THEN w[k] = "." ELSE w[k] \in Digit
  <2>1. dot - i + 1 \in 2 .. Len(w) - 1
    BY <1>1, <1>2
  <2>2. ASSUME NEW k \in DOMAIN w
        PROVE  IF k = dot - i + 1 THEN w[k] = "." ELSE w[k] \in Digit
    <3>1. /\ k \in 1 .. j - i /\ i + k - 1 \in i .. j - 1
          /\ k = dot - i + 1 <=> i + k - 1 = dot
      <4>1. k \in 1 .. j - i
        BY <1>2
      <4> QED
        BY <1>1, <4>1
    <3>2. w[k] = At(i + k - 1)
      BY <1>2, <3>1
    <3> QED
      BY <1>4, <3>1, <3>2
  <2> QED
    BY <2>1, <2>2
<1> QED
  BY <1>3, <1>4 DEF IsFloat, w

(* a comment,                                                              *)
LEMMA TextComment ==
    ASSUME source \in Seq(Char), NEW i \in Nat, NEW j \in i + 1 .. Len(source)
    PROVE  IsComment(Text(source, i, j)) <=>
             /\ j >= i + 2 /\ At(i) = "/" /\ At(i + 1) = "/"
             /\ \A k \in i .. j - 2 : At(k) \notin LineEnd
<1> DEFINE w == Text(source, i, j)
<1>1. Len(source) \in Nat
  OBVIOUS
<1>2. DOMAIN w = 1 .. j - i /\ Len(w) = j - i /\ \A k \in 1 .. j - i : w[k] = At(i + k - 1)
  BY TextIs
<1> HIDE DEF w
<1>3. Len(w) >= 2 <=> j >= i + 2
  BY <1>1, <1>2
<1>4. ASSUME j >= i + 2 PROVE w[1] = At(i) /\ w[2] = At(i + 1)
  <2>1. 1 \in 1 .. j - i /\ 2 \in 1 .. j - i /\ i + 1 - 1 = i /\ i + 2 - 1 = i + 1
    BY <1>1, <1>4
  <2> QED
    BY <1>2, <2>1
<1>5. ASSUME \A k \in 1 .. Len(w) - 1 : w[k] \notin LineEnd, NEW k \in i .. j - 2
      PROVE  At(k) \notin LineEnd
  <2>1. k - i + 1 \in 1 .. Len(w) - 1 /\ k - i + 1 \in 1 .. j - i /\ i + (k - i + 1) - 1 = k
    BY <1>1, <1>2
  <2>2. w[k - i + 1] = At(k)
    BY <1>2, <2>1
  <2> QED
    BY <1>5, <2>1, <2>2
<1>6. ASSUME \A k \in i .. j - 2 : At(k) \notin LineEnd, NEW k \in 1 .. Len(w) - 1
      PROVE  w[k] \notin LineEnd
  <2>1. k \in 1 .. j - i /\ i + k - 1 \in i .. j - 2
    BY <1>1, <1>2
  <2> QED
    BY <1>2, <1>6, <2>1
<1> QED
  BY <1>3, <1>4, <1>5, <1>6 DEF IsComment, w

(* an operator of two characters,                                          *)
LEMMA TextDouble ==
    ASSUME source \in Seq(Char), NEW i \in Nat, NEW j \in i + 1 .. Len(source)
    PROVE  Text(source, i, j) \in Double <=> j = i + 2 /\ <<At(i), At(i + 1)>> \in Double
<1> DEFINE w == Text(source, i, j)
<1>1. Len(source) \in Nat
  OBVIOUS
<1>2. w \in Seq(Char) /\ Len(w) = j - i /\ \A k \in 1 .. j - i : w[k] = At(i + k - 1)
  BY TextIs
<1> HIDE DEF w
<1>3. \A d \in Double : Len(d) = 2
  BY DEF Double
<1>4. Len(w) = 2 <=> j = i + 2
  BY <1>1, <1>2
<1>5. ASSUME j = i + 2 PROVE w = <<At(i), At(i + 1)>>
  <2>1. 1 \in 1 .. j - i /\ 2 \in 1 .. j - i /\ i + 1 - 1 = i /\ i + 2 - 1 = i + 1
    BY <1>1, <1>5
  <2>2. w[1] = At(i) /\ w[2] = At(i + 1)
    BY <1>2, <2>1
  <2> QED
    BY <1>2, <1>4, <1>5, <2>2
<1> QED
  BY <1>3, <1>4, <1>5 DEF w

(* white space.                                                            *)
LEMMA TextBlank ==
    ASSUME source \in Seq(Char), NEW i \in Nat, NEW j \in i + 1 .. Len(source)
    PROVE  IsBlank(Text(source, i, j)) <=> j = i + 1 /\ At(i) \in Blank
<1>1. Len(Text(source, i, j)) = j - i /\ Text(source, i, j)[1] = At(i)
  BY TextFirst, TextIs
<1> QED
  BY <1>1 DEF IsBlank

(* The kinds of characters that begin lexemes of different sorts.          *)
LEMMA Classes ==
    /\ \A c \in Letter \cup {"_"} : /\ c \notin Digit /\ c \notin Blank /\ c \notin Operator
                                    /\ c \notin {Nul, EofByte, "other"}
    /\ \A c \in Digit : /\ c \notin Blank /\ c \notin Operator
                        /\ c \notin {Nul, EofByte, "other"}
    /\ \A c \in Blank : c \notin Operator /\ c \notin {Nul, EofByte, "other"}
    /\ \A c \in Operator : c \notin Ident /\ c \notin {Nul, EofByte, "other"}
    /\ "/" \in Operator /\ "." \in Operator
    /\ \A c, e : <<c, e>> \in Double => c \in Operator \ {"/"} /\ e # Nul
<1>1. \A c \in Letter \cup {"_"} : c \notin Digit /\ c \notin Blank
  BY DEF Letter, Digit, Blank
<1>2. \A c \in Letter \cup {"_"} : c \notin {Nul, EofByte, "other"}
  BY DEF Letter, Nul, EofByte
<1>3. \A c \in Operator : c \notin Letter \cup {"_"}
  BY DEF Letter, Operator
<1>4. \A c \in Operator : c \notin Digit \cup Blank \cup {Nul, EofByte, "other"}
  BY DEF Digit, Operator, Blank, Nul, EofByte
<1>5. \A c \in Digit : c \notin Blank /\ c \notin {Nul, EofByte, "other"}
  BY DEF Digit, Blank, Nul, EofByte
<1>6. \A c \in Blank : c \notin {Nul, EofByte, "other"}
  BY DEF Blank, Nul, EofByte
<1>7. "/" \in Operator /\ "." \in Operator
  BY DEF Operator
<1>8. \A c, e : <<c, e>> \in Double => c \in Operator \ {"/"} /\ e # Nul
  BY DEF Double, Operator, Nul
<1> QED
  BY <1>1, <1>2, <1>3, <1>4, <1>5, <1>6, <1>7, <1>8 DEF Ident

(* A lexeme of several characters, by the character it begins with.        *)
LEMMA LongLexeme ==
    ASSUME source \in Seq(Char), NEW i \in Nat, NEW j \in i + 2 .. Len(source),
           IsLexeme(Text(source, i, j))
    PROVE  /\ At(i) \in Letter \cup {"_"} => \A k \in i .. j - 1 : At(k) \in Ident
           /\ At(i) \in Digit => \/ \A k \in i .. j - 1 : At(k) \in Digit
                                 \/ \E dot \in i + 1 .. j - 2 : \A k \in i .. j - 1 :
                                      IF k = dot THEN At(k) = "." ELSE At(k) \in Digit
           /\ At(i) \notin Ident => \/ j = i + 2 /\ <<At(i), At(i + 1)>> \in Double
                                    \/ /\ At(i) = "/" /\ At(i + 1) = "/"
                                       /\ \A k \in i .. j - 2 : At(k) \notin LineEnd
<1>1. Len(source) \in Nat
  OBVIOUS
<1>2. /\ j \in i + 1 .. Len(source) /\ i \in i .. j - 1 /\ j # i + 1
      /\ \A dot \in i + 1 .. j - 2 : dot # i
  BY <1>1
<1>3. Len(Text(source, i, j)) # 1
  <2>1. Len(Text(source, i, j)) = j - i
    BY <1>2, TextIs
  <2> QED
    BY <1>1, <1>2, <2>1
<1>4. \/ j = i + 2 /\ <<At(i), At(i + 1)>> \in Double
      \/ At(i) \in Letter \cup {"_"} /\ \A k \in i .. j - 1 : At(k) \in Ident
      \/ \A k \in i .. j - 1 : At(k) \in Digit
      \/ \E dot \in i + 1 .. j - 2 : \A k \in i .. j - 1 :
            IF k = dot THEN At(k) = "." ELSE At(k) \in Digit
      \/ /\ At(i) = "/" /\ At(i + 1) = "/"
         /\ \A k \in i .. j - 2 : At(k) \notin LineEnd
  <2>1. CASE Text(source, i, j) \in Double
    BY <1>2, <2>1, TextDouble
  <2>2. CASE IsName(Text(source, i, j))
    BY <1>2, <2>2, TextName
  <2>3. CASE IsInteger(Text(source, i, j))
    BY <1>2, <2>3, TextInteger
  <2>4. CASE IsFloat(Text(source, i, j))
    BY <1>2, <2>4, TextFloat
  <2>5. CASE IsComment(Text(source, i, j))
    BY <1>2, <2>5, TextComment
  <2> QED
    BY <1>3, <2>1, <2>2, <2>3, <2>4, <2>5 DEF IsLexeme
<1>5. (\E dot \in i + 1 .. j - 2 : \A k \in i .. j - 1 :
         IF k = dot THEN At(k) = "." ELSE At(k) \in Digit) => At(i) \in Digit
  BY <1>2
<1>6. (\A k \in i .. j - 1 : At(k) \in Digit) => At(i) \in Digit
  BY <1>2
<1>7. At(i) \in Ident <=> At(i) \in Letter \cup {"_"} \/ At(i) \in Digit
  BY DEF Ident
<1>8. /\ <<At(i), At(i + 1)>> \in Double => At(i) \notin Ident
      /\ At(i) = "/" => At(i) \notin Ident
      /\ At(i) \in Letter \cup {"_"} => At(i) \notin Digit
  BY Classes, Zenon
<1> QED
  BY <1>4, <1>5, <1>6, <1>7, <1>8, Zenon

-----------------------------------------------------------------------------
(* The longest lexeme at a place.                                          *)

(* All of a run is of its set, and what ends it is not.                    *)
LEMMA RunIs ==
    ASSUME source \in Seq(Char), NEW i \in 0 .. Len(source), NEW S \in SUBSET Char
    PROVE  /\ RunEnd(i, S) \in i .. Len(source)
           /\ At(RunEnd(i, S)) \notin S
           /\ \A k \in i .. RunEnd(i, S) - 1 : At(k) \in S
<1> DEFINE Ends == {j \in i .. Len(source) : At(j) \notin S}
           e == Least(Ends)
<1>1. Len(source) \in Nat /\ Nul \notin Char
  BY NulIsNoChar
<1>2. At(Len(source)) = Nul
  BY <1>1, CharAt
<1>3. Len(source) \in Ends
  BY <1>1, <1>2
<1>4. Ends \in SUBSET Nat
  BY <1>1
<1>5. e \in Ends /\ \A j \in Ends : e <= j
  BY <1>3, <1>4, LeastIsLeast
<1> HIDE DEF e
<1>6. \A k \in i .. e - 1 : k \in i .. Len(source) /\ ~(e <= k)
  BY <1>1, <1>5
<1> QED
  BY <1>5, <1>6 DEF RunEnd, e

(* The sets of characters that runs are made of.                           *)
LEMMA Alphabets ==
    /\ Blank \in SUBSET Char /\ Ident \in SUBSET Char
    /\ Digit \in SUBSET Char /\ Char \ LineEnd \in SUBSET Char
    /\ "/" \in Char \ LineEnd
<1>1. "/" \in Char
  BY Classes DEF Char
<1>2. "/" \notin LineEnd
  BY DEF LineEnd
<1> QED
  BY <1>1, <1>2, Zenon DEF Char, Ident

(* The longest lexemes: of white space ...                                 *)
LEMMA LongBlank ==
    ASSUME source \in Seq(Char), NEW i \in 0 .. Len(source) - 1, At(i) \in Blank
    PROVE  /\ Longest(source, i) = i + 1
           /\ IsSkipped(Text(source, i, i + 1))
<1>1. Len(source) \in Nat /\ i \in Nat /\ i + 1 \in i + 1 .. Len(source)
  OBVIOUS
<1>2. IsBlank(Text(source, i, i + 1))
  BY <1>1, TextBlank
<1>3. IsLexeme(Text(source, i, i + 1))
  BY <1>2 DEF IsBlank, IsLexeme
<1>4. At(i) \notin Ident /\ At(i) # "/" /\ <<At(i), At(i + 1)>> \notin Double
  BY Classes, Zenon DEF Ident
<1>5. \A j \in i + 1 + 1 .. Len(source) : ~ IsLexeme(Text(source, i, j))
  <2>1. \A j \in i + 1 + 1 .. Len(source) : j \in i + 2 .. Len(source)
    BY <1>1
  <2> QED
    BY <1>1, <1>4, <2>1, LongLexeme
<1> QED
  BY <1>1, <1>2, <1>3, <1>5, LongestIs DEF IsSkipped

(* ... of a comment, which takes the end of its line ...                   *)
LEMMA LongComment ==
    ASSUME source \in Seq(Char), NEW i \in 0 .. Len(source) - 1,
           At(i) = "/", At(i + 1) = "/",
           NEW end, end = RunEnd(i, Char \ LineEnd),
           NEW next, next = IF At(end) = Nul THEN end ELSE end + 1
    PROVE  /\ next \in i + 1 .. Len(source)
           /\ Longest(source, i) = next
           /\ IsSkipped(Text(source, i, next))
<1>1. Len(source) \in Nat /\ i \in Nat /\ i \in 0 .. Len(source)
  OBVIOUS
<1>2. /\ end \in i .. Len(source) /\ At(end) \notin Char \ LineEnd
      /\ \A k \in i .. end - 1 : At(k) \in Char \ LineEnd
  BY <1>1, RunIs, Alphabets
<1>3. end # i /\ end # i + 1
  BY <1>2, Alphabets
<1>4. end \in i + 2 .. Len(source) /\ end \in Nat
  BY <1>1, <1>2, <1>3
<1>5. (At(end) = Nul <=> end = Len(source)) /\ (At(end) # Nul => At(end) \in LineEnd)
  <2>1. At(end) = Nul <=> end >= Len(source)
    BY <1>4, CharAt
  <2>2. end < Len(source) => At(end) \in Char
    BY <1>4, CharAt
  <2> QED
    BY <1>1, <1>2, <1>4, <2>1, <2>2
<1>6. next \in i + 1 .. Len(source) /\ next >= i + 2 /\ next <= end + 1
  BY <1>1, <1>4, <1>5
<1>7. IsComment(Text(source, i, next))
  <2>1. \A k \in i .. next - 2 : k \in i .. end - 1
    BY <1>1, <1>4, <1>6
  <2> QED
    BY <1>1, <1>2, <1>6, <2>1, TextComment
<1>8. At(i) \notin Ident /\ <<At(i), At(i + 1)>> \notin Double
  BY Classes, Zenon
<1>9. ASSUME NEW j \in next + 1 .. Len(source), IsLexeme(Text(source, i, j)) PROVE FALSE
  <2>1. j \in i + 2 .. Len(source) /\ At(end) # Nul /\ end \in i .. j - 2
    BY <1>1, <1>4, <1>5, <1>6, <1>9
  <2> QED
    BY <1>1, <1>5, <1>8, <1>9, <2>1, LongLexeme
<1> QED
  BY <1>1, <1>6, <1>7, <1>9, LongestIs DEF IsSkipped, IsLexeme

(* ... of a name ...                                                       *)
LEMMA LongWord ==
    ASSUME source \in Seq(Char), NEW i \in 0 .. Len(source) - 1, At(i) \in Ident \ Digit,
           NEW end, end = RunEnd(i, Ident)
    PROVE  /\ end \in i + 1 .. Len(source)
           /\ Longest(source, i) = end
           /\ IsName(Text(source, i, end))
           /\ ~ IsSkipped(Text(source, i, end))
<1>1. Len(source) \in Nat /\ i \in Nat /\ i \in 0 .. Len(source)
  OBVIOUS
<1>2. /\ end \in i .. Len(source) /\ At(end) \notin Ident
      /\ \A k \in i .. end - 1 : At(k) \in Ident
  BY <1>1, RunIs, Alphabets
<1>3. end # i
  BY <1>2
<1>4. end \in i + 1 .. Len(source)
  BY <1>1, <1>2, <1>3
<1>5. At(i) \in Letter \cup {"_"}
  BY DEF Ident
<1>6. IsName(Text(source, i, end))
  BY <1>1, <1>2, <1>4, <1>5, TextName
<1>7. ASSUME NEW j \in end + 1 .. Len(source), IsLexeme(Text(source, i, j)) PROVE FALSE
  <2>1. j \in i + 2 .. Len(source) /\ end \in i .. j - 1
    BY <1>1, <1>4
  <2> QED
    BY <1>1, <1>2, <1>5, <1>7, <2>1, LongLexeme
<1>8. At(i) \notin Blank /\ At(i) # "/"
  BY <1>5, Classes, Zenon
<1>9. ~ IsSkipped(Text(source, i, end))
  BY <1>1, <1>4, <1>8, TextBlank, TextComment DEF IsSkipped
<1> QED
  BY <1>1, <1>4, <1>6, <1>7, <1>9, LongestIs DEF IsLexeme

(* ... of a number ...                                                     *)
LEMMA LongNumber ==
    ASSUME source \in Seq(Char), NEW i \in 0 .. Len(source) - 1, At(i) \in Digit,
           NEW dot, dot = RunEnd(i, Digit),
           NEW end, end = RunEnd(dot + 1, Digit),
           NEW next, next = IF At(dot) = "." /\ end # dot + 1 THEN end ELSE dot
    PROVE  /\ next \in i + 1 .. Len(source)
           /\ Longest(source, i) = next
           /\ next = dot => IsInteger(Text(source, i, next))
           /\ next # dot => IsFloat(Text(source, i, next))
           /\ ~ IsSkipped(Text(source, i, next))
<1>1. Len(source) \in Nat /\ i \in Nat /\ i \in 0 .. Len(source)
  OBVIOUS
<1>2. /\ dot \in i .. Len(source) /\ At(dot) \notin Digit
      /\ \A k \in i .. dot - 1 : At(k) \in Digit
  BY <1>1, RunIs, Alphabets
<1>3. dot # i
  BY <1>2
<1>4. dot \in i + 1 .. Len(source)
  BY <1>1, <1>2, <1>3
<1>5. At(i) \notin Blank /\ At(i) # "/" /\ At(i) \notin Letter \cup {"_"} /\ "." \notin Digit
  BY Classes, Zenon DEF Ident
<1>6. \A j \in i + 1 .. Len(source) : ~ IsSkipped(Text(source, i, j))
  BY <1>1, <1>5, TextBlank, TextComment DEF IsSkipped
<1>7. IsInteger(Text(source, i, dot))
  BY <1>1, <1>2, <1>4, TextInteger
<1>8. ASSUME NEW j \in dot + 1 .. Len(source), IsLexeme(Text(source, i, j))
      PROVE  /\ At(dot) = "." /\ dot + 1 \in i .. j - 1
             /\ \A k \in i .. j - 1 : IF k = dot THEN At(k) = "." ELSE At(k) \in Digit
  <2>1. j \in i + 2 .. Len(source) /\ dot \in i .. j - 1
    BY <1>1, <1>4
  <2>2. PICK d \in i + 1 .. j - 2 :
          \A k \in i .. j - 1 : IF k = d THEN At(k) = "." ELSE At(k) \in Digit
    BY <1>1, <1>2, <1>8, <2>1, LongLexeme
  <2>3. d = dot
    <3>1. CASE d < dot
      <4>1. d \in i .. dot - 1 /\ d \in i .. j - 1
        BY <1>1, <2>1, <3>1
      <4>2. At(d) \in Digit /\ At(d) = "."
        BY <1>2, <2>2, <4>1
      <4> QED
        BY <1>5, <4>2
    <3>2. CASE d > dot
      BY <1>2, <2>1, <2>2, <3>2
    <3> QED
      BY <1>1, <1>4, <3>1, <3>2
  <2>4. dot + 1 \in i .. j - 1
    BY <1>1, <1>4, <2>3
  <2> QED
    BY <2>1, <2>2, <2>3, <2>4
<1>9. CASE At(dot) # "."
  BY <1>1, <1>4, <1>6, <1>7, <1>8, <1>9, LongestIs DEF IsLexeme
<1>10. CASE At(dot) = "."
  <2>1. dot \in Nat /\ dot < Len(source)
    BY <1>1, <1>4, <1>10, CharAt DEF Nul
  <2>2. dot + 1 \in 0 .. Len(source)
    BY <1>1, <2>1
  <2>3. /\ end \in dot + 1 .. Len(source) /\ At(end) \notin Digit
        /\ \A k \in dot + 1 .. end - 1 : At(k) \in Digit
    BY <2>2, RunIs, Alphabets
  <2>4. CASE end = dot + 1
    <3>1. \A j \in dot + 1 .. Len(source) : ~ IsLexeme(Text(source, i, j))
      BY <1>8, <2>1, <2>3, <2>4
    <3> QED
      BY <1>1, <1>4, <1>6, <1>7, <2>4, <3>1, LongestIs DEF IsLexeme
  <2>5. CASE end # dot + 1
    <3>1. end \in i + 1 .. Len(source) /\ dot \in i + 1 .. end - 2 /\ next = end /\ next # dot
      BY <1>1, <1>4, <1>10, <2>1, <2>3, <2>5
    <3>2. \A k \in i .. end - 1 : IF k = dot THEN At(k) = "." ELSE At(k) \in Digit
      <4>1. \A k \in i .. end - 1 : k = dot \/ k \in i .. dot - 1 \/ k \in dot + 1 .. end - 1
        BY <1>1, <2>1, <3>1
      <4> QED
        BY <1>2, <1>10, <2>3, <4>1
    <3>3. IsFloat(Text(source, i, end))
      <4>1. \E d \in i + 1 .. end - 2 : \A k \in i .. end - 1 :
              IF k = d THEN At(k) = "." ELSE At(k) \in Digit
        BY <3>1, <3>2, Zenon
      <4> QED
        BY <1>1, <3>1, <4>1, TextFloat, Zenon
    <3>4. ASSUME NEW j \in end + 1 .. Len(source), IsLexeme(Text(source, i, j)) PROVE FALSE
      <4>1. j \in dot + 1 .. Len(source) /\ end \in i .. j - 1 /\ end # dot
        <5>1. end \in Nat /\ i \in Nat /\ dot \in Nat /\ i <= end /\ dot < end
          BY <1>1, <2>1, <3>1
        <5> QED
          BY <1>1, <5>1
      <4>2. At(end) \in Digit
        BY <1>8, <3>4, <4>1
      <4> QED
        BY <2>3, <4>2
    <3> QED
      BY <1>1, <1>6, <3>1, <3>3, <3>4, LongestIs DEF IsLexeme
  <2> QED
    BY <2>4, <2>5
<1> QED
  BY <1>9, <1>10

(* ... and of operators and whatever else there is.                        *)
LEMMA LongSymbol ==
    ASSUME source \in Seq(Char), NEW i \in 0 .. Len(source) - 1,
           At(i) \notin Blank \cup Ident, ~(At(i) = "/" /\ At(i + 1) = "/"),
           NEW next, next = IF <<At(i), At(i + 1)>> \in Double THEN i + 2 ELSE i + 1
    PROVE  /\ next \in i + 1 .. Len(source)
           /\ Longest(source, i) = next
           /\ next = i + 2 => Text(source, i, next) = <<At(i), At(i + 1)>>
           /\ next = i + 1 => Text(source, i, next) = <<At(i)>>
           /\ ~ IsSkipped(Text(source, i, next))
<1>1. Len(source) \in Nat /\ i \in Nat /\ i + 1 \in i + 1 .. Len(source)
  OBVIOUS
<1>2. \A j \in i + 1 .. Len(source) : ~ IsSkipped(Text(source, i, j))
  BY <1>1, TextBlank, TextComment DEF IsSkipped
<1>3. CASE <<At(i), At(i + 1)>> \in Double
  <2>1. At(i + 1) # Nul
    BY <1>3, Classes, Zenon
  <2>2. next = i + 2 /\ next \in i + 1 .. Len(source)
    <3>1. i + 1 < Len(source)
      BY <1>1, <2>1, CharAt
    <3> QED
      BY <1>1, <1>3, <3>1
  <2>3. Text(source, i, next) \in Double
    BY <1>1, <1>3, <2>2, TextDouble
  <2>4. Text(source, i, next) = <<At(i), At(i + 1)>>
    <3>1. /\ Text(source, i, next) \in Seq(Char)
          /\ Len(Text(source, i, next)) = next - i
          /\ \A k \in 1 .. next - i : Text(source, i, next)[k] = At(i + k - 1)
      BY <1>1, <2>2, TextIs
    <3>2. next - i = 2 /\ i + 1 - 1 = i /\ i + 2 - 1 = i + 1 /\ 1 \in 1 .. 2 /\ 2 \in 1 .. 2
      BY <1>1, <2>2
    <3>3. Text(source, i, next)[1] = At(i) /\ Text(source, i, next)[2] = At(i + 1)
      BY <3>1, <3>2
    <3> QED
      BY <3>1, <3>2, <3>3
  <2>5. ASSUME NEW j \in next + 1 .. Len(source), IsLexeme(Text(source, i, j)) PROVE FALSE
    <3>1. j \in i + 2 .. Len(source) /\ j # i + 2
      BY <1>1, <2>2
    <3> QED
      BY <1>1, <2>5, <3>1, LongLexeme
  <2> QED
    BY <1>1, <1>2, <2>2, <2>3, <2>4, <2>5, LongestIs DEF IsLexeme
<1>4. CASE <<At(i), At(i + 1)>> \notin Double
  <2>1. next = i + 1 /\ next \in i + 1 .. Len(source) /\ next # i + 2
    BY <1>1, <1>4
  <2>2. Text(source, i, next) = <<At(i)>>
    <3>1. /\ Text(source, i, next) \in Seq(Char)
          /\ Len(Text(source, i, next)) = next - i
          /\ Text(source, i, next)[1] = At(i)
      BY <1>1, <2>1, TextIs, TextFirst
    <3>2. next - i = 1
      BY <1>1, <2>1
    <3>3. Text(source, i, next) \in Seq(Char) /\ Len(Text(source, i, next)) = 1
      BY <3>1, <3>2
    <3> QED
      BY <3>1, <3>3
  <2>3. IsLexeme(Text(source, i, next))
    BY <2>2 DEF IsLexeme
  <2>4. ASSUME NEW j \in next + 1 .. Len(source), IsLexeme(Text(source, i, j)) PROVE FALSE
    <3>1. j \in i + 2 .. Len(source)
      BY <1>1, <2>1
    <3> QED
      BY <1>1, <1>4, <2>4, <3>1, LongLexeme
  <2> QED
    BY <1>1, <1>2, <2>1, <2>2, <2>3, <2>4, LongestIs
<1> QED
  BY <1>3, <1>4

(* Whatever stands there, the longest lexeme ends in the text.             *)
LEMMA LongestInside ==
    ASSUME source \in Seq(Char), NEW i \in 0 .. Len(source) - 1
    PROVE  Longest(source, i) \in i + 1 .. Len(source)
<1>1. CASE At(i) \in Blank
  BY <1>1, LongBlank
<1>2. CASE At(i) = "/" /\ At(i + 1) = "/"
  BY <1>2, LongComment
<1>3. CASE At(i) \in Ident \ Digit
  BY <1>3, LongWord
<1>4. CASE At(i) \in Digit
  BY <1>4, LongNumber
<1>5. CASE At(i) \notin Blank \cup Ident /\ ~(At(i) = "/" /\ At(i + 1) = "/")
  BY <1>5, LongSymbol
<1> QED
  BY <1>1, <1>2, <1>3, <1>4, <1>5

-----------------------------------------------------------------------------
(* The tokens are the longest lexemes.                                     *)

(* The places of the tokens from each place on, without recursion.         *)
LEMMA PlacesAt ==
    ASSUME source \in Seq(Char)
    PROVE  /\ PlacesFrom(source)[Len(source)] = <<>>
           /\ \A i \in 0 .. Len(source) - 1 :
                PlacesFrom(source)[i] =
                  (IF IsSkipped(Text(source, i, Longest(source, i))) THEN <<>>
                   ELSE <<<<i, Longest(source, i)>>>>) \o PlacesFrom(source)[Longest(source, i)]
<1>1. Len(source) \in Nat
  OBVIOUS
<1>2. \A i \in 0 .. Len(source) - 1 : Longest(source, i) \in i + 1 .. Len(source)
  BY LongestInside
<1>3. Len(source) \in 0 .. Len(source)
      /\ \A i \in 0 .. Len(source) - 1 : i \in 0 .. Len(source) /\ i # Len(source)
  BY <1>1
<1> QED
  BY <1>2, <1>3, PlacesUnfold

(* They are pairs of places.                                               *)
LEMMA PlacesType ==
    ASSUME source \in Seq(Char), NEW i \in 0 .. Len(source)
    PROVE  PlacesFrom(source)[i] \in Seq(Nat \X Nat)
<1> DEFINE n == Len(source)
           Bad == {d \in 0 .. n : PlacesFrom(source)[n - d] \notin Seq(Nat \X Nat)}
           d == Least(Bad)
<1>1. n \in Nat
  OBVIOUS
<1>2. ASSUME Bad # {} PROVE FALSE
  <2>1. d \in Bad /\ \A e \in Bad : d <= e
    <3>1. Bad \in SUBSET Nat
      BY <1>1
    <3> HIDE DEF Bad
    <3> QED
      BY <1>2, <3>1, LeastIsLeast
  <2> HIDE DEF d
  <2>2. d \in 0 .. n /\ PlacesFrom(source)[n - d] \notin Seq(Nat \X Nat)
    BY <2>1
  <2>3. d # 0
    <3>1. n - 0 = n /\ <<>> \in Seq(Nat \X Nat)
      BY <1>1
    <3> QED
      BY <2>2, <3>1, PlacesAt
  <2>4. n - d \in 0 .. n - 1
    BY <1>1, <2>2, <2>3
  <2> DEFINE l == Longest(source, n - d)
  <2>5. l \in n - d + 1 .. n
    BY <2>4, LongestInside
  <2> HIDE DEF l
  <2>6. n - l \in 0 .. n /\ ~(d <= n - l) /\ n - (n - l) = l
    BY <1>1, <2>2, <2>5
  <2>7. PlacesFrom(source)[l] \in Seq(Nat \X Nat)
    BY <2>1, <2>6
  <2>8. \/ PlacesFrom(source)[n - d] = <<>> \o PlacesFrom(source)[l]
        \/ PlacesFrom(source)[n - d] = <<<<n - d, l>>>> \o PlacesFrom(source)[l]
    BY <2>4, PlacesAt DEF l
  <2>9. <<n - d, l>> \in Nat \X Nat
    BY <1>1, <2>4, <2>5
  <2>10. <<>> \in Seq(Nat \X Nat) /\ <<<<n - d, l>>>> \in Seq(Nat \X Nat)
    BY <2>9
  <2>11. PlacesFrom(source)[n - d] \in Seq(Nat \X Nat)
    <3> DEFINE S    == Nat \X Nat
               rest == PlacesFrom(source)[l]
               new  == <<<<n - d, l>>>>
    <3>1. rest \in Seq(S) /\ <<>> \in Seq(S) /\ new \in Seq(S)
      BY <2>7, <2>10
    <3> HIDE DEF S, rest, new
    <3>2. <<>> \o rest \in Seq(S) /\ new \o rest \in Seq(S)
      BY <3>1, ConcatProperties
    <3> QED
      BY <2>8, <3>2 DEF S, rest, new
  <2> QED
    BY <2>2, <2>11
<1>3. n - i \in 0 .. n /\ n - (n - i) = i
  BY <1>1
<1> QED
  BY <1>2, <1>3

(* White space is skipped.                                                 *)
LEMMA BlanksSkipped ==
    ASSUME source \in Seq(Char), index \in 0 .. Len(source)
    PROVE  PlacesFrom(source)[index] = PlacesFrom(source)[Start]
<1> DEFINE n == Len(source)
           f == PlacesFrom(source)
           Bad == {d \in 0 .. Start - index : f[Start - d] # f[Start]}
           d == Least(Bad)
<1>1. n \in Nat
  OBVIOUS
<1>2. Start \in index .. n /\ \A k \in index .. Start - 1 : At(k) \in Blank
  BY RunIs, Alphabets DEF Start
<1> HIDE DEF f
<1>3. ASSUME Bad # {} PROVE FALSE
  <2>1. d \in Bad /\ \A e \in Bad : d <= e
    <3>1. Bad \in SUBSET Nat
      BY <1>1, <1>2
    <3> HIDE DEF Bad
    <3> QED
      BY <1>3, <3>1, LeastIsLeast
  <2> HIDE DEF d
  <2>2. d \in 0 .. Start - index /\ f[Start - d] # f[Start]
    BY <2>1
  <2>3. d # 0
    BY <1>1, <1>2, <2>2
  <2>4. /\ Start - d \in 0 .. n - 1 /\ Start - d \in index .. Start - 1
        /\ d - 1 \in 0 .. Start - index /\ ~(d <= d - 1) /\ Start - d + 1 = Start - (d - 1)
    BY <1>1, <1>2, <2>2, <2>3
  <2>5. f[Start - (d - 1)] = f[Start]
    BY <2>1, <2>4
  <2>6. f[Start - d] = <<>> \o f[Start - d + 1]
    BY <1>2, <2>4, LongBlank, PlacesAt DEF f
  <2>7. f[Start - d + 1] \in Seq(Nat \X Nat)
    <3>1. Start - d + 1 \in 0 .. n
      BY <1>1, <2>4
    <3> QED
      BY <3>1, PlacesType DEF f
  <2>8. f[Start - d] = f[Start - d + 1]
    BY <2>6, <2>7, ConcatEmptySeq
  <2> QED
    BY <2>2, <2>4, <2>5, <2>8
<1>4. Start - index \in 0 .. Start - index /\ Start - (Start - index) = index
  BY <1>1, <1>2
<1> QED
  BY <1>3, <1>4 DEF f

(* The places of the tokens returned.                                      *)
Places == [i \in DOMAIN tokens |-> <<tokens[i].start, tokens[i].end>>]

(* They are the first of the places of the text, and those from the index  *)
(* on are the others.                                                      *)
PlacesInv == PlacesFrom(source)[0] = Places \o PlacesFrom(source)[index]

(* They are pairs of places, one for each token.                           *)
LEMMA PlacesTyped ==
    ASSUME TypeOK
    PROVE  Places \in Seq(Nat \X Nat) /\ Len(Places) = Len(tokens)
<1>1. tokens \in Seq([kind : Kind, start : Nat, end : Nat]) /\ Len(tokens) \in Nat
      /\ DOMAIN tokens = 1 .. Len(tokens)
  BY DEF TypeOK
<1>2. \A i \in 1 .. Len(tokens) : <<tokens[i].start, tokens[i].end>> \in Nat \X Nat
  BY <1>1, TokenType
<1>3. Places \in [1 .. Len(tokens) -> Nat \X Nat]
  BY <1>1, <1>2 DEF Places
<1> QED
  BY <1>1, <1>3, IsASeq, LenProperties

(* An element at the end of a sequence, or in front of the next one.       *)
LEMMA AppendConcat ==
    ASSUME NEW S, NEW s \in Seq(S), NEW e \in S, NEW t \in Seq(S)
    PROVE  Append(s, e) \o t = s \o (<<e>> \o t)
<1>1. Append(s, e) = s \o <<e>> /\ <<e>> \in Seq(S)
  BY AppendIsConcat
<1>2. (s \o <<e>>) \o t = s \o (<<e>> \o t)
  BY <1>1, ConcatAssociative
<1> QED
  BY <1>1, <1>2

(* A token at the place of the next lexeme.                                *)
LEMMA PlacesReturn ==
    ASSUME LexInv, PlacesInv, Start \in 0 .. Len(source) - 1,
           NEW kind \in Kind, NEW end, Return(kind, end),
           Longest(source, Start) = end, ~ IsSkipped(Text(source, Start, end))
    PROVE  PlacesInv'
<1>1. source \in Seq(Char) /\ Len(source) \in Nat /\ index \in 0 .. Len(source) /\ TypeOK
  BY DEF LexInv, TypeOK
<1>2. end \in Start + 1 .. Len(source)
  BY <1>1, LongestInside
<1> DEFINE new == <<Start, end>>
           rest == PlacesFrom(source)[end]
<1>3. new \in Nat \X Nat /\ <<new>> \in Seq(Nat \X Nat) /\ rest \in Seq(Nat \X Nat)
  <2>1. end \in 0 .. Len(source) /\ end \in Nat /\ Start \in Nat
    BY <1>1, <1>2
  <2> QED
    BY <1>1, <2>1, PlacesType
<1>4. PlacesFrom(source)[index] = <<new>> \o rest
  BY <1>1, BlanksSkipped, PlacesAt
<1>5. /\ tokens \in Seq([kind : Kind, start : Nat, end : Nat])
      /\ tokens' = Append(tokens, Token(kind, Start, end))
      /\ index' = end /\ source' = source
  BY <1>1 DEF TypeOK, Return
<1>6. Places' = Append(Places, new)
  <2>1. Token(kind, Start, end) \in [kind : Kind, start : Nat, end : Nat]
    BY <1>3 DEF Token
  <2>2. /\ Len(tokens) \in Nat /\ Len(tokens') = Len(tokens) + 1
        /\ DOMAIN tokens' = 1 .. Len(tokens) + 1
        /\ DOMAIN tokens = 1 .. Len(tokens)
        /\ tokens'[Len(tokens) + 1] = Token(kind, Start, end)
        /\ \A i \in 1 .. Len(tokens) : tokens'[i] = tokens[i]
    BY <1>5, <2>1, AppendProperties
  <2>3. Token(kind, Start, end).start = Start /\ Token(kind, Start, end).end = end
    BY DEF Token
  <2>4. Places' = [i \in 1 .. Len(tokens) + 1 |-> <<tokens'[i].start, tokens'[i].end>>]
    BY <2>2 DEF Places
  <2>5. Places = [i \in 1 .. Len(tokens) |-> <<tokens[i].start, tokens[i].end>>]
    BY <2>2 DEF Places
  <2>6. /\ Places \in Seq(Nat \X Nat) /\ Len(Places) = Len(tokens)
    BY <1>1, PlacesTyped
  <2>7. Append(Places, new) = [i \in 1 .. Len(tokens) + 1 |->
                                 IF i = Len(tokens) + 1 THEN new ELSE Places[i]]
    BY <2>2, <2>6
  <2>8. \A i \in 1 .. Len(tokens) + 1 : 
            <<tokens'[i].start, tokens'[i].end>> = IF i = Len(tokens) + 1 THEN new ELSE Places[i]
    BY <2>2, <2>3, <2>5
  <2> QED
    BY <2>4, <2>7, <2>8
<1>7. Places \in Seq(Nat \X Nat)
  BY <1>1, PlacesTyped
<1> HIDE DEF new, rest, Places
<1>8. Append(Places, new) \o rest = Places \o (<<new>> \o rest)
  <2> DEFINE S == Nat \X Nat
  <2>1. new \in S /\ rest \in Seq(S) /\ Places \in Seq(S)
    BY <1>3, <1>7
  <2> HIDE DEF S
  <2> QED
    BY <2>1, AppendConcat
<1> QED
  BY <1>4, <1>5, <1>6, <1>8 DEF PlacesInv, rest

(* A call that returns no token.                                           *)
LEMMA PlacesSkip ==
    ASSUME PlacesInv, tokens' = tokens, source' = source,
           PlacesFrom(source)[index'] = PlacesFrom(source)[index]
    PROVE  PlacesInv'
  BY DEF PlacesInv, Places

(* Where a call is when it has skipped the white space.                    *)
LEMMA StartIs ==
    ASSUME LexInv
    PROVE  /\ source \in Seq(Char) /\ Len(source) \in Nat /\ index \in 0 .. Len(source)
           /\ Start \in index .. Len(source) /\ Start \in 0 .. Len(source)
           /\ At(Start) \notin Blank
           /\ At(Start) # Nul => Start \in 0 .. Len(source) - 1
<1>1. source \in Seq(Char) /\ Len(source) \in Nat /\ index \in 0 .. Len(source)
  BY DEF LexInv, TypeOK
<1>2. Start \in index .. Len(source) /\ At(Start) \notin Blank
  BY <1>1, RunIs, Alphabets DEF Start
<1>3. Start \in Nat
  BY <1>1, <1>2
<1>4. At(Start) # Nul => Start < Len(source)
  BY <1>1, <1>2, <1>3, CharAt
<1> QED
  BY <1>1, <1>2, <1>4

(* What a call of lexer_next that returns a token found: its kind, and the *)
(* longest lexeme at the place.                                            *)
Found(kind, end) ==
    /\ Start \in 0 .. Len(source) - 1
    /\ kind \in Kind
    /\ Return(kind, end)
    /\ Longest(source, Start) = end
    /\ ~ IsSkipped(Text(source, Start, end))

(* What a call finds that returns a word,                                  *)
LEMMA WordFound ==
    ASSUME LexInv, Word
    PROVE  /\ At(Start) \in Ident \ Digit
           /\ Found(WordKind(Start), RunEnd(Start, Ident))
<1>1. At(Start) \in Letter \cup {"_"} /\ Return(WordKind(Start), RunEnd(Start, Ident))
  BY DEF Word
<1>2. At(Start) \in Ident \ Digit /\ At(Start) # Nul
  BY <1>1, Classes, Zenon DEF Ident
<1>3. WordKind(Start) \in Kind
  BY StartIs, WordKindType
<1> QED
  BY <1>1, <1>2, <1>3, StartIs, LongWord DEF Found

(* a number,                                                               *)
LEMMA NumberFound ==
    ASSUME LexInv, Number
    PROVE  \E dot, end \in Nat :
             /\ At(Start) \in Digit
             /\ dot = RunEnd(Start, Digit)
             /\ Found(IF At(dot) = "." THEN Float ELSE Integer, end)
             /\ end = dot => IsInteger(Text(source, Start, end))
             /\ end # dot => IsFloat(Text(source, Start, end)) /\ At(dot) = "."
<1> DEFINE dot  == RunEnd(Start, Digit)
           end  == RunEnd(dot + 1, Digit)
           next == IF At(dot) = "." /\ end # dot + 1 THEN end ELSE dot
           kind == IF At(dot) = "." THEN Float ELSE Integer
<1>1. At(Start) \in Digit /\ Return(kind, next)
  <2>1. CASE At(dot) = "."
    BY <2>1 DEF Number
  <2>2. CASE At(dot) # "."
    BY <2>2 DEF Number
  <2> QED
    BY <2>1, <2>2
<1>2. At(Start) # Nul
  BY <1>1, Classes
<1>3. kind \in Kind
  BY Kinds
<1>4. /\ source \in Seq(Char) /\ Len(source) \in Nat
      /\ Start \in 0 .. Len(source) - 1 /\ Start \in 0 .. Len(source)
  BY <1>2, StartIs
<1>5. dot \in Start .. Len(source)
  BY <1>4, RunIs, Alphabets
<1>6. next # dot => At(dot) = "."
  OBVIOUS
<1>7. /\ next \in Start + 1 .. Len(source)
      /\ Longest(source, Start) = next
      /\ next = dot => IsInteger(Text(source, Start, next))
      /\ next # dot => IsFloat(Text(source, Start, next))
      /\ ~ IsSkipped(Text(source, Start, next))
  BY <1>1, <1>4, LongNumber
<1>8. dot \in Nat /\ next \in Nat
  BY <1>4, <1>5, <1>7
<1>9. Found(kind, next)
  BY <1>1, <1>3, <1>4, <1>7 DEF Found
<1> HIDE DEF next
<1> QED
  BY <1>1, <1>6, <1>7, <1>8, <1>9

(* or something else.                                                      *)
LEMMA SymbolFound ==
    ASSUME LexInv, Symbol
    PROVE  \/ \E c, d : /\ <<c, d>> \in Double
                        /\ Found(<<c, d>>, Start + 2)
                        /\ Text(source, Start, Start + 2) = <<c, d>>
           \/ \E c : /\ c \in Operator \cup {EofByte, "other"}
                     /\ Found(IF c \in Operator THEN <<c>>
                              ELSE IF c = EofByte THEN Eof ELSE Error, Start + 1)
                     /\ Text(source, Start, Start + 1) = <<c>>
<1> DEFINE c == At(Start)
           d == At(Start + 1)
           kind == IF c \in Operator THEN <<c>> ELSE IF c = EofByte THEN Eof ELSE Error
<1>1. c \notin Ident /\ c # Nul /\ ~(c = "/" /\ d = "/")
  BY DEF Symbol, Return, AtComment, Ident
<1>2. /\ source \in Seq(Char) /\ Len(source) \in Nat
      /\ Start \in 0 .. Len(source) - 1 /\ Start \in Nat /\ c \notin Blank
  BY <1>1, StartIs
<1>3. c \notin Blank \cup Ident
  BY <1>1, <1>2
<1>4. CASE <<c, d>> \in Double
  <2>1. Return(<<c, d>>, Start + 2)
    BY <1>4 DEF Symbol
  <2>2. <<c, d>> \in Kind
    BY <1>4, Kinds
  <2>3. /\ Longest(source, Start) = Start + 2
        /\ Text(source, Start, Start + 2) = <<c, d>>
        /\ ~ IsSkipped(Text(source, Start, Start + 2))
    BY <1>1, <1>2, <1>3, <1>4, LongSymbol
  <2>4. Found(<<c, d>>, Start + 2)
    BY <1>2, <2>1, <2>2, <2>3 DEF Found
  <2> QED
    BY <1>4, <2>3, <2>4
<1>5. CASE <<c, d>> \notin Double
  <2>1. Return(kind, Start + 1)
    BY <1>5 DEF Symbol
  <2>2. kind \in Kind
    BY Kinds
  <2>3. /\ Longest(source, Start) = Start + 1
        /\ Text(source, Start, Start + 1) = <<c>>
        /\ ~ IsSkipped(Text(source, Start, Start + 1))
    <3>1. Start + 1 # Start + 2
      BY <1>2
    <3> QED
      BY <1>1, <1>2, <1>3, <1>5, <3>1, LongSymbol
  <2>4. Found(kind, Start + 1)
    BY <1>2, <2>1, <2>2, <2>3 DEF Found
  <2>5. c \in Operator \cup {EofByte, "other"}
    <3>1. c \in Char
      BY <1>2, CharAt
    <3> QED
      BY <1>1, <1>2, <3>1 DEF Char
  <2> HIDE DEF c
  <2> QED
    BY <2>3, <2>4, <2>5
<1> QED
  BY <1>4, <1>5

(* Each of them keeps the order of the places.                             *)
LEMMA FoundPlaces ==
    ASSUME LexInv, PlacesInv, NEW kind, NEW end, Found(kind, end)
    PROVE  PlacesInv'
  BY PlacesReturn DEF Found

(* So does every step,                                                     *)
LEMMA PlacesStep == LexInv /\ PlacesInv /\ [Next]_vars => PlacesInv'
<1> SUFFICES ASSUME LexInv, PlacesInv, [Next]_vars PROVE PlacesInv'
  OBVIOUS
<1>1. /\ source \in Seq(Char) /\ Len(source) \in Nat /\ index \in 0 .. Len(source)
      /\ PlacesFrom(source)[index] = PlacesFrom(source)[Start]
  BY StartIs, BlanksSkipped
<1>2. CASE SkipComment
  <2> DEFINE end == RunEnd(Start, Char \ LineEnd)
  <2>1. At(Start) = "/" /\ At(Start + 1) = "/" /\ At(Start) # Nul
    BY <1>2 DEF SkipComment, AtComment, Nul
  <2>2. Start \in 0 .. Len(source) - 1
    BY <2>1, StartIs
  <2>3. /\ index' = IF At(end) = Nul THEN end ELSE end + 1
        /\ tokens' = tokens /\ source' = source
    BY <1>2 DEF SkipComment
  <2>4. /\ index' \in Start + 1 .. Len(source)
        /\ Longest(source, Start) = index'
        /\ IsSkipped(Text(source, Start, index'))
    <3> DEFINE next == IF At(end) = Nul THEN end ELSE end + 1
    <3>1. /\ next \in Start + 1 .. Len(source)
          /\ Longest(source, Start) = next
          /\ IsSkipped(Text(source, Start, next))
      <4>1. end = RunEnd(Start, Char \ LineEnd) /\ next = IF At(end) = Nul THEN end ELSE end + 1
        OBVIOUS
      <4> HIDE DEF end, next
      <4> QED
        BY <1>1, <2>1, <2>2, <4>1, LongComment
    <3> QED
      BY <2>3, <3>1
  <2>5. PlacesFrom(source)[Start] = <<>> \o PlacesFrom(source)[index']
    BY <1>1, <2>2, <2>4, PlacesAt
  <2>6. PlacesFrom(source)[index'] \in Seq(Nat \X Nat)
    <3>1. index' \in 0 .. Len(source)
      BY <1>1, <2>2, <2>4
    <3> QED
      BY <1>1, <3>1, PlacesType
  <2>7. PlacesFrom(source)[Start] = PlacesFrom(source)[index']
    BY <2>5, <2>6, ConcatEmptySeq
  <2> QED
    BY <1>1, <2>3, <2>7, PlacesSkip
<1>3. CASE End
  BY <1>1, <1>3, PlacesSkip DEF End
<1>4. CASE Word
  BY <1>4, WordFound, FoundPlaces
<1>5. CASE Number
  BY <1>5, NumberFound, FoundPlaces
<1>6. CASE Symbol
  BY <1>6, SymbolFound, FoundPlaces
<1>7. CASE UNCHANGED vars
  BY <1>7, PlacesSkip DEF vars
<1> QED
  BY <1>2, <1>3, <1>4, <1>5, <1>6, <1>7 DEF Next

(* from the beginning,                                                     *)
LEMMA PlacesInit == Init => PlacesInv
<1> SUFFICES ASSUME Init PROVE PlacesInv
  OBVIOUS
<1>1. source \in Seq(Char) /\ index = 0 /\ tokens = <<>>
  BY SourcesAssumption DEF Init
<1>2. Places = <<>>
  BY <1>1 DEF Places
<1>3. PlacesFrom(source)[0] \in Seq(Nat \X Nat)
  <2>1. 0 \in 0 .. Len(source)
    BY <1>1
  <2> QED
    BY <1>1, <2>1, PlacesType
<1> QED
  BY <1>1, <1>2, <1>3, ConcatEmptySeq DEF PlacesInv

(* and that is what LongestMatch asks for.                                 *)
LEMMA PlacesMatch == LexInv /\ PlacesInv => LongestMatch
<1> SUFFICES ASSUME LexInv, PlacesInv PROVE LongestMatch
  OBVIOUS
<1> DEFINE S == Nat \X Nat
           rest == PlacesFrom(source)[index]
           all  == PlacesFrom(source)[0]
<1>1. source \in Seq(Char) /\ Len(source) \in Nat /\ index \in 0 .. Len(source) /\ TypeOK
  BY DEF LexInv, TypeOK
<1>2. rest \in Seq(S) /\ Places \in Seq(S)
  BY <1>1, PlacesType, PlacesTyped
<1>3. all = Places \o rest
  BY DEF PlacesInv
<1>4. ASSUME answer = FALSE PROVE Places = all
  <2>1. rest = <<>>
    BY <1>1, <1>4, PlacesAt DEF LexInv, Final
  <2> HIDE DEF S, rest
  <2> QED
    BY <1>2, <1>3, <2>1, ConcatEmptySeq
<1>5. Places = SubSeq(all, 1, Len(Places))
  <2> HIDE DEF S, rest, all
  <2>1. /\ all \in Seq(S) /\ Len(all) = Len(Places) + Len(rest)
        /\ \A i \in 1 .. Len(Places) + Len(rest) :
             all[i] = IF i <= Len(Places) THEN Places[i] ELSE rest[i - Len(Places)]
    BY <1>2, <1>3, ConcatProperties
  <2>2. Len(Places) \in Nat /\ Len(rest) \in Nat
    BY <1>2, LenProperties
  <2>3. /\ SubSeq(all, 1, Len(Places)) \in Seq(S)
        /\ Len(SubSeq(all, 1, Len(Places))) = Len(Places)
        /\ \A i \in 1 .. Len(Places) : SubSeq(all, 1, Len(Places))[i] = all[i]
    BY <2>1, <2>2
  <2>4. \A i \in 1 .. Len(Places) : SubSeq(all, 1, Len(Places))[i] = Places[i]
    BY <2>1, <2>2, <2>3
  <2> QED
    BY <1>2, <2>3, <2>4
<1> HIDE DEF all
<1>6. IF answer THEN Places = SubSeq(all, 1, Len(Places)) ELSE Places = all
  BY <1>1, <1>4, <1>5 DEF TypeOK
<1> QED
  BY <1>6 DEF LongestMatch, Places, all

(* For every text, the tokens returned are its lexemes, each the longest   *)
(* at its place, without white space and comments, in their order: all of  *)
(* them once the end was met.                                              *)
THEOREM TokensAreLongest == Spec => []LongestMatch
<1>1. Init => LexInv /\ PlacesInv
  BY LexInit, PlacesInit
<1>2. LexInv /\ PlacesInv /\ [Next]_vars => (LexInv /\ PlacesInv)'
  BY LexStep, PlacesStep
<1>3. LexInv /\ PlacesInv => LongestMatch
  BY PlacesMatch
<1> QED
  BY <1>1, <1>2, <1>3, PTL DEF Spec

-----------------------------------------------------------------------------
(* Kinds.                                                                  *)

(* Keywords are of letters, at least two of them.                          *)
LEMMA KeywordIs ==
    ASSUME NEW w \in Keywords
    PROVE  /\ w \in Seq(Letter) /\ Len(w) \in 2 .. 5
           /\ w[1] \in Letter
<1>1. /\ "i" \in Letter /\ "f" \in Letter /\ "o" \in Letter /\ "r" \in Letter
      /\ "v" \in Letter /\ "a" \in Letter /\ "u" \in Letter /\ "n" \in Letter
      /\ "e" \in Letter /\ "t" \in Letter /\ "b" \in Letter /\ "j" \in Letter
      /\ "k" \in Letter /\ "x" \in Letter /\ "d" \in Letter /\ "l" \in Letter
      /\ "s" \in Letter /\ "w" \in Letter /\ "h" \in Letter
  BY DEF Letter
<1>2. w \in Seq(Letter) /\ Len(w) \in 2 .. 5
  <2>1. \A a, b \in Letter : <<a, b>> \in Seq(Letter) /\ Len(<<a, b>>) = 2
    OBVIOUS
  <2>2. \A a, b, c \in Letter : <<a, b, c>> \in Seq(Letter) /\ Len(<<a, b, c>>) = 3
    OBVIOUS
  <2>3. \A a, b, c, d \in Letter : <<a, b, c, d>> \in Seq(Letter) /\ Len(<<a, b, c, d>>) = 4
    OBVIOUS
  <2>4. \A a, b, c, d, e \in Letter :
          <<a, b, c, d, e>> \in Seq(Letter) /\ Len(<<a, b, c, d, e>>) = 5
    OBVIOUS
  <2>5. \/ \E a, b \in Letter : w = <<a, b>>
        \/ \E a, b, c \in Letter : w = <<a, b, c>>
        \/ \E a, b, c, d \in Letter : w = <<a, b, c, d>>
        \/ \E a, b, c, d, e \in Letter : w = <<a, b, c, d, e>>
    BY <1>1, Zenon DEF Keywords
  <2>6. w \in Seq(Letter) /\ (Len(w) = 2 \/ Len(w) = 3 \/ Len(w) = 4 \/ Len(w) = 5)
    <3>1. CASE \E a, b \in Letter : w = <<a, b>>
      BY <2>1, <3>1
    <3>2. CASE \E a, b, c \in Letter : w = <<a, b, c>>
      BY <2>2, <3>2
    <3>3. CASE \E a, b, c, d \in Letter : w = <<a, b, c, d>>
      BY <2>3, <3>3
    <3>4. CASE \E a, b, c, d, e \in Letter : w = <<a, b, c, d, e>>
      BY <2>4, <3>4
    <3> QED
      BY <2>5, <3>1, <3>2, <3>3, <3>4
  <2> QED
    BY <2>6
<1> QED
  BY <1>2, ElementOfSeq

(* The kind of a name,                                                     *)
LEMMA KindOfWord ==
    ASSUME NEW w, IsName(w), 1 \in DOMAIN w
    PROVE  KindOf(w) = IF w \in Keywords THEN w ELSE Name
<1>1. w[1] \in Letter \cup {"_"}
  BY DEF IsName
<1>2. w[1] \notin Digit /\ w[1] \notin Operator /\ w[1] # EofByte /\ w[1] # "other"
  BY <1>1, Classes, Zenon
<1>3. w \notin Double
  <2>1. \A d \in Double : d[1] \in Operator
    <3> TAKE d \in Double
    <3>1. PICK c, e : d = <<c, e>>
      BY DEF Double
    <3>2. c \in Operator
      BY <3>1, Classes, Zenon
    <3> QED
      BY <3>1, <3>2
  <2> QED
    BY <1>2, <2>1
<1>4. ~ IsInteger(w)
  BY <1>2 DEF IsInteger, AllIn
<1>5. ~ IsFloat(w)
  <2>1. \A dot \in 2 .. Len(w) - 1 : dot # 1
    OBVIOUS
  <2> QED
    BY <1>2, <2>1 DEF IsFloat
<1> QED
  BY <1>2, <1>3, <1>4, <1>5 DEF KindOf

(* of a lexeme that begins with a digit,                                   *)
LEMMA KindOfNumber ==
    ASSUME NEW w \in Seq(Char), w[1] \in Digit
    PROVE  /\ IsInteger(w) => KindOf(w) = Integer
           /\ IsFloat(w) => KindOf(w) = Float
<1>1. w \notin Keywords
  <2>1. w[1] \notin Letter
    BY Classes, Zenon
  <2> QED
    BY <2>1, KeywordIs
<1>2. w \notin Double
  <2> SUFFICES ASSUME w \in Double PROVE FALSE
    OBVIOUS
  <2>1. PICK c, e : w = <<c, e>>
    BY DEF Double
  <2>2. c \in Operator
    BY <2>1, Classes, Zenon
  <2>3. w[1] = c
    BY <2>1
  <2> QED
    BY <2>2, <2>3, Classes
<1>3. w[1] \notin Operator /\ w[1] # EofByte /\ w[1] # "other"
  BY Classes, Zenon
<1>4. IsInteger(w) => ~ IsFloat(w)
  <2> SUFFICES ASSUME IsInteger(w), IsFloat(w) PROVE FALSE
    OBVIOUS
  <2>1. PICK dot \in 2 .. Len(w) - 1 :
          \A k \in DOMAIN w : IF k = dot THEN w[k] = "." ELSE w[k] \in Digit
    BY DEF IsFloat
  <2>2. dot \in DOMAIN w
    OBVIOUS
  <2>3. "." \notin Digit
    BY Classes DEF Ident
  <2> QED
    BY <2>1, <2>2, <2>3 DEF IsInteger, AllIn
<1> QED
  BY <1>1, <1>2, <1>3, <1>4 DEF KindOf

(* and of one that begins with an operator or is none of them.             *)
LEMMA KindOfSymbol ==
    /\ \A w \in Double : w[1] \in Operator => KindOf(w) = w
    /\ \A c \in Operator \cup {EofByte, "other"} :
         KindOf(<<c>>) = IF c \in Operator THEN <<c>> ELSE IF c = EofByte THEN Eof ELSE Error
<1>1. \A w : w[1] \notin Letter => w \notin Keywords
  BY KeywordIs
<1>2. \A c \in Operator \cup {EofByte, "other"} : c \notin Letter \cup {"_"} /\ c \notin Digit
  BY Classes, Zenon DEF Ident
<1>3. ASSUME NEW c \in Operator \cup {EofByte, "other"}, NEW w, 1 \in DOMAIN w, w[1] = c
      PROVE  /\ w \notin Keywords /\ ~ IsInteger(w) /\ ~ IsFloat(w)
  <2>1. w \notin Keywords
    BY <1>1, <1>2, <1>3
  <2>2. ~ IsInteger(w)
    BY <1>2, <1>3 DEF IsInteger, AllIn
  <2>3. ~ IsFloat(w)
    <3>1. \A dot \in 2 .. Len(w) - 1 : dot # 1
      OBVIOUS
    <3> QED
      BY <1>2, <1>3, <3>1 DEF IsFloat
  <2> QED
    BY <2>1, <2>2, <2>3
<1>4. ASSUME NEW w \in Double, w[1] \in Operator PROVE KindOf(w) = w
  <2>1. 1 \in DOMAIN w
    BY DEF Double
  <2>2. w \notin Keywords /\ ~ IsInteger(w) /\ ~ IsFloat(w)
    BY <1>3, <1>4, <2>1
  <2>3. w[1] # EofByte /\ w[1] # "other"
    BY <1>4, Classes
  <2> QED
    BY <1>4, <2>2, <2>3 DEF KindOf
<1>5. ASSUME NEW c \in Operator \cup {EofByte, "other"}
      PROVE  KindOf(<<c>>) = IF c \in Operator THEN <<c>>
                             ELSE IF c = EofByte THEN Eof ELSE Error
  <2> DEFINE w == <<c>>
  <2>1. 1 \in DOMAIN w /\ w[1] = c /\ Len(w) = 1
    OBVIOUS
  <2>2. w \notin Double
    <3>1. \A d \in Double : Len(d) = 2
      BY DEF Double
    <3> QED
      BY <2>1, <3>1
  <2> HIDE DEF w
  <2>3. w \notin Keywords /\ ~ IsInteger(w) /\ ~ IsFloat(w)
    BY <1>3, <2>1
  <2>4. /\ c \in Operator => c # EofByte /\ c # "other"
        /\ EofByte # "other"
    BY Classes DEF EofByte
  <2>5. KindOf(w) = IF c \in Operator THEN w ELSE IF c = EofByte THEN Eof ELSE Error
    BY <1>5, <2>1, <2>2, <2>3, <2>4 DEF KindOf
  <2> QED
    BY <2>5 DEF w
<1> QED
  BY <1>4, <1>5

(* A token has the kind of its text, or is one of the two mistakes.        *)
Right(t) == Mistaken(t) \/ t.kind = KindOf(Spelling(t))

(* A call that returns such a token.                                       *)
FoundRight == \E kind, end : Found(kind, end) /\ Right(Token(kind, Start, end))

(* A word has the kind of its text, or begins with a keyword,              *)
LEMMA WordRight == LexInv /\ Word => FoundRight
<1> SUFFICES ASSUME LexInv, Word 
             PROVE  Right(Token(WordKind(Start), Start, RunEnd(Start, Ident)))
  BY WordFound DEF FoundRight
<1> DEFINE end == RunEnd(Start, Ident)
           w   == Text(source, Start, end)
           t   == Token(WordKind(Start), Start, end)
<1>1. /\ t.kind = WordKind(Start) /\ Spelling(t) = w
  BY DEF Token, Spelling
<1>2. /\ At(Start) \in Ident \ Digit /\ Start \in 0 .. Len(source) - 1
  BY WordFound DEF Found
<1>3. source \in Seq(Char) /\ Len(source) \in Nat /\ Start \in Nat /\ Start \in 0 .. Len(source)
  BY <1>2, StartIs
<1>4. end \in Start + 1 .. Len(source) /\ IsName(w)
  BY <1>2, <1>3, LongWord
<1>5. At(end) \notin Ident
  BY <1>3, RunIs, Alphabets
<1>6. /\ w \in Seq(Char) /\ Len(w) = end - Start /\ DOMAIN w = 1 .. end - Start
      /\ \A k \in 1 .. end - Start : w[k] = At(Start + k - 1)
  BY <1>3, <1>4, TextIs
<1> HIDE DEF end, w, t
<1>7. KindOf(w) = IF w \in Keywords THEN w ELSE Name
  <2>1. 1 \in DOMAIN w
    BY <1>3, <1>4, <1>6
  <2> QED
    BY <1>4, <2>1, KindOfWord
<1>8. ASSUME \E word \in Keywords : HasPrefix(Start, word) PROVE Right(t)
  <2> DEFINE word == WordKind(Start)
  <2>1. word \in Keywords /\ HasPrefix(Start, word)
    BY <1>8 DEF WordKind
  <2> HIDE DEF word
  <2>2. /\ word \in Seq(Letter) /\ Len(word) \in 2 .. 5
        /\ \A k \in 1 .. Len(word) : word[k] \in Letter
    BY <2>1, KeywordIs, ElementOfSeq
  <2>3. \A k \in 1 .. Len(word) : At(Start + k - 1) = word[k]
    BY <2>1 DEF HasPrefix
  <2>4. ~ (end - Start < Len(word))
    <3> SUFFICES ASSUME end - Start < Len(word) PROVE FALSE
      OBVIOUS
    <3>1. end - Start + 1 \in 1 .. Len(word) /\ Start + (end - Start + 1) - 1 = end
      BY <1>3, <1>4, <2>2
    <3>2. At(end) \in Letter
      BY <2>2, <2>3, <3>1
    <3> QED
      BY <1>5, <3>2 DEF Ident
  <2>5. \A k \in 1 .. Len(word) : w[k] = word[k]
    <3>1. \A k \in 1 .. Len(word) : k \in 1 .. end - Start
      BY <1>3, <1>4, <2>2, <2>4
    <3> QED
      BY <1>6, <2>3, <3>1
  <2>6. CASE Len(w) = Len(word)
    <3>1. w = word
      BY <1>6, <2>2, <2>5, <2>6
    <3> QED
      BY <1>1, <1>7, <2>1, <3>1, Zenon DEF Right, word
  <2>7. CASE Len(w) # Len(word)
    <3>1. Len(word) \in 1 .. Len(w) - 1
      <4>1. end - Start \in Nat /\ Len(w) = end - Start /\ Len(word) \in 2 .. 5
        BY <1>3, <1>4, <1>6, <2>2
      <4> QED
        <5> DEFINE x == end - Start
                   y == Len(word)
        <5>1. x \in Nat /\ y \in 2 .. 5 /\ ~(x < y) /\ x # y /\ Len(w) = x
          BY <2>4, <2>7, <4>1
        <5> HIDE DEF x, y
        <5>2. y \in 1 .. x - 1
          BY <5>1
        <5> QED
          BY <5>1, <5>2 DEF y
    <3>2. /\ SubSeq(w, 1, Len(word)) \in Seq(Char)
          /\ Len(SubSeq(w, 1, Len(word))) = Len(word)
          /\ \A k \in 1 .. Len(word) : SubSeq(w, 1, Len(word))[k] = w[k]
      BY <1>6, <3>1
    <3>3. SubSeq(w, 1, Len(word)) = word
      BY <2>2, <2>5, <3>2
    <3> QED
      BY <1>1, <2>1, <3>1, <3>3, Zenon DEF Right, Mistaken, BeginsLikeKeyword
  <2> QED
    BY <2>6, <2>7
<1>9. ASSUME ~ \E word \in Keywords : HasPrefix(Start, word) PROVE Right(t)
  <2>1. WordKind(Start) = Name
    BY <1>9 DEF WordKind
  <2>2. w \notin Keywords
    <3> SUFFICES ASSUME w \in Keywords PROVE FALSE
      OBVIOUS
    <3>1. HasPrefix(Start, w)
      BY <1>6 DEF HasPrefix
    <3> QED
      BY <1>9, <3>1
  <2> QED
    BY <1>1, <1>7, <2>1, <2>2, Zenon DEF Right
<1>10. Right(t)
  BY <1>8, <1>9, Zenon
<1> QED
  BY <1>10 DEF t, end

(* a number has it, or stands before a dot,                                *)
LEMMA NumberRight == LexInv /\ Number => FoundRight
<1> SUFFICES ASSUME LexInv, Number PROVE FoundRight
  OBVIOUS
<1>1. PICK dot, end \in Nat :
        /\ At(Start) \in Digit
        /\ dot = RunEnd(Start, Digit)
        /\ Found(IF At(dot) = "." THEN Float ELSE Integer, end)
        /\ end = dot => IsInteger(Text(source, Start, end))
        /\ end # dot => IsFloat(Text(source, Start, end)) /\ At(dot) = "."
  BY NumberFound
<1> DEFINE kind == IF At(dot) = "." THEN Float ELSE Integer
           w    == Text(source, Start, end)
           t    == Token(kind, Start, end)
<1>2. /\ Start \in 0 .. Len(source) - 1 /\ Longest(source, Start) = end
  BY <1>1 DEF Found
<1>3. source \in Seq(Char) /\ Len(source) \in Nat /\ Start \in Nat
  BY <1>2, StartIs
<1>4. end \in Start + 1 .. Len(source)
  BY <1>2, <1>3, LongestInside
<1>5. w \in Seq(Char) /\ w[1] \in Digit
  BY <1>1, <1>3, <1>4, TextIs, TextFirst
<1>6. t.kind = kind /\ t.end = end /\ Spelling(t) = w
  BY DEF Token, Spelling
<1>7. /\ end = dot => IsInteger(w)
      /\ end # dot => IsFloat(w) /\ At(dot) = "."
  BY <1>1
<1> HIDE DEF w, t
<1>8. /\ IsInteger(w) => KindOf(w) = Integer
      /\ IsFloat(w) => KindOf(w) = Float
  BY <1>5, KindOfNumber
<1>9. ASSUME end = dot, At(dot) = "." PROVE Right(t)
  BY <1>6, <1>7, <1>9, Zenon DEF Right, Mistaken
<1>10. ASSUME end = dot, At(dot) # "." PROVE Right(t)
  BY <1>6, <1>7, <1>8, <1>10, Zenon DEF Right
<1>11. ASSUME end # dot PROVE Right(t)
  BY <1>6, <1>7, <1>8, <1>11, Zenon DEF Right
<1>12. Right(t)
  BY <1>9, <1>10, <1>11, Zenon
<1> QED
  BY <1>1, <1>12 DEF FoundRight, t

(* and anything else has it.                                               *)
LEMMA SymbolRight == LexInv /\ Symbol => FoundRight
<1> SUFFICES ASSUME LexInv, Symbol PROVE FoundRight
  OBVIOUS
<1>1. CASE \E c, d : /\ <<c, d>> \in Double
                     /\ Found(<<c, d>>, Start + 2)
                     /\ Text(source, Start, Start + 2) = <<c, d>>
  <2>1. PICK c, d : /\ <<c, d>> \in Double
                    /\ Found(<<c, d>>, Start + 2)
                    /\ Text(source, Start, Start + 2) = <<c, d>>
    BY <1>1
  <2> DEFINE t == Token(<<c, d>>, Start, Start + 2)
  <2>2. t.kind = <<c, d>> /\ Spelling(t) = <<c, d>>
    BY <2>1 DEF Token, Spelling
  <2>3. c \in Operator /\ <<c, d>>[1] = c
    BY <2>1, Classes, Zenon
  <2>4. KindOf(<<c, d>>) = <<c, d>>
    BY <2>1, <2>3, KindOfSymbol
  <2>5. Right(t)
    BY <2>2, <2>4, Zenon DEF Right
  <2> QED
    BY <2>1, <2>5, Zenon DEF FoundRight
<1>2. CASE \E c : /\ c \in Operator \cup {EofByte, "other"}
                  /\ Found(IF c \in Operator THEN <<c>>
                           ELSE IF c = EofByte THEN Eof ELSE Error, Start + 1)
                  /\ Text(source, Start, Start + 1) = <<c>>
  <2>1. PICK c \in Operator \cup {EofByte, "other"} :
          /\ Found(IF c \in Operator THEN <<c>>
                   ELSE IF c = EofByte THEN Eof ELSE Error, Start + 1)
          /\ Text(source, Start, Start + 1) = <<c>>
    BY <1>2
  <2> DEFINE kind == IF c \in Operator THEN <<c>> ELSE IF c = EofByte THEN Eof ELSE Error
             t    == Token(kind, Start, Start + 1)
  <2>2. t.kind = kind /\ Spelling(t) = <<c>>
    BY <2>1 DEF Token, Spelling
  <2>3. KindOf(<<c>>) = kind
    BY KindOfSymbol, Zenon
  <2>4. Found(kind, Start + 1)
    BY <2>1
  <2> HIDE DEF kind
  <2>5. Right(t)
    BY <2>2, <2>3, Zenon DEF Right
  <2> QED
    BY <2>4, <2>5, Zenon DEF FoundRight
<1> QED
  BY <1>1, <1>2, SymbolFound

(* The tokens of before stay as they are, and as right as they were.       *)
LEMMA KindsReturn ==
    ASSUME LexInv, KindsRight, FoundRight
    PROVE  KindsRight'
<1>1. PICK kind, end : Found(kind, end) /\ Right(Token(kind, Start, end))
  BY DEF FoundRight
<1> DEFINE t == Token(kind, Start, end)
<1>2. /\ tokens' = Append(tokens, t) /\ source' = source
      /\ kind \in Kind /\ Start \in 0 .. Len(source) - 1 /\ Longest(source, Start) = end
  BY <1>1 DEF Found, Return
<1>3. /\ source \in Seq(Char) /\ Len(source) \in Nat
      /\ tokens \in Seq([kind : Kind, start : Nat, end : Nat])
  BY StartIs DEF LexInv, TypeOK
<1>4. t \in [kind : Kind, start : Nat, end : Nat]
  <2>1. end \in Start + 1 .. Len(source)
    BY <1>2, <1>3, LongestInside
  <2>2. end \in Nat /\ Start \in Nat
    BY <1>2, <1>3, <2>1
  <2> QED
    BY <1>2, <2>2 DEF Token
<1> HIDE DEF t
<1>5. /\ DOMAIN tokens' = 1 .. Len(tokens) + 1 /\ DOMAIN tokens = 1 .. Len(tokens)
      /\ Len(tokens) \in Nat
      /\ tokens'[Len(tokens) + 1] = t
      /\ \A i \in 1 .. Len(tokens) : tokens'[i] = tokens[i]
  BY <1>2, <1>3, <1>4, AppendProperties
<1>6. \A i \in DOMAIN tokens : Right(tokens[i])
  BY DEF KindsRight, Right
<1>7. \A i \in DOMAIN tokens' : Right(tokens'[i])
  BY <1>1, <1>5, <1>6 DEF t
<1>8. source' = source
  BY <1>2
<1> QED
  BY <1>7, <1>8 DEF KindsRight, Right, Mistaken, Spelling, At

(* Every step keeps the tokens right.                                      *)
LEMMA KindsStep == LexInv /\ KindsRight /\ [Next]_vars => KindsRight'
<1> SUFFICES ASSUME LexInv, KindsRight, [Next]_vars PROVE KindsRight'
  OBVIOUS
<1>1. ASSUME tokens' = tokens, source' = source PROVE KindsRight'
  BY <1>1 DEF KindsRight, Mistaken, Spelling, At
<1>2. CASE SkipComment
  BY <1>1, <1>2 DEF SkipComment
<1>3. CASE End
  BY <1>1, <1>3 DEF End
<1>4. CASE Word
  BY <1>4, WordRight, KindsReturn
<1>5. CASE Number
  BY <1>5, NumberRight, KindsReturn
<1>6. CASE Symbol
  BY <1>6, SymbolRight, KindsReturn
<1>7. CASE UNCHANGED vars
  BY <1>1, <1>7 DEF vars
<1> QED
  BY <1>2, <1>3, <1>4, <1>5, <1>6, <1>7 DEF Next

(* For every text, each token but an identifier that begins like a keyword *)
(* and an integer before a dot has the kind of what it is cut out of.      *)
THEOREM KindsAreRight == Spec => []KindsRight
<1>1. Init => LexInv /\ KindsRight
  <2>1. Init => KindsRight
    BY DEF Init, KindsRight
  <2> QED
    BY <2>1, LexInit
<1>2. LexInv /\ KindsRight /\ [Next]_vars => (LexInv /\ KindsRight)'
  BY LexStep, KindsStep
<1> QED
  BY <1>1, <1>2, PTL DEF Spec
=============================================================================
