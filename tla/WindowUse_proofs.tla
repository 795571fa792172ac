--------------------------- MODULE WindowUse_proofs ---------------------------
(***************************************************************************)
(* The window of the parser is a stream, for every source, every length of *)
(* the window and every width of its indices.                              *)
(***************************************************************************)
EXTENDS WindowUse, TLAPS

IInv == TypeOK /\ OneToken

(* The empty window is consistent.                                         *)
LEMMA WindowInit == Init => IInv
  BY WindowAssumption, SourceAssumption
  DEF Init, IInv, TypeOK, OneToken, EmptyWindow, Null, Unread, Window, Slots

(* What is below the range of size_t does not wrap.                        *)
LEMMA NoWrap ==
    ASSUME NEW x \in Nat, NEW m \in Nat, x < m
    PROVE  x % m = x
  OBVIOUS

(* What peek does to a consistent window.                                  *)
LEMMA PeekedWindow ==
    ASSUME IInv
    PROVE  LET p == Peeked(window, SourceLength)
           IN  /\ p \in Window
               /\ p.start = window.start
               /\ p.end \in {p.start, p.start + 1}
               /\ p.read \in 0 .. SourceLength
               /\ p.start < p.end => p.slots[p.start] = p.read
               /\ p.read - (p.end - p.start) = window.read - (window.end - window.start)
               /\ HasToken(window, SourceLength) => p.start < p.end
<1> DEFINE p == Peeked(window, SourceLength)
<1>1. /\ window \in Window
      /\ window.start \in 0 .. WindowLength - 1
      /\ window.end \in {window.start, window.start + 1}
      /\ window.read \in 0 .. SourceLength
      /\ window.start < window.end => window.slots[window.start] = window.read
  BY DEF IInv, TypeOK, OneToken
<1>2. CASE window.start < window.end \/ window.read >= SourceLength
  <2>1. p = window
    BY <1>2 DEF Peeked
  <2> QED
    BY <1>1, <1>2, <2>1, SourceAssumption DEF HasToken
<1>3. CASE ~(window.start < window.end \/ window.read >= SourceLength)
  <2>1. window.end = window.start /\ window.read + 1 \in 1 .. SourceLength
    BY <1>1, <1>3, SourceAssumption
  <2>2. (window.end + 1) % SizeRange = window.start + 1
    <3>1. window.start + 1 \in Nat /\ SizeRange \in Nat /\ window.start + 1 < SizeRange
      BY <1>1, WindowAssumption
    <3> QED
      BY <2>1, <3>1, NoWrap
  <2>3. p = [window EXCEPT !.slots[window.start] = window.read + 1,
                           !.end = window.start + 1,
                           !.read = window.read + 1]
    BY <1>3, <2>2 DEF Peeked
  <2>4. /\ p.slots = [window.slots EXCEPT ![window.start] = window.read + 1]
        /\ p.start = window.start /\ p.end = window.start + 1
        /\ p.read = window.read + 1
        /\ p = [slots |-> p.slots, start |-> p.start, end |-> p.end, read |-> p.read]
    BY <1>1, <2>3 DEF Window
  <2>5. p.slots \in Slots
        /\ p.slots[window.start] = window.read + 1
    <3>1. window.slots \in Slots
      BY <1>1 DEF Window
    <3>2. window.read + 1 \in -1 .. SourceLength
      BY <2>1
    <3> QED
      BY <1>1, <2>4, <3>1, <3>2 DEF Slots
  <2> HIDE DEF p
  <2>6. p \in Window
    <3>1. p.start \in Nat /\ p.end \in Nat /\ p.read \in Nat
      BY <1>1, <2>1, <2>4
    <3> QED
      BY <2>4, <2>5, <3>1 DEF Window
  <2>7. p.read - (p.end - p.start) = window.read - (window.end - window.start)
    BY <1>1, <2>1, <2>4
  <2> QED
    <3>1. p.end \in {p.start, p.start + 1} /\ p.read \in 0 .. SourceLength
          /\ p.start < p.end /\ p.slots[p.start] = p.read
      BY <1>1, <2>1, <2>4, <2>5
    <3> QED
      BY <2>4, <2>6, <2>7, <3>1 DEF p
<1> QED
  BY <1>2, <1>3

(* What consume does to a consistent window with a token.                  *)
LEMMA ConsumedWindow ==
    ASSUME IInv, HasToken(window, SourceLength)
    PROVE  LET c == Consumed(window, SourceLength)
           IN  /\ c \in Window
               /\ c.start \in 0 .. WindowLength - 1
               /\ c.end = c.start
               /\ c.read \in 0 .. SourceLength
               /\ c.read - (c.end - c.start) = window.read - (window.end - window.start) + 1
<1> DEFINE p == Peeked(window, SourceLength)
           c == Consumed(window, SourceLength)
<1>1. /\ p \in Window
      /\ p.start \in 0 .. WindowLength - 1
      /\ p.end = p.start + 1
      /\ p.read \in 0 .. SourceLength
      /\ p.read - (p.end - p.start) = window.read - (window.end - window.start)
      /\ WindowLength \in Nat /\ SizeRange \in Nat /\ SizeRange > 0
      /\ window.read \in Nat /\ window.end \in Nat /\ window.start \in Nat
  <2>1. /\ window \in Window /\ window.start \in 0 .. WindowLength - 1
        /\ window.end \in Nat /\ window.start \in Nat /\ window.read \in Nat
    BY DEF IInv, TypeOK, OneToken, Window
  <2>2. /\ p \in Window /\ p.start = window.start /\ p.end \in {p.start, p.start + 1}
        /\ p.read \in 0 .. SourceLength /\ p.start < p.end
        /\ p.read - (p.end - p.start) = window.read - (window.end - window.start)
    BY PeekedWindow
  <2> HIDE DEF p
  <2>3. p.end = p.start + 1
    BY <2>1, <2>2
  <2> QED
    BY <2>1, <2>2, <2>3, WindowAssumption
<1>2. c = IF p.start + 1 = WindowLength
          THEN [p EXCEPT !.start = 0, !.end = (p.end - WindowLength) % SizeRange]
          ELSE [p EXCEPT !.start = p.start + 1]
  BY DEF Consumed
<1> HIDE DEF p, c
<1>3. CASE p.start + 1 = WindowLength
  <2>1. (p.end - WindowLength) % SizeRange = 0
    BY <1>1, <1>3
  <2>2. c = [p EXCEPT !.start = 0, !.end = 0]
    BY <1>2, <1>3, <2>1
  <2>3. c \in Window /\ c.start = 0 /\ c.end = 0 /\ c.read = p.read
    BY <1>1, <2>2 DEF Window
  <2>4. p.read = window.read - (window.end - window.start) + 1
    BY <1>1
  <2> QED
    BY <1>1, <2>3, <2>4 DEF c
<1>4. CASE p.start + 1 # WindowLength
  <2>1. c = [p EXCEPT !.start = p.start + 1]
    BY <1>2, <1>4
  <2>2. /\ c \in Window /\ c.start = p.start + 1 /\ c.end = p.end
        /\ c.read = p.read
    BY <1>1, <2>1 DEF Window
  <2>3. c.start \in 0 .. WindowLength - 1 /\ c.end = c.start
    BY <1>1, <1>4, <2>2
  <2>4. p.read = window.read - (window.end - window.start) + 1
    BY <1>1
  <2> QED
    BY <1>1, <2>2, <2>3, <2>4 DEF c
<1> QED
  BY <1>3, <1>4

(* peek and consume return the next position, or none at the end.          *)
LEMMA NextToken ==
    ASSUME IInv
    PROVE  /\ TokenAt(window, SourceLength) = Stream!Answer
           /\ Stream!Answer \in 0 .. SourceLength
           /\ HasToken(window, SourceLength) => NextPosition <= SourceLength
<1> DEFINE p == Peeked(window, SourceLength)
<1>1. /\ p.start < p.end => p.slots[p.start] = p.read
      /\ p.start = window.start
      /\ p.end \in {p.start, p.start + 1}
      /\ p.read \in 0 .. SourceLength
      /\ p.read - (p.end - p.start) = window.read - (window.end - window.start)
      /\ HasToken(window, SourceLength) => p.start < p.end
  BY PeekedWindow
<1>2. /\ window.start \in Nat /\ window.end \in {window.start, window.start + 1}
      /\ window.read \in 0 .. SourceLength /\ SourceLength \in Nat
  BY SourceAssumption DEF IInv, TypeOK, OneToken
<1>3. TokenAt(window, SourceLength)
      = IF HasToken(window, SourceLength) THEN p.slots[p.start] ELSE 0
  BY <1>1 DEF TokenAt, Null
<1> HIDE DEF p
<1>4. CASE HasToken(window, SourceLength)
  <2>1. p.end - p.start = 1 /\ p.slots[p.start] = p.read
    BY <1>1, <1>2, <1>4
  <2>2. NextPosition = p.read
    BY <1>1, <1>2, <2>1 DEF NextPosition
  <2> QED
    BY <1>1, <1>2, <1>3, <1>4, <2>1, <2>2 DEF Stream!Answer
<1>5. CASE ~HasToken(window, SourceLength)
  <2>1. window.end = window.start /\ window.read = SourceLength
    BY <1>2, <1>5 DEF HasToken
  <2>2. NextPosition = SourceLength + 1
    BY <1>2, <2>1 DEF NextPosition
  <2> QED
    BY <1>2, <1>3, <1>5, <2>2 DEF Stream!Answer
<1> QED
  BY <1>4, <1>5

(* The window stays consistent.                                            *)
LEMMA WindowStep == IInv /\ [Next]_vars => IInv'
<1> SUFFICES ASSUME IInv, [Next]_vars PROVE IInv'
  OBVIOUS
<1>1. CASE Peek
  <2>1. window' = Peeked(window, SourceLength) /\ answer' \in 0 .. SourceLength
    BY <1>1, NextToken DEF Peek
  <2>2. window.start \in 0 .. WindowLength - 1
    BY DEF IInv, OneToken
  <2> QED
    BY <2>1, <2>2, PeekedWindow DEF IInv, TypeOK, OneToken
<1>2. CASE Consume
  <2>1. window' = Consumed(window, SourceLength) /\ answer' \in 0 .. SourceLength
    BY <1>2, NextToken DEF Consume
  <2>2. HasToken(window, SourceLength)
    BY <1>2 DEF Consume
  <2> DEFINE c == Consumed(window, SourceLength)
  <2>3. /\ c \in Window
        /\ c.start \in 0 .. WindowLength - 1
        /\ c.end = c.start
        /\ c.read \in 0 .. SourceLength
    BY <2>2, ConsumedWindow
  <2> HIDE DEF c
  <2>4. window' = c
    BY <2>1 DEF c
  <2> QED
    BY <2>1, <2>3, <2>4 DEF IInv, TypeOK, OneToken
<1>3. CASE UNCHANGED vars
  BY <1>3 DEF vars, IInv, TypeOK, OneToken
<1> QED
  BY <1>1, <1>2, <1>3 DEF Next

(* Every call of peek or consume is one of the stream, or changes nothing. *)
LEMMA StreamStep ==
    IInv /\ [Next]_vars => [Stream!Next]_<<NextPosition, answer>>
<1> SUFFICES ASSUME IInv, [Next]_vars
             PROVE  [Stream!Next]_<<NextPosition, answer>>
  OBVIOUS
<1>1. CASE Peek
  <2>1. answer' = Stream!Answer /\ window' = Peeked(window, SourceLength)
    BY <1>1, NextToken DEF Peek
  <2>2. NextPosition' = NextPosition
    <3>1. LET p == Peeked(window, SourceLength)
          IN  p.read - (p.end - p.start) = window.read - (window.end - window.start)
      BY PeekedWindow
    <3> QED
      BY <2>1, <3>1 DEF NextPosition
  <2> QED
    BY <2>1, <2>2 DEF Stream!Next, Stream!Peek
<1>2. CASE Consume
  <2>1. /\ answer' = Stream!Answer /\ window' = Consumed(window, SourceLength)
        /\ HasToken(window, SourceLength) /\ NextPosition <= SourceLength
    BY <1>2, NextToken DEF Consume
  <2>2. NextPosition' = NextPosition + 1
    <3>1. LET c == Consumed(window, SourceLength)
          IN  c.read - (c.end - c.start) = window.read - (window.end - window.start) + 1
      BY <2>1, ConsumedWindow
    <3> QED
      BY <2>1, <3>1 DEF NextPosition
  <2> QED
    BY <2>1, <2>2 DEF Stream!Next, Stream!Consume
<1>3. CASE UNCHANGED vars
  BY <1>3 DEF vars, NextPosition
<1> QED
  BY <1>1, <1>2, <1>3 DEF Next

(* For every source and every window: at most one token waits in it, the   *)
(* last one read, and its indices do not wrap below zero.                  *)
THEOREM WindowConsistent == Spec => [](TypeOK /\ OneToken)
<1>1. Init => IInv
  BY WindowInit
<1>2. IInv /\ [Next]_vars => IInv'
  BY WindowStep
<1>3. IInv => TypeOK /\ OneToken
  BY DEF IInv
<1> QED
  BY <1>1, <1>2, <1>3, PTL DEF Spec

(* For every source and every window: while nobody consumes at the end,    *)
(* peek and consume of parser.c read the tokens of the source in order.    *)
THEOREM WindowIsStream == Spec => ImplementsStream
<1>1. Init => Stream!Init
  BY DEF Init, Stream!Init, EmptyWindow, NextPosition, Null
<1>2. Init => IInv
  BY WindowInit
<1>3. IInv /\ [Next]_vars => IInv'
  BY WindowStep
<1>4. IInv /\ [Next]_vars => [Stream!Next]_<<NextPosition, answer>>
  BY StreamStep
<1> QED
  BY <1>1, <1>2, <1>3, <1>4, PTL DEF Spec, ImplementsStream, Stream!Spec

=============================================================================
