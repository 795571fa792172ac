---------------------------- MODULE Parser_proofs ----------------------------
(***************************************************************************)
(* Theorems about Parser, for every source, every ring and every bound:    *)
(* its types, the scope, the window and the loop of statements, and the    *)
(* levels of infix operators.                                              *)
(***************************************************************************)
EXTENDS Parser, SequenceTheorems, TLAPS

-----------------------------------------------------------------------------
(* The inductive invariant.                                                *)

(* A call that begins, one that waits for a call above it, and the list of *)
(* statements.                                                             *)
DeclLabels == {"var", "fun", "obj"}
Keywords   == DeclLabels \cup {"brace", "if", "while", "brk", "nxt", "ret"}
Begins     == Keywords \cup {"stmt", "infix", "prefix", "primary"}
Waiting    == {"stmt_done", "expr_stmt", "complete", "then", "else", "body", "lhs", "rhs",
               "operand", "paren", "postfix", "arg", "run"}
ListLabels == {"stmts", "stmt_done", "recover"}

(* What the list of a call holds.                                          *)
NodeLists  == ListLabels \cup {"complete", "args", "item", "arg", "else", "operators",
                               "gather", "run"}
TokenLists == {"params", "param", "operand"}
Owners     == {"complete", "params", "param", "then", "else", "body"}

CallType == [at : Labels, node : Nat, level : 1 .. Shift, list : Seq(Int), from : Int]

CallOK(in, c, ns) ==
    /\ c \in CallType
    /\ c.node # 0 => c.node \in 1 .. Len(ns) /\ ns[c.node].kind # "binary"
    /\ c.at \in Owners => c.node # 0
    /\ c.at \in NodeLists => c.list \in Seq(1 .. Len(ns))
    /\ c.at \in TokenLists => c.list \in Seq(0 .. Len(in))
    /\ c.at \in {"operators", "operand"} => Len(c.list) = 1
    /\ c.at = "rhs" => /\ Len(c.list) = 2
                       /\ c.list[1] \in 1 .. Len(ns)
                       /\ c.list[2] \in 1 .. Len(in)
                       /\ IsInfix(in[c.list[2]].kind, c.level)

WindowType ==
    [slots : [0 .. WindowLength - 1 -> {Unread} \cup 1 .. n], start : 0 .. WindowLength - 1,
     end : 0 .. SizeRange - 1, read : 0 .. n]

NodeKinds == {"error", "var", "fun", "obj", "unary", "binary", "literal", "name", "paren",
              "member", "apply", "brace", "expr_stmt", "if", "while", "brk", "nxt", "ret",
              "top"}

NodeType(m) ==
    [kind : NodeKinds, toks : Seq(0 .. n), kids : Seq(1 .. m), decls : Seq(1 .. m),
     outer : 0 .. m]

CallsOK ==
    /\ calls \in Seq(CallType)
    /\ \A i \in DOMAIN calls :
         /\ CallOK(input, calls[i], nodes)
         /\ i > 1 => calls[i].at \in Waiting
         /\ calls[i].at \in ListLabels /\ calls[i].node = 0 => i = Len(calls)
    /\ calls # <<>> /\ This.at = "gather" => Len(calls) = 2 /\ calls[2].at = "run"

Typed ==
    /\ input \in Seq(Token)
    /\ window \in WindowType
    /\ nodes \in Seq(NodeType(Len(nodes)))
    /\ CallsOK
    /\ ret \in 0 .. Len(nodes)
    /\ calls # <<>> /\ This.at \in Waiting => ret # 0
    /\ scope \in 0 .. Len(nodes)
    /\ reported \in BOOLEAN
    /\ outcome \in {"run", "done", "abort", "undefined"}
    /\ decls \in Seq(1 .. Len(nodes))

(* A block among calls, and s is the node of the first one below the i-th  *)
(* call, or there is none.                                                 *)
IsBlock(c) == c.at \in ListLabels /\ c.node # 0

BlocksOf(cs) == {i \in DOMAIN cs : IsBlock(cs[i])}

FirstBelow(cs, i, s) ==
    \/ s = 0 /\ \A j \in BlocksOf(cs) : j <= i
    \/ \E k \in BlocksOf(cs) :
         k > i /\ s = cs[k].node /\ \A j \in BlocksOf(cs) : j > i => k <= j

Scoped ==
    outcome = "run" =>
        /\ FirstBelow(calls, 0, scope)
        /\ \A i \in BlocksOf(calls) : FirstBelow(calls, i, nodes[calls[i].node].outer)

(* Consuming at the end of the source, which is reported, would not move   *)
(* the start of the ring from its last slot to its first.                  *)
RoomAtEnd == reported => n % WindowLength # WindowLength - 1

Ate(w)     == w.read - (w.end - w.start)
PastEnd(w) == w.start > w.end

(* The start is where the tokens consumed lead it, and a token waiting is  *)
(* the last one read.                                                      *)
WindowOK(w) ==
    /\ \E q \in Int : Ate(w) = q * WindowLength + w.start
    /\ \/ w.end = w.start
       \/ w.end = w.start + 1 /\ w.slots[w.start] = w.read
       \/ w.end + 1 = w.start /\ w.read = n

Windowed ==
    RoomAtEnd =>
        /\ WindowOK(window)
        /\ PastEnd(window) => reported /\ (calls # <<>> => This.at \notin Begins \cup {"item"})
        /\ calls # <<>> /\ This.at \in Keywords => Current # "end"

(* A statement that has not eaten has only begun, and has a token to eat.  *)
Fed ==
    RoomAtEnd =>
        \A i \in DOMAIN calls :
            calls[i].at = "stmt_done" =>
                /\ calls[i].from <= Eaten
                /\ calls[i].from = Eaten => This.at \in Begins /\ Current # "end"

(* The calls that may be above one that waits, and return no infix         *)
(* operation, or one of a level that is high enough.                       *)
Operands  == {"prefix", "operand", "postfix", "args", "item", "arg"}
Primaries == {"primary", "paren"}
Infixes   == {"infix", "lhs", "operators", "rhs"}

LevelAt(t) == Level[input[t].kind]

Above(a, b) ==
    /\ b.at = "lhs" => a.at \in Operands
    /\ b.at = "postfix" => a.at \in Primaries
    /\ b.at = "rhs" => IF LevelAt(b.list[2]) = Shift THEN a.at \in Operands
                       ELSE a.at \in Infixes /\ a.level = LevelAt(b.list[2]) + 1

(* The level of a node that is an infix operation, above all for others.   *)
LevelIn(ns, id) ==
    IF ns[id].kind = "binary" THEN LevelAt(ns[id].toks[1]) ELSE Shift + 1

BinaryOK(ns, id) ==
    ns[id].kind = "binary" =>
        /\ Len(ns[id].kids) = 2
        /\ LevelIn(ns, ns[id].kids[1]) >= LevelIn(ns, id)
        /\ LevelIn(ns, ns[id].kids[2]) > LevelIn(ns, id)
        /\ Len(ns[id].toks) = 1
        /\ ns[id].toks[1] \in 1 .. n
        /\ IsInfix(input[ns[id].toks[1]].kind, 1)

(* What the innermost call c relies on, r being returned to it and k being *)
(* the kind of the next token.                                             *)
ReturnOK(c, ns, r, k) ==
    /\ c.at \in {"lhs", "postfix"} => ns[r].kind # "binary"
    /\ c.at = "operators" =>
         /\ LevelIn(ns, c.list[1]) >= c.level
         /\ IsInfix(k, c.level) => Level[k] <= LevelIn(ns, c.list[1])
    /\ c.at = "rhs" =>
         /\ LevelIn(ns, r) > LevelAt(c.list[2])
         /\ ~IsInfix(k, LevelAt(c.list[2]) + 1)

(* An operand and its operator, which the right operand is parsed for.     *)
LeftOK(c, ns) == c.at = "rhs" => LevelIn(ns, c.list[1]) >= LevelAt(c.list[2])

LevelledAt(cs, ns, r, told, k) ==
    /\ \A id \in DOMAIN ns : ns[id].kind = "error" => told
    /\ \A i \in DOMAIN cs : i + 1 \in DOMAIN cs => Above(cs[i], cs[i + 1])
    /\ ~told =>
         /\ \A id \in DOMAIN ns : BinaryOK(ns, id)
         /\ \A i \in DOMAIN cs : LeftOK(cs[i], ns)
         /\ cs # <<>> => ReturnOK(cs[1], ns, r, k)

Levelled == LevelledAt(calls, nodes, ret, reported, Current)

IInv == Typed /\ Scoped /\ Windowed /\ Fed /\ Levelled

-----------------------------------------------------------------------------
(* The window.                                                             *)

LEMMA Length == ASSUME input \in Seq(Token) PROVE n \in Nat
  BY DEF n

(* A remainder is below what is divided by, and is the number when that is *)
(* below already.                                                          *)
LEMMA Remainder ==
    ASSUME NEW x \in Int, NEW m \in Nat, m > 0
    PROVE  x % m \in 0 .. m - 1 /\ (x \in 0 .. m - 1 => x % m = x)
  OBVIOUS

(* The fields of a window.                                                 *)
LEMMA WindowFields ==
    ASSUME input \in Seq(Token), NEW w \in WindowType
    PROVE  /\ n \in Nat
           /\ w.slots \in [0 .. WindowLength - 1 -> {Unread} \cup 1 .. n]
           /\ w.start \in 0 .. WindowLength - 1
           /\ w.end \in 0 .. SizeRange - 1
           /\ w.read \in 0 .. n
           /\ w = [slots |-> w.slots, start |-> w.start, end |-> w.end, read |-> w.read]
  BY Length DEF WindowType

(* peek, when it reads a token.                                            *)
LEMMA PeekReads ==
    ASSUME input \in Seq(Token), NEW w \in WindowType, ~(w.start < w.end \/ w.read >= n)
    PROVE  LET p == Peeked(w, n)
           IN  /\ p = [slots |-> [w.slots EXCEPT ![w.start] = w.read + 1],
                       start |-> w.start, end |-> (w.end + 1) % SizeRange,
                       read |-> w.read + 1]
               /\ p.slots = [w.slots EXCEPT ![w.start] = w.read + 1]
               /\ p.slots[w.start] = w.read + 1
               /\ p.start = w.start
               /\ p.end = (w.end + 1) % SizeRange
               /\ p.read = w.read + 1
               /\ w.read + 1 \in 1 .. n
<1> DEFINE s == [w.slots EXCEPT ![w.start] = w.read + 1]
           e == (w.end + 1) % SizeRange
<1>1. Peeked(w, n) = [slots |-> [w.slots EXCEPT ![w.start] = w.read + 1],
                      start |-> w.start, end |-> (w.end + 1) % SizeRange,
                      read |-> w.read + 1]
  <2>1. Peeked(w, n) = [w EXCEPT !.slots = s, !.end = e, !.read = w.read + 1]
    BY DEF Peeked
  <2> DEFINE u == [w EXCEPT !.slots = s]
             v == [u EXCEPT !.end = e]
  <2> HIDE DEF s, e
  <2>2. u = [slots |-> s, start |-> w.start, end |-> w.end, read |-> w.read]
    BY WindowFields
  <2> HIDE DEF u
  <2>3. v = [slots |-> s, start |-> w.start, end |-> e, read |-> w.read]
    BY <2>2
  <2> HIDE DEF v
  <2>4. [v EXCEPT !.read = w.read + 1]
          = [slots |-> s, start |-> w.start, end |-> e, read |-> w.read + 1]
    BY <2>3
  <2> QED
    BY <2>1, <2>4 DEF s, e, u, v
<1>2. [w.slots EXCEPT ![w.start] = w.read + 1][w.start] = w.read + 1
  BY WindowFields
<1>3. w.read + 1 \in 1 .. n
  BY WindowFields
<1> QED
  BY <1>1, <1>2, <1>3

LEMMA PeekType ==
    ASSUME input \in Seq(Token), NEW w \in WindowType
    PROVE  Peeked(w, n) \in WindowType
<1>1. CASE w.start < w.end \/ w.read >= n
  BY <1>1 DEF Peeked
<1>2. CASE ~(w.start < w.end \/ w.read >= n)
  <2>1. (w.end + 1) % SizeRange \in 0 .. SizeRange - 1
    <3>1. w.end + 1 \in Int /\ SizeRange \in Nat /\ SizeRange > 0
      BY WindowFields, WindowAssumption
    <3> QED
      BY <3>1, Remainder
  <2>2. [w.slots EXCEPT ![w.start] = w.read + 1] \in [0 .. WindowLength - 1 -> {Unread} \cup 1 .. n]
    BY <1>2, WindowFields, PeekReads
  <2>3. w.start \in 0 .. WindowLength - 1 /\ w.read + 1 \in 0 .. n
    BY <1>2, WindowFields
  <2>4. Peeked(w, n) = [slots |-> [w.slots EXCEPT ![w.start] = w.read + 1],
                        start |-> w.start, end |-> (w.end + 1) % SizeRange,
                        read |-> w.read + 1]
    BY <1>2, PeekReads
  <2> QED
    BY <2>1, <2>2, <2>3, <2>4 DEF WindowType
<1> QED
  BY <1>1, <1>2

(* The token that comes next.                                              *)
LEMMA TokenType ==
    ASSUME input \in Seq(Token), NEW w \in WindowType
    PROVE  /\ HasToken(w, n) => TokenAt(w, n) \in {Unread} \cup 1 .. n
           /\ ~HasToken(w, n) => TokenAt(w, n) = Null
<1>1. Peeked(w, n).slots[w.start] \in {Unread} \cup 1 .. n
  BY PeekType, WindowFields
<1> QED
  BY <1>1 DEF TokenAt

LEMMA KindIs ==
    ASSUME input \in Seq(Token), NEW w \in WindowType
    PROVE  /\ Kind(w) = "end" <=> ~HasToken(w, n)
           /\ Kind(w) \notin {"end", "error"} =>
                /\ TokenAt(w, n) \in 1 .. n
                /\ input[TokenAt(w, n)].kind = Kind(w)
<1> DEFINE t == TokenAt(w, n)
<1>1. \A i \in 1 .. n : input[i].kind # "end"
  <2>1. \A i \in 1 .. n : input[i] \in Token
    BY DEF n
  <2> QED
    BY <2>1 DEF Token
<1>2. CASE ~HasToken(w, n)
  <2>1. t = Null
    BY <1>2, TokenType
  <2>2. Kind(w) = "end"
    BY <2>1 DEF Kind
  <2> QED
    BY <1>2, <2>2
<1>3. CASE HasToken(w, n)
  <2>1. t \in {Unread} \cup 1 .. n
    BY <1>3, TokenType
  <2>2. t # Null
    BY <2>1, WindowFields DEF Unread, Null
  <2>3. CASE t = Unread
    <3>1. Kind(w) = "error"
      BY <2>2, <2>3 DEF Kind
    <3> QED
      BY <1>3, <3>1
  <2>4. CASE t # Unread
    <3>1. Kind(w) = input[t].kind /\ t \in 1 .. n
      BY <2>1, <2>2, <2>4 DEF Kind
    <3> QED
      BY <1>1, <1>3, <3>1
  <2> QED
    BY <2>3, <2>4
<1> QED
  BY <1>2, <1>3

LEMMA TakeType ==
    ASSUME input \in Seq(Token), NEW w \in WindowType
    PROVE  Take(w) \in WindowType
<1> DEFINE p == Peeked(w, n)
<1>1. p \in WindowType
  BY PeekType
<1> HIDE DEF p
<1>2. CASE p.start + 1 = WindowLength
  <2>1. (p.end - WindowLength) % SizeRange \in 0 .. SizeRange - 1
    <3>1. p.end - WindowLength \in Int /\ SizeRange \in Nat /\ SizeRange > 0
      BY <1>1, WindowFields, WindowAssumption
    <3> QED
      BY <3>1, Remainder
  <2>2. Take(w) = [p EXCEPT !.start = 0, !.end = (@ - WindowLength) % SizeRange]
    BY <1>2 DEF Take, Consumed, p
  <2>3. 0 \in 0 .. WindowLength - 1
    BY WindowAssumption
  <2> QED
    BY <1>1, <2>1, <2>2, <2>3 DEF WindowType
<1>3. CASE p.start + 1 # WindowLength
  <2>1. p.start + 1 \in 0 .. WindowLength - 1
    BY <1>1, <1>3, WindowFields, WindowAssumption
  <2>2. Take(w) = [p EXCEPT !.start = @ + 1]
    BY <1>3 DEF Take, Consumed, p
  <2> QED
    BY <1>1, <2>1, <2>2 DEF WindowType
<1> QED
  BY <1>2, <1>3

LEMMA RemainderIs ==
    ASSUME NEW x \in Int, NEW m \in Nat, m > 0, NEW q \in Int, NEW r \in 0 .. m - 1,
           x = q * m + r
    PROVE  x % m = r
  BY SMTT(20)

(* peek keeps a window in order, and can be repeated.                      *)
LEMMA PeekOK ==
    ASSUME input \in Seq(Token), NEW w \in WindowType, WindowOK(w)
    PROVE  LET p == Peeked(w, n)
           IN  /\ WindowOK(p)
               /\ Ate(p) = Ate(w)
               /\ p.start = w.start
               /\ PastEnd(p) <=> PastEnd(w)
               /\ HasToken(w, n) <=> p.start < p.end
               /\ TokenAt(p, n) = TokenAt(w, n)
               /\ Kind(p) = Kind(w)
<1> DEFINE p == Peeked(w, n)
<1>1. CASE w.start < w.end \/ w.read >= n
  <2>1. p = w
    BY <1>1 DEF Peeked
  <2>2. HasToken(w, n) <=> w.start < w.end
    BY <1>1, WindowFields DEF HasToken
  <2> QED
    BY <2>1, <2>2
<1>2. CASE ~(w.start < w.end \/ w.read >= n)
  <2>1. w.end = w.start /\ w.read + 1 \in 1 .. n
    BY <1>2, WindowFields DEF WindowOK
  <2>2. (w.end + 1) % SizeRange = w.start + 1
    <3>1. w.start + 1 \in 0 .. SizeRange - 1 /\ SizeRange \in Nat /\ SizeRange > 0
      BY WindowFields, WindowAssumption
    <3> QED
      BY <2>1, <3>1, Remainder
  <2>3. /\ p.slots[w.start] = w.read + 1
        /\ p.start = w.start /\ p.end = w.start + 1 /\ p.read = w.read + 1
    BY <1>2, <2>2, PeekReads
  <2> HIDE DEF p
  <2>4. Ate(p) = Ate(w)
    BY <2>1, <2>3, WindowFields DEF Ate
  <2>5. WindowOK(p)
    BY <2>3, <2>4 DEF WindowOK
  <2>6. p.start < p.end /\ ~PastEnd(p) /\ ~PastEnd(w) /\ HasToken(w, n) /\ HasToken(p, n)
    BY <1>2, <2>1, <2>3, WindowFields DEF PastEnd, HasToken
  <2>7. TokenAt(p, n) = TokenAt(w, n)
    <3>1. Peeked(p, n) = p
      BY <2>6 DEF Peeked
    <3> QED
      BY <2>3, <2>6, <3>1 DEF TokenAt, p
  <2>8. Kind(p) = Kind(w)
    BY <2>7 DEF Kind
  <2> QED
    BY <2>3, <2>4, <2>5, <2>6, <2>7, <2>8 DEF p
<1> QED
  BY <1>1, <1>2

(* The fields after consume.                                               *)
LEMMA TakeFields ==
    ASSUME input \in Seq(Token), NEW w \in WindowType
    PROVE  LET p == Peeked(w, n)
           IN  /\ Take(w).slots = p.slots
               /\ Take(w).read = p.read
               /\ p.start + 1 = WindowLength =>
                    /\ Take(w).start = 0
                    /\ Take(w).end = (p.end - WindowLength) % SizeRange
               /\ p.start + 1 # WindowLength =>
                    Take(w).start = p.start + 1 /\ Take(w).end = p.end
<1> DEFINE p == Peeked(w, n)
<1>1. p = [slots |-> p.slots, start |-> p.start, end |-> p.end, read |-> p.read]
  BY PeekType, WindowFields
<1>2. Take(w) = IF p.start + 1 = WindowLength
                THEN [p EXCEPT !.start = 0, !.end = (@ - WindowLength) % SizeRange]
                ELSE [p EXCEPT !.start = @ + 1]
  BY DEF Take, Consumed
<1> HIDE DEF p
<1> QED
  BY <1>1, <1>2 DEF p

(* consume with a token to consume.                                        *)
LEMMA TakeOK ==
    ASSUME input \in Seq(Token), NEW w \in WindowType, WindowOK(w), Kind(w) # "end"
    PROVE  WindowOK(Take(w)) /\ Ate(Take(w)) = Ate(w) + 1 /\ ~PastEnd(Take(w))
<1> DEFINE p == Peeked(w, n)
           t == Take(w)
<1>1. /\ p \in WindowType /\ WindowOK(p) /\ Ate(p) = Ate(w) /\ p.start < p.end
  BY PeekType, PeekOK, KindIs
<1>2. /\ t.slots = p.slots
      /\ t.read = p.read
      /\ p.start + 1 = WindowLength => t.start = 0 /\ t.end = (p.end - WindowLength) % SizeRange
      /\ p.start + 1 # WindowLength => t.start = p.start + 1 /\ t.end = p.end
  BY TakeFields
<1> HIDE DEF p, t
<1>3. p.end = p.start + 1 /\ p.start \in Nat /\ p.end \in Nat /\ p.read \in Nat
  BY <1>1, WindowFields DEF WindowOK
<1>4. PICK q \in Int : Ate(p) = q * WindowLength + p.start
  BY <1>1 DEF WindowOK
<1>5. t.start = t.end /\ t.start \in Nat
  <2>1. CASE p.start + 1 = WindowLength
    <3>1. p.end - WindowLength = 0 /\ 0 \in 0 .. SizeRange - 1 /\ SizeRange \in Nat /\ SizeRange > 0
      BY <1>3, <2>1, WindowAssumption
    <3>2. (p.end - WindowLength) % SizeRange = 0
      BY <3>1, Remainder
    <3> QED
      BY <1>2, <2>1, <3>2
  <2> QED
    BY <1>2, <1>3, <2>1
<1>6. Ate(t) = Ate(p) + 1
  BY <1>2, <1>3, <1>5 DEF Ate
<1>7. \E r \in Int : Ate(t) = r * WindowLength + t.start
  <2>1. CASE p.start + 1 = WindowLength
    <3>1. (q + 1) * WindowLength = q * WindowLength + WindowLength
      BY WindowAssumption
    <3>2. q * WindowLength \in Int /\ q + 1 \in Int /\ (q + 1) * WindowLength \in Int
      BY WindowAssumption
    <3> DEFINE x == q * WindowLength
               y == (q + 1) * WindowLength
    <3>3. Ate(t) = y + t.start
      <4>1. Ate(t) = x + p.start + 1
        BY <1>4, <1>6
      <4>2. y = x + WindowLength /\ x \in Int /\ y \in Int
        BY <3>1, <3>2
      <4> HIDE DEF x, y
      <4>3. t.start = 0
        BY <1>2, <2>1
      <4> QED
        BY <1>3, <2>1, <4>1, <4>2, <4>3, WindowAssumption
    <3> QED
      BY <3>2, <3>3
  <2>2. CASE p.start + 1 # WindowLength
    <3>1. q * WindowLength \in Int
      BY WindowAssumption
    <3> QED
      BY <1>2, <1>3, <1>4, <1>6, <2>2, <3>1
  <2> QED
    BY <2>1, <2>2
<1> QED
  BY <1>1, <1>5, <1>6, <1>7 DEF WindowOK, PastEnd, t

(* consume at the end, where the start is not at the last slot.            *)
LEMMA TakeEndOK ==
    ASSUME input \in Seq(Token), NEW w \in WindowType, WindowOK(w), Kind(w) = "end",
           ~PastEnd(w), n % WindowLength # WindowLength - 1
    PROVE  WindowOK(Take(w)) /\ Ate(Take(w)) = Ate(w) + 1
<1>1. ~HasToken(w, n)
  BY KindIs
<1>2. Peeked(w, n) = w /\ w.end = w.start /\ w.read = n
  BY <1>1, WindowFields DEF HasToken, Peeked, WindowOK, PastEnd
<1>3. PICK q \in Int : Ate(w) = q * WindowLength + w.start
  BY DEF WindowOK
<1>4. Ate(w) = n /\ n \in Nat
  BY <1>2, WindowFields DEF Ate
<1>5. w.start + 1 # WindowLength
  <2>1. n % WindowLength = w.start
    <3>1. n \in Int /\ w.start \in 0 .. WindowLength - 1 /\ n = q * WindowLength + w.start
      BY <1>3, <1>4, WindowFields
    <3> QED
      BY <3>1, RemainderIs, WindowAssumption
  <2> QED
    BY <2>1, WindowFields, WindowAssumption
<1>6. Take(w).start = w.start + 1 /\ Take(w).end = w.end /\ Take(w).read = w.read
  BY <1>2, <1>5, TakeFields
<1>7. Ate(Take(w)) = Ate(w) + 1
  BY <1>2, <1>6, WindowFields DEF Ate
<1>8. Ate(Take(w)) = q * WindowLength + Take(w).start
  <2>1. q * WindowLength \in Int
    BY WindowAssumption
  <2> QED
    BY <1>3, <1>6, <1>7, <2>1, WindowFields
<1> QED
  BY <1>2, <1>6, <1>7, <1>8, WindowFields DEF WindowOK

-----------------------------------------------------------------------------
(* The nodes.                                                              *)

(* What happens to the arena: nodes are added, and those that are there    *)
(* keep the block around them and their kind, or become an error; an infix *)
(* operation keeps its operands and its operator.                          *)
Extends(ns, ns2) ==
    /\ ns2 \in Seq(NodeType(Len(ns2)))
    /\ Len(ns2) >= Len(ns)
    /\ \A id \in 1 .. Len(ns) :
         /\ ns2[id].outer = ns[id].outer
         /\ ns2[id].kind \in {ns[id].kind, "error"}
         /\ ns2[id].kind = "binary" => ns2[id].kids = ns[id].kids /\ ns2[id].toks = ns[id].toks

LEMMA SeqGrows ==
    ASSUME NEW S, NEW T, S \subseteq T, NEW s \in Seq(S)
    PROVE  s \in Seq(T)
  OBVIOUS

LEMMA BelowGrows ==
    ASSUME NEW a \in Int, NEW m \in Nat, NEW k \in Nat, m <= k
    PROVE  /\ a .. m \subseteq a .. k
           /\ Seq(a .. m) \subseteq Seq(a .. k)
<1>1. a .. m \subseteq a .. k
  OBVIOUS
<1> QED
  BY <1>1, SeqGrows

LEMMA NodeGrows ==
    ASSUME NEW m \in Nat, NEW k \in Nat, m <= k
    PROVE  NodeType(m) \subseteq NodeType(k)
<1>1. 1 .. m \subseteq 1 .. k /\ 0 .. m \subseteq 0 .. k /\ Seq(1 .. m) \subseteq Seq(1 .. k)
  BY BelowGrows
<1> HIDE DEF NodeType
<1>2. ASSUME NEW u \in NodeType(m) PROVE u \in NodeType(k)
  <2>1. /\ u = [kind |-> u.kind, toks |-> u.toks, kids |-> u.kids, decls |-> u.decls,
                outer |-> u.outer]
        /\ u.kind \in NodeKinds /\ u.toks \in Seq(0 .. n) /\ u.kids \in Seq(1 .. m)
        /\ u.decls \in Seq(1 .. m) /\ u.outer \in 0 .. m
    BY DEF NodeType
  <2>2. u.kids \in Seq(1 .. k) /\ u.decls \in Seq(1 .. k) /\ u.outer \in 0 .. k
    BY <1>1, <2>1
  <2> QED
    BY <2>1, <2>2 DEF NodeType
<1> QED
  BY <1>2

LEMMA NodeFields ==
    ASSUME NEW ns, ns \in Seq(NodeType(Len(ns))), NEW id \in 1 .. Len(ns)
    PROVE  /\ ns[id] = [kind |-> ns[id].kind, toks |-> ns[id].toks, kids |-> ns[id].kids,
                        decls |-> ns[id].decls, outer |-> ns[id].outer]
           /\ ns[id].kind \in NodeKinds
           /\ ns[id].toks \in Seq(0 .. n)
           /\ ns[id].kids \in Seq(1 .. Len(ns))
           /\ ns[id].decls \in Seq(1 .. Len(ns))
           /\ ns[id].outer \in 0 .. Len(ns)
<1>1. ns[id] \in NodeType(Len(ns))
  OBVIOUS
<1> QED
  BY <1>1 DEF NodeType

LEMMA ExtendsSelf ==
    ASSUME NEW ns, ns \in Seq(NodeType(Len(ns)))
    PROVE  Extends(ns, ns)
<1>1. Len(ns) \in Nat
  BY LenProperties
<1> QED
  BY <1>1 DEF Extends

(* A new node.                                                             *)
LEMMA ExtendsNew ==
    ASSUME NEW ns, ns \in Seq(NodeType(Len(ns))), NEW u \in NodeType(Len(ns) + 1)
    PROVE  LET ns2 == Append(ns, u)
           IN  /\ Extends(ns, ns2)
               /\ Len(ns2) = Len(ns) + 1
               /\ ns2[Len(ns) + 1] = u
               /\ \A id \in 1 .. Len(ns) : ns2[id] = ns[id]
<1> DEFINE ns2 == Append(ns, u)
<1>1. Len(ns) \in Nat
  BY LenProperties
<1>2. ns \in Seq(NodeType(Len(ns) + 1))
  BY <1>1, NodeGrows, SeqGrows
<1> DEFINE S == NodeType(Len(ns) + 1)
<1> HIDE DEF S
<1>3. /\ ns2 \in Seq(S) /\ Len(ns2) = Len(ns) + 1
      /\ ns2[Len(ns) + 1] = u
      /\ \A id \in 1 .. Len(ns) : ns2[id] = ns[id]
  <2>1. ns \in Seq(S) /\ u \in S
    BY <1>2 DEF S
  <2> QED
    BY <2>1, AppendProperties
<1> HIDE DEF ns2
<1>4. ns2 \in Seq(NodeType(Len(ns2)))
  BY <1>3 DEF S
<1> QED
  BY <1>1, <1>3, <1>4 DEF Extends, ns2

(* A node that changes in place.                                           *)
LEMMA ExtendsSet ==
    ASSUME NEW ns, ns \in Seq(NodeType(Len(ns))), NEW id \in 1 .. Len(ns),
           NEW u \in NodeType(Len(ns)),
           u.outer = ns[id].outer, u.kind \in {ns[id].kind, "error"},
           u.kind = "binary" => u.kids = ns[id].kids /\ u.toks = ns[id].toks
    PROVE  LET ns2 == [ns EXCEPT ![id] = u]
           IN  /\ Extends(ns, ns2)
               /\ Len(ns2) = Len(ns)
               /\ ns2[id] = u
               /\ \A i \in 1 .. Len(ns) : i # id => ns2[i] = ns[i]
<1> DEFINE S == NodeType(Len(ns))
           ns2 == [ns EXCEPT ![id] = u]
<1>1. Len(ns) \in Nat
  BY LenProperties
<1> HIDE DEF S
<1>2. /\ ns2 \in Seq(S) /\ Len(ns2) = Len(ns)
      /\ ns2[id] = u
      /\ \A i \in 1 .. Len(ns) : i # id => ns2[i] = ns[i]
  <2>1. ns \in Seq(S) /\ u \in S
    BY DEF S
  <2> QED
    BY <2>1, ExceptSeq
<1>3. ns2 \in Seq(NodeType(Len(ns2)))
  BY <1>2 DEF S
<1> HIDE DEF ns2
<1> QED
  BY <1>1, <1>2, <1>3 DEF Extends, ns2

LEMMA ExtendsTwice ==
    ASSUME NEW a, a \in Seq(NodeType(Len(a))), NEW b, NEW c, Extends(a, b), Extends(b, c)
    PROVE  Extends(a, c)
<1>1. Len(a) \in Nat /\ Len(b) \in Nat /\ Len(c) \in Nat
  <2>1. b \in Seq(NodeType(Len(b))) /\ c \in Seq(NodeType(Len(c)))
    BY DEF Extends
  <2> QED
    BY <2>1, LenProperties
<1> QED
  BY <1>1 DEF Extends

-----------------------------------------------------------------------------
(* The calls.                                                              *)

LEMMA CallFields ==
    ASSUME NEW c \in CallType
    PROVE  /\ c = [at |-> c.at, node |-> c.node, level |-> c.level, list |-> c.list,
                   from |-> c.from]
           /\ c.at \in Labels /\ c.node \in Nat /\ c.level \in 1 .. Shift
           /\ c.list \in Seq(Int) /\ c.from \in Int
  BY DEF CallType

(* What holds of a call still holds when the arena changes.                *)
LEMMA CallGrows ==
    ASSUME NEW c, NEW ns, ns \in Seq(NodeType(Len(ns))), NEW ns2, CallOK(input, c, ns),
           Extends(ns, ns2)
    PROVE  CallOK(input, c, ns2)
<1>1. Len(ns) \in Nat /\ Len(ns2) \in Nat /\ Len(ns) <= Len(ns2)
  <2>1. ns2 \in Seq(NodeType(Len(ns2)))
    BY DEF Extends
  <2> QED
    BY <2>1, LenProperties DEF Extends
<1>2. 1 .. Len(ns) \subseteq 1 .. Len(ns2) /\ Seq(1 .. Len(ns)) \subseteq Seq(1 .. Len(ns2))
  BY <1>1, BelowGrows
<1>3. c.node # 0 => c.node \in 1 .. Len(ns2) /\ ns2[c.node].kind # "binary"
  BY <1>2 DEF CallOK, Extends
<1> QED
  BY <1>2, <1>3 DEF CallOK

(* The calls that are kept when the innermost one is replaced.             *)
LEMMA Replaced ==
    ASSUME NEW cs \in Seq(CallType), cs # <<>>
    PROVE  /\ Head(cs) = cs[1] /\ Len(cs) \in Nat /\ Len(cs) >= 1 /\ cs[1] \in CallType
           /\ Tail(cs) \in Seq(CallType) /\ Len(Tail(cs)) = Len(cs) - 1
           /\ \A i \in 1 .. Len(cs) - 1 : Tail(cs)[i] = cs[i + 1]
           /\ \A a \in CallType : LET r == <<a>> \o Tail(cs) IN
                /\ r \in Seq(CallType) /\ Len(r) = Len(cs) /\ r[1] = a
                /\ \A i \in 2 .. Len(cs) : r[i] = cs[i]
           /\ \A a, b \in CallType : LET r == <<a, b>> \o Tail(cs) IN
                /\ r \in Seq(CallType) /\ Len(r) = Len(cs) + 1 /\ r[1] = a /\ r[2] = b
                /\ \A i \in 3 .. Len(cs) + 1 : r[i] = cs[i - 1]
<1>1. /\ Head(cs) = cs[1] /\ Len(cs) \in Nat /\ Len(cs) >= 1 /\ cs[1] \in CallType
      /\ Tail(cs) \in Seq(CallType) /\ Len(Tail(cs)) = Len(cs) - 1
      /\ \A i \in 1 .. Len(cs) - 1 : Tail(cs)[i] = cs[i + 1]
  BY HeadTailProperties, EmptySeq, LenProperties
<1>2. ASSUME NEW a \in CallType
      PROVE  LET r == <<a>> \o Tail(cs) IN
                /\ r \in Seq(CallType) /\ Len(r) = Len(cs) /\ r[1] = a
                /\ \A i \in 2 .. Len(cs) : r[i] = cs[i]
  <2>1. <<a>> \in Seq(CallType) /\ Len(<<a>>) = 1
    OBVIOUS
  <2> QED
    BY <1>1, <2>1, ConcatProperties
<1>3. ASSUME NEW a \in CallType, NEW b \in CallType
      PROVE  LET r == <<a, b>> \o Tail(cs) IN
                /\ r \in Seq(CallType) /\ Len(r) = Len(cs) + 1 /\ r[1] = a /\ r[2] = b
                /\ \A i \in 3 .. Len(cs) + 1 : r[i] = cs[i - 1]
  <2>1. <<a, b>> \in Seq(CallType) /\ Len(<<a, b>>) = 2
    OBVIOUS
  <2> QED
    BY <1>1, <2>1, ConcatProperties
<1> QED
  BY <1>1, <1>2, <1>3

(* The four ways in which the calls change: they stay, the innermost one   *)
(* returns, or it is replaced by one or by two.                            *)
Pops       == calls # <<>> /\ calls' = Tail(calls)
Puts(a)    == calls # <<>> /\ calls' = <<a>> \o Tail(calls)
Calls(a, b) == calls # <<>> /\ calls' = <<a, b>> \o Tail(calls)

(* The innermost call is the list of the statements of the source.         *)
AtBottom == This.at \in ListLabels /\ This.node = 0

LEMMA CallsKeep ==
    ASSUME Typed, UNCHANGED input, Extends(nodes, nodes')
    PROVE  \A i \in DOMAIN calls : CallOK(input, calls[i], nodes')
  BY CallGrows DEF Typed, CallsOK

LEMMA CallsSame ==
    ASSUME Typed, UNCHANGED <<input, calls>>, Extends(nodes, nodes')
    PROVE  CallsOK'
<1>1. \A i \in DOMAIN calls : CallOK(input, calls[i], nodes')
  BY CallsKeep
<1>2. \A i \in DOMAIN calls' : CallOK(input', calls'[i], nodes')
  BY <1>1
<1> QED
  BY <1>2 DEF Typed, CallsOK, This

LEMMA CallsPop ==
    ASSUME Typed, UNCHANGED input, Extends(nodes, nodes'), Pops
    PROVE  /\ CallsOK'
           /\ Len(calls') = Len(calls) - 1 /\ Len(calls') \in Nat
           /\ \A i \in 1 .. Len(calls) - 1 : calls'[i] = calls[i + 1]
<1>1. calls \in Seq(CallType) /\ calls # <<>>
  BY DEF Typed, CallsOK, Pops
<1>2. /\ Len(calls) \in Nat /\ Len(calls) >= 1
      /\ calls' \in Seq(CallType) /\ Len(calls') = Len(calls) - 1
      /\ \A i \in 1 .. Len(calls) - 1 : calls'[i] = calls[i + 1]
  BY <1>1, Replaced DEF Pops
<1>3. \A i \in DOMAIN calls : CallOK(input, calls[i], nodes')
  BY CallsKeep
<1>4. DOMAIN calls = 1 .. Len(calls) /\ DOMAIN calls' = 1 .. Len(calls) - 1
  BY <1>1, <1>2, LenProperties
<1>5. ASSUME NEW i \in DOMAIN calls'
      PROVE  /\ CallOK(input', calls'[i], nodes')
             /\ calls'[i].at \in Waiting
             /\ calls'[i].at \in ListLabels /\ calls'[i].node = 0 => i = Len(calls')
  <2>1. calls'[i] = calls[i + 1] /\ i + 1 \in DOMAIN calls /\ i + 1 > 1
    BY <1>2, <1>4
  <2>2. CallOK(input', calls'[i], nodes')
    BY <1>3, <2>1
  <2>3. calls'[i].at \in Waiting
    BY <2>1 DEF Typed, CallsOK
  <2>4. calls'[i].at \in ListLabels /\ calls'[i].node = 0 => i = Len(calls')
    BY <1>2, <1>4, <2>1 DEF Typed, CallsOK
  <2> QED
    BY <2>2, <2>3, <2>4
<1>6. calls' # <<>> => This'.at # "gather"
  <2>1. ASSUME calls' # <<>> PROVE This' = calls'[1] /\ 1 \in DOMAIN calls'
    BY <1>2, <2>1, Replaced, EmptySeq, LenProperties DEF This
  <2>2. ASSUME calls' # <<>> PROVE This'.at \in Waiting
    BY <1>5, <2>1, <2>2
  <2> QED
    BY <2>2 DEF Waiting
<1>7. CallsOK'
  BY <1>2, <1>5, <1>6 DEF CallsOK, This
<1> QED
  BY <1>2, <1>4, <1>7

LEMMA CallsPut ==
    ASSUME Typed, UNCHANGED input, Extends(nodes, nodes'), NEW a, Puts(a),
           CallOK(input, a, nodes'), a.at # "gather",
           a.at \in ListLabels => a.node # 0 \/ AtBottom
    PROVE  /\ CallsOK'
           /\ Len(calls') = Len(calls) /\ Len(calls) \in Nat /\ Len(calls) >= 1
           /\ This' = a /\ calls'[1] = a /\ calls' # <<>>
           /\ \A i \in 2 .. Len(calls) : calls'[i] = calls[i]
<1>1. calls \in Seq(CallType) /\ calls # <<>> /\ a \in CallType
  BY DEF Typed, CallsOK, Puts, CallOK
<1>2. /\ Len(calls) \in Nat /\ Len(calls) >= 1
      /\ calls' \in Seq(CallType) /\ Len(calls') = Len(calls)
      /\ calls'[1] = a
      /\ \A i \in 2 .. Len(calls) : calls'[i] = calls[i]
  BY <1>1, Replaced DEF Puts
<1>3. \A i \in DOMAIN calls : CallOK(input, calls[i], nodes')
  BY CallsKeep
<1>4. DOMAIN calls = 1 .. Len(calls) /\ DOMAIN calls' = 1 .. Len(calls)
  BY <1>1, <1>2, LenProperties
<1>5. calls' # <<>> /\ This' = a
  BY <1>2, EmptySeq, Replaced DEF This
<1>6. This = calls[1]
  BY <1>1, Replaced DEF This
<1>7. ASSUME NEW i \in DOMAIN calls'
      PROVE  /\ CallOK(input', calls'[i], nodes')
             /\ i > 1 => calls'[i].at \in Waiting
             /\ calls'[i].at \in ListLabels /\ calls'[i].node = 0 => i = Len(calls')
  <2>1. CASE i = 1
    <3>1. CallOK(input', calls'[i], nodes')
      BY <1>2, <2>1
    <3>2. calls'[i].at \in ListLabels /\ calls'[i].node = 0 => i = Len(calls')
      BY <1>2, <1>4, <1>6, <2>1 DEF Typed, CallsOK, AtBottom
    <3> QED
      BY <2>1, <3>1, <3>2
  <2>2. CASE i # 1
    <3>1. calls'[i] = calls[i] /\ i \in DOMAIN calls /\ i > 1
      BY <1>2, <1>4, <2>2
    <3>2. CallOK(input', calls'[i], nodes')
      BY <1>3, <3>1
    <3> QED
      BY <1>2, <3>1, <3>2 DEF Typed, CallsOK
  <2> QED
    BY <2>1, <2>2
<1>8. CallsOK'
  BY <1>2, <1>5, <1>7 DEF CallsOK, This
<1> QED
  BY <1>2, <1>5, <1>8

LEMMA CallsTwo ==
    ASSUME Typed, UNCHANGED input, Extends(nodes, nodes'), NEW a, NEW b, Calls(a, b),
           CallOK(input, a, nodes'), CallOK(input, b, nodes'), a.at \notin ListLabels,
           a.at = "gather" => AtBottom /\ b.at = "run",
           b.at \in Waiting,
           b.at \in ListLabels => b.node # 0 \/ AtBottom
    PROVE  /\ CallsOK'
           /\ Len(calls') = Len(calls) + 1 /\ Len(calls) \in Nat /\ Len(calls) >= 1
           /\ This' = a /\ calls'[1] = a /\ calls'[2] = b /\ calls' # <<>>
           /\ \A i \in 3 .. Len(calls) + 1 : calls'[i] = calls[i - 1]
<1>1. calls \in Seq(CallType) /\ calls # <<>> /\ a \in CallType /\ b \in CallType
  BY DEF Typed, CallsOK, Calls, CallOK
<1>2. /\ Len(calls) \in Nat /\ Len(calls) >= 1
      /\ calls' \in Seq(CallType) /\ Len(calls') = Len(calls) + 1
      /\ calls'[1] = a /\ calls'[2] = b
      /\ \A i \in 3 .. Len(calls) + 1 : calls'[i] = calls[i - 1]
  BY <1>1, Replaced DEF Calls
<1>3. \A i \in DOMAIN calls : CallOK(input, calls[i], nodes')
  BY CallsKeep
<1>4. DOMAIN calls = 1 .. Len(calls) /\ DOMAIN calls' = 1 .. Len(calls) + 1
  BY <1>1, <1>2, LenProperties
<1>5. calls' # <<>> /\ This' = a
  BY <1>2, EmptySeq, Replaced DEF This
<1>6. This = calls[1]
  BY <1>1, Replaced DEF This
<1>7. AtBottom => Len(calls) = 1
  <2>1. 1 \in DOMAIN calls
    BY <1>2, <1>4
  <2>2. calls[1].at \in ListLabels /\ calls[1].node = 0 => 1 = Len(calls)
    BY <2>1 DEF Typed, CallsOK
  <2> QED
    BY <1>6, <2>2 DEF AtBottom
<1>8. ASSUME NEW i \in DOMAIN calls'
      PROVE  /\ CallOK(input', calls'[i], nodes')
             /\ i > 1 => calls'[i].at \in Waiting
             /\ calls'[i].at \in ListLabels /\ calls'[i].node = 0 => i = Len(calls')
  <2>1. CASE i = 1
    <3>1. CallOK(input', calls'[i], nodes')
      BY <1>2, <2>1
    <3> QED
      BY <1>2, <2>1, <3>1
  <2>2. CASE i = 2
    <3>1. CallOK(input', calls'[i], nodes')
      BY <1>2, <2>2
    <3> QED
      BY <1>2, <1>7, <2>2, <3>1
  <2>3. CASE i # 1 /\ i # 2
    <3>1. calls'[i] = calls[i - 1] /\ i - 1 \in DOMAIN calls /\ i - 1 > 1
      BY <1>2, <1>4, <2>3
    <3>2. CallOK(input', calls'[i], nodes')
      BY <1>3, <3>1
    <3> QED
      BY <1>2, <1>4, <3>1, <3>2 DEF Typed, CallsOK
  <2> QED
    BY <2>1, <2>2, <2>3
<1>9. ASSUME This'.at = "gather" PROVE Len(calls') = 2 /\ calls'[2].at = "run"
  <2>1. AtBottom /\ b.at = "run"
    BY <1>5, <1>9
  <2>2. Len(calls') = 2
    <3>1. Len(calls) = 1
      BY <1>7, <2>1
    <3>2. Len(calls') = Len(calls) + 1
      BY <1>2
    <3> QED
      BY <3>1, <3>2
  <2>3. calls'[2].at = "run"
    BY <1>2, <2>1
  <2> QED
    BY <2>2, <2>3
<1>10. CallsOK'
  BY <1>2, <1>8, <1>9 DEF CallsOK, This
<1> QED
  BY <1>2, <1>5, <1>10

(* The calls an action makes.                                              *)
LEMMA CallAt ==
    ASSUME NEW c \in CallType, NEW l, NEW s, NEW f
    PROVE  /\ [c EXCEPT !.at = l] = [at |-> l, node |-> c.node, level |-> c.level,
                                     list |-> c.list, from |-> c.from]
           /\ [c EXCEPT !.list = s] = [at |-> c.at, node |-> c.node, level |-> c.level,
                                       list |-> s, from |-> c.from]
           /\ [c EXCEPT !.at = l, !.list = s] =
                [at |-> l, node |-> c.node, level |-> c.level, list |-> s, from |-> c.from]
           /\ [c EXCEPT !.at = l, !.from = f] =
                [at |-> l, node |-> c.node, level |-> c.level, list |-> c.list, from |-> f]
<1>1. c = [at |-> c.at, node |-> c.node, level |-> c.level, list |-> c.list, from |-> c.from]
  BY CallFields
<1> DEFINE d == [c EXCEPT !.at = l]
<1>2. d = [at |-> l, node |-> c.node, level |-> c.level, list |-> c.list, from |-> c.from]
  BY <1>1
<1>3. [c EXCEPT !.list = s] = [at |-> c.at, node |-> c.node, level |-> c.level, list |-> s,
                              from |-> c.from]
  BY <1>1
<1> HIDE DEF d
<1>4. [d EXCEPT !.list = s] = [at |-> l, node |-> c.node, level |-> c.level, list |-> s,
                              from |-> c.from]
  BY <1>2
<1>5. [d EXCEPT !.from = f] = [at |-> l, node |-> c.node, level |-> c.level,
                              list |-> c.list, from |-> f]
  BY <1>2
<1> QED
  BY <1>2, <1>3, <1>4, <1>5 DEF d

LEMMA CallIs ==
    ASSUME NEW in, NEW ns, Len(ns) \in Nat,
           NEW l \in Labels, NEW d \in Nat, NEW v \in 1 .. Shift, NEW s \in Seq(Int),
           NEW f \in Int,
           d # 0 => d \in 1 .. Len(ns) /\ ns[d].kind # "binary",
           l \in Owners => d # 0,
           l \in NodeLists => s \in Seq(1 .. Len(ns)),
           l \in TokenLists => s \in Seq(0 .. Len(in)),
           l \in {"operators", "operand"} => Len(s) = 1,
           l # "rhs"
    PROVE  CallOK(in, [at |-> l, node |-> d, level |-> v, list |-> s, from |-> f], ns)
  BY DEF CallOK, CallType

LEMMA IntSeq ==
    ASSUME NEW a \in Int, NEW m \in Nat
    PROVE  Seq(a .. m) \subseteq Seq(Int)
<1>1. a .. m \subseteq Int
  OBVIOUS
<1> QED
  BY <1>1, SeqGrows

LEMMA EmptyList == \A S : <<>> \in Seq(S)
  BY EmptySeq

LEMMA NewCall ==
    ASSUME NEW in, NEW ns, Len(ns) \in Nat,
           NEW l \in Labels \ (Owners \cup {"operators", "operand", "rhs"})
    PROVE  /\ CallOK(in, Call(l), ns) /\ Call(l).at = l /\ Call(l).level = 1
           /\ Call(l).node = 0 /\ Call(l).list = <<>>
<1>1. <<>> \in Seq(Int) /\ <<>> \in Seq(1 .. Len(ns)) /\ <<>> \in Seq(0 .. Len(in))
  BY EmptyList
<1>2. 0 \in Nat /\ 0 \in Int /\ 1 \in 1 .. Shift
  BY DEF Shift
<1>3. Call(l) = [at |-> l, node |-> 0, level |-> 1, list |-> <<>>, from |-> 0]
  BY DEF Call
<1>4. CallOK(in, Call(l), ns)
  BY <1>1, <1>2, <1>3, CallIs, ZenonT(60)
<1> QED
  BY <1>3, <1>4

(* The call that goes on with the node d.                                  *)
Owner(l, d) == [Call(l) EXCEPT !.node = d]

LEMMA OwnerCall ==
    ASSUME NEW in, NEW ns, Len(ns) \in Nat,
           NEW l \in Owners \cup {"stmts"},
           NEW d \in 1 .. Len(ns), ns[d].kind # "binary"
    PROVE  CallOK(in, Owner(l, d), ns) /\ Owner(l, d).at = l /\ Owner(l, d).node = d
<1> DEFINE c == Owner(l, d)
<1>1. <<>> \in Seq(Int) /\ <<>> \in Seq(1 .. Len(ns)) /\ <<>> \in Seq(0 .. Len(in))
  BY EmptyList
<1>2. 0 \in Int /\ 1 \in 1 .. Shift /\ l \in Labels /\ d \in Nat /\ d # 0
  BY DEF Shift, Labels, Owners
<1>3. c = [at |-> l, node |-> d, level |-> 1, list |-> <<>>, from |-> 0]
  BY DEF Call, Owner
<1> HIDE DEF c
<1>4. l \notin {"operators", "operand", "rhs"}
  BY DEF Owners
<1>5. CallOK(in, c, ns)
  BY <1>1, <1>2, <1>3, <1>4, CallIs
<1>6. c.at = l /\ c.node = d
  BY <1>3
<1> QED
  BY <1>5, <1>6 DEF c

LEMMA CompleteCall ==
    ASSUME NEW in, NEW ns, Len(ns) \in Nat,
           NEW d \in 1 .. Len(ns), ns[d].kind # "binary",
           NEW kids \in Seq(1 .. Len(ns))
    PROVE  /\ CallOK(in, Complete(d, kids), ns)
           /\ Complete(d, kids).at = "complete"
<1>1. kids \in Seq(Int) /\ "complete" \in Labels /\ d \in Nat /\ d # 0
  BY IntSeq DEF Labels
<1>2. 0 \in Int /\ 1 \in 1 .. Shift
  BY DEF Shift
<1>3. Complete(d, kids) = [at |-> "complete", node |-> d, level |-> 1, list |-> kids, from |-> 0]
  <2> DEFINE e == [Call("complete") EXCEPT !.node = d]
  <2>1. e = [at |-> "complete", node |-> d, level |-> 1, list |-> <<>>, from |-> 0]
    BY DEF Call
  <2>2. Complete(d, kids) = [e EXCEPT !.list = kids]
    BY DEF Complete
  <2> HIDE DEF e
  <2> QED
    BY <2>1, <2>2
<1>4. "complete" \notin TokenLists
  BY DEF TokenLists
<1>5. CallOK(in, Complete(d, kids), ns)
  BY <1>1, <1>2, <1>3, <1>4, CallIs
<1> QED
  BY <1>3, <1>5

-----------------------------------------------------------------------------
(* Types.                                                                  *)

(* The innermost call.                                                     *)
LEMMA Innermost ==
    ASSUME Typed, NEW l, Running(l)
    PROVE  /\ calls # <<>> /\ outcome = "run" /\ This.at = l /\ This = calls[1]
           /\ calls \in Seq(CallType) /\ This \in CallType /\ CallOK(input, This, nodes)
           /\ Len(calls) \in Nat /\ Len(calls) >= 1
           /\ DOMAIN calls = 1 .. Len(calls)
           /\ Len(nodes) \in Nat /\ n \in Nat /\ NewId = Len(nodes) + 1
           /\ ret \in 0 .. Len(nodes) /\ scope \in 0 .. Len(nodes)
           /\ l \in Waiting => ret \in 1 .. Len(nodes)
<1>1. calls # <<>> /\ outcome = "run" /\ This.at = l
  BY DEF Running
<1>2. calls \in Seq(CallType) /\ nodes \in Seq(NodeType(Len(nodes))) /\ input \in Seq(Token)
  BY DEF Typed, CallsOK
<1>3. This = calls[1] /\ Len(calls) \in Nat /\ Len(calls) >= 1 /\ This \in CallType
  BY <1>1, <1>2, Replaced DEF This
<1>4. DOMAIN calls = 1 .. Len(calls) /\ Len(nodes) \in Nat /\ n \in Nat
  BY <1>2, LenProperties, Length
<1>5. CallOK(input, This, nodes)
  <2>1. 1 \in DOMAIN calls
    BY <1>3, <1>4
  <2> QED
    BY <1>3, <2>1 DEF Typed, CallsOK
<1>6. ret \in 0 .. Len(nodes) /\ scope \in 0 .. Len(nodes) /\ (l \in Waiting => ret # 0)
  BY <1>1 DEF Typed
<1> QED
  BY <1>1, <1>2, <1>3, <1>4, <1>5, <1>6 DEF NewId

(* The part of a step that is not about the calls.                         *)
LEMMA AllTyped ==
    ASSUME Typed, UNCHANGED input, decls' \in Seq(1 .. Len(nodes')),
           outcome' \in {"run", "done", "abort", "undefined"},
           window' \in WindowType, Extends(nodes, nodes'), CallsOK',
           ret' \in 0 .. Len(nodes'), scope' \in 0 .. Len(nodes'), reported' \in BOOLEAN,
           calls' # <<>> => ret' # 0 \/ This'.at \notin Waiting
    PROVE  Typed'
<1>1. n' = n
  BY DEF n
<1>2. WindowType' = WindowType
  BY <1>1 DEF WindowType
<1>3. nodes' \in Seq(NodeType(Len(nodes)))'
  BY <1>1 DEF Extends, NodeType
<1> QED
  BY <1>2, <1>3 DEF Typed, This

LEMMA RestTyped ==
    ASSUME Typed, UNCHANGED <<input, decls>>,
           outcome' \in {"run", "done", "abort", "undefined"},
           window' \in WindowType, Extends(nodes, nodes'), CallsOK',
           ret' \in 0 .. Len(nodes'), scope' \in 0 .. Len(nodes'), reported' \in BOOLEAN,
           calls' # <<>> => ret' # 0 \/ This'.at \notin Waiting
    PROVE  Typed'
<1>1. decls' \in Seq(1 .. Len(nodes'))
  <2>1. Len(nodes) \in Nat /\ Len(nodes') \in Nat /\ Len(nodes) <= Len(nodes')
    BY LenProperties DEF Extends, Typed
  <2> QED
    BY <2>1, BelowGrows DEF Typed
<1> QED
  BY <1>1, AllTyped

(* What keeps a block.                                                     *)
SameBlock(c, d) == IsBlock(c) \/ IsBlock(d) => IsBlock(c) /\ IsBlock(d) /\ c.node = d.node

(* A statement begins.                                                     *)
Starts(a, b) == a.at = "stmt" /\ b.from = Eaten /\ Current # "end" /\ window' = Look

(* A step that leaves the scope and the blocks.                            *)
Quiet ==
    /\ scope' = scope /\ outcome' = outcome
    /\ \/ calls' = calls
       \/ Pops /\ ~IsBlock(This)
       \/ \E a \in CallType : Puts(a) /\ SameBlock(a, This) /\ a.at # "stmt_done"
       \/ \E a, b \in CallType :
            /\ Calls(a, b) /\ ~IsBlock(a) /\ SameBlock(b, This)
            /\ a.at # "stmt_done" /\ (b.at = "stmt_done" => Starts(a, b))

(* A step outside of expressions.                                          *)
ExprLabels == Operands \cup Primaries \cup Infixes

CallsPlain ==
    /\ calls # <<>> /\ This.at \notin ExprLabels
    /\ \/ calls' = calls
       \/ Pops
       \/ \E a \in CallType : Puts(a) /\ a.at \notin ExprLabels
       \/ \E a, b \in CallType : /\ Calls(a, b) /\ b.at \notin ExprLabels
                                 /\ a.at \notin {"lhs", "postfix", "operators", "rhs"}

LEMMA SameStep ==
    ASSUME Typed, NEW l, Running(l), Keep, scope' = scope, calls' = calls,
           window' \in WindowType, Extends(nodes, nodes'),
           ret' \in 0 .. Len(nodes'), ret' # 0 \/ l \notin Waiting, reported' \in BOOLEAN
    PROVE  Typed' /\ Quiet /\ (l \notin ExprLabels => CallsPlain)
<1>1. UNCHANGED <<input, outcome, decls>> /\ scope' \in 0 .. Len(nodes')
  <2>1. Len(nodes) \in Nat /\ Len(nodes') \in Nat /\ Len(nodes) <= Len(nodes')
    BY LenProperties DEF Extends, Typed
  <2> QED
    BY <2>1 DEF Keep, Typed
<1>2. CallsOK'
  BY <1>1, CallsSame
<1>3. Typed'
  BY <1>1, <1>2, RestTyped DEF Typed, Running, This
<1>4. Quiet /\ (l \notin ExprLabels => CallsPlain)
  BY <1>1 DEF Quiet, CallsPlain, Running
<1> QED
  BY <1>3, <1>4

LEMMA PopStep ==
    ASSUME Typed, NEW l, Running(l), Keep, scope' = scope, Pops, ~IsBlock(This),
           window' \in WindowType, Extends(nodes, nodes'),
           ret' \in 1 .. Len(nodes'), reported' \in BOOLEAN
    PROVE  Typed' /\ Quiet /\ (l \notin ExprLabels => CallsPlain)
<1>1. UNCHANGED <<input, outcome, decls>> /\ scope' \in 0 .. Len(nodes')
  <2>1. Len(nodes) \in Nat /\ Len(nodes') \in Nat /\ Len(nodes) <= Len(nodes')
    BY LenProperties DEF Extends, Typed
  <2> QED
    BY <2>1 DEF Keep, Typed
<1>2. CallsOK'
  BY <1>1, CallsPop
<1>3. ret' \in 0 .. Len(nodes') /\ ret' # 0
  <2>1. Len(nodes') \in Nat
    BY LenProperties DEF Extends
  <2> QED
    BY <2>1
<1>4. Typed'
  BY <1>1, <1>2, <1>3, RestTyped DEF Typed
<1>5. Quiet /\ (l \notin ExprLabels => CallsPlain)
  BY <1>1 DEF Quiet, CallsPlain, Running
<1> QED
  BY <1>4, <1>5

LEMMA PutStep ==
    ASSUME Typed, NEW l, Running(l), Keep, scope' = scope, NEW a, Puts(a),
           CallOK(input, a, nodes'), SameBlock(a, This),
           a.at \notin {"gather", "stmt_done"}, a.at \in ListLabels => a.node # 0 \/ AtBottom,
           window' \in WindowType, Extends(nodes, nodes'),
           ret' \in 0 .. Len(nodes'), ret' # 0 \/ a.at \notin Waiting, reported' \in BOOLEAN
    PROVE  Typed' /\ Quiet /\ ({l, a.at} \cap ExprLabels = {} => CallsPlain)
<1>1. UNCHANGED <<input, outcome, decls>> /\ scope' \in 0 .. Len(nodes')
  <2>1. Len(nodes) \in Nat /\ Len(nodes') \in Nat /\ Len(nodes) <= Len(nodes')
    BY LenProperties DEF Extends, Typed
  <2> QED
    BY <2>1 DEF Keep, Typed
<1>2. CallsOK' /\ This' = a
  BY <1>1, CallsPut
<1>3. Typed'
  BY <1>1, <1>2, RestTyped DEF Typed
<1>4. Quiet
  <2>1. a \in CallType
    BY DEF CallOK
  <2> QED
    BY <1>1, <2>1 DEF Quiet
<1>5. ASSUME {l, a.at} \cap ExprLabels = {} PROVE CallsPlain
  <2>1. a \in CallType /\ This.at \notin ExprLabels /\ a.at \notin ExprLabels
    BY <1>5 DEF CallOK, Running
  <2> QED
    BY <2>1 DEF CallsPlain, Running
<1> QED
  BY <1>3, <1>4, <1>5

LEMMA CallStep ==
    ASSUME Typed, NEW l, Running(l), Keep, scope' = scope, NEW a, NEW b, Calls(a, b),
           CallOK(input, a, nodes'), CallOK(input, b, nodes'), SameBlock(b, This),
           a.at \notin ListLabels, a.at \notin Waiting, b.at \in Waiting,
           a.at = "gather" => AtBottom /\ b.at = "run",
           b.at \in ListLabels => b.node # 0 \/ AtBottom,
           b.at = "stmt_done" => Starts(a, b),
           window' \in WindowType, Extends(nodes, nodes'),
           ret' \in 0 .. Len(nodes'), reported' \in BOOLEAN
    PROVE  /\ Typed' /\ Quiet
           /\ {l, b.at} \cap ExprLabels = {}
                /\ a.at \notin {"lhs", "postfix", "operators", "rhs"} => CallsPlain
<1>1. UNCHANGED <<input, outcome, decls>> /\ scope' \in 0 .. Len(nodes')
  <2>1. Len(nodes) \in Nat /\ Len(nodes') \in Nat /\ Len(nodes) <= Len(nodes')
    BY LenProperties DEF Extends, Typed
  <2> QED
    BY <2>1 DEF Keep, Typed
<1>2. CallsOK' /\ This' = a
  BY <1>1, CallsTwo
<1>3. Typed'
  BY <1>1, <1>2, RestTyped DEF Typed
<1>4. Quiet
  <2>1. a \in CallType /\ b \in CallType /\ ~IsBlock(a) /\ a.at # "stmt_done"
    BY DEF CallOK, IsBlock, ListLabels
  <2> QED
    BY <1>1, <2>1 DEF Quiet
<1>5. ASSUME {l, b.at} \cap ExprLabels = {}, a.at \notin {"lhs", "postfix", "operators", "rhs"}
      PROVE  CallsPlain
  <2>1. a \in CallType /\ b \in CallType /\ This.at \notin ExprLabels /\ b.at \notin ExprLabels
    BY <1>5 DEF CallOK, Running
  <2> QED
    BY <1>5, <2>1 DEF CallsPlain, Running
<1> QED
  BY <1>3, <1>4, <1>5

(* A step that stops.                                                      *)
LEMMA StopStep ==
    ASSUME Typed, NEW how \in {"abort", "undefined"}, Stop(how)
    PROVE  Typed' /\ UNCHANGED <<input, window, calls, ret, nodes, scope, reported, decls>>
<1>1. UNCHANGED <<input, window, calls, ret, nodes, scope, reported, decls>>
      /\ outcome' \in {"run", "done", "abort", "undefined"}
  BY DEF Stop
<1>2. Extends(nodes, nodes')
  BY <1>1, ExtendsSelf DEF Typed
<1>3. CallsOK'
  BY <1>1, <1>2, CallsSame
<1>4. Typed'
  BY <1>1, <1>2, <1>3, RestTyped DEF Typed, This
<1> QED
  BY <1>1, <1>4

(* Reporting, or not.                                                      *)
LEMMA Reports ==
    ASSUME Typed, NEW if, Report(if)
    PROVE  reported' \in BOOLEAN /\ (reported => reported') /\ (if => reported')
  BY DEF Report, Typed

-----------------------------------------------------------------------------
(* What the actions do to the nodes.                                       *)

(* No infix operation is new, and no error, unless that may be.            *)
PlainNodes(ns, ns2, mayFail) ==
    \A id \in 1 .. Len(ns2) :
        /\ ns2[id].kind = "error" => \/ mayFail
                                     \/ id \in 1 .. Len(ns) /\ ns[id].kind = "error"
        /\ ns2[id].kind = "binary" => id \in 1 .. Len(ns)

LEMMA NodeIs ==
    ASSUME NEW m \in Nat, NEW k \in NodeKinds, NEW ts \in Seq(0 .. n), NEW ks \in Seq(1 .. m)
    PROVE  /\ Node(k, ts, ks) \in NodeType(m)
           /\ Node(k, ts, ks).kind = k /\ Node(k, ts, ks).toks = ts /\ Node(k, ts, ks).kids = ks
<1>1. Node(k, ts, ks) = [kind |-> k, toks |-> ts, kids |-> ks, decls |-> <<>>, outer |-> 0]
  BY DEF Node
<1>2. <<>> \in Seq(1 .. m) /\ 0 \in 0 .. m
  BY EmptyList
<1> QED
  BY <1>1, <1>2 DEF NodeType

(* A leaf of some kind.                                                    *)
LEMMA LeafIs ==
    ASSUME NEW m \in Nat, NEW k \in NodeKinds, NEW ts \in Seq(0 .. n)
    PROVE  /\ Node(k, ts, <<>>) \in NodeType(m)
           /\ Node(k, ts, <<>>).kind = k
<1> DEFINE ks == <<>>
<1>1. ks \in Seq(1 .. m)
  BY EmptyList
<1> HIDE DEF ks
<1>2. Node(k, ts, ks) \in NodeType(m) /\ Node(k, ts, ks).kind = k
  BY <1>1, NodeIs
<1> QED
  BY <1>2 DEF ks

LEMMA ErrorIs ==
    ASSUME NEW m \in Nat
    PROVE  ErrorNode \in NodeType(m) /\ ErrorNode.kind = "error"
<1>1. <<>> \in Seq(0 .. n) /\ "error" \in NodeKinds
  BY EmptyList DEF NodeKinds
<1> QED
  BY <1>1, LeafIs DEF ErrorNode

(* The nodes stay.                                                         *)
LEMMA NodesStay ==
    ASSUME Typed, UNCHANGED nodes
    PROVE  /\ Extends(nodes, nodes') /\ PlainNodes(nodes, nodes', FALSE)
           /\ Len(nodes') = Len(nodes) /\ Len(nodes) \in Nat
<1>1. Len(nodes) \in Nat /\ nodes \in Seq(NodeType(Len(nodes)))
  BY LenProperties DEF Typed
<1> QED
  BY <1>1, ExtendsSelf DEF PlainNodes

(* There is one more.                                                      *)
LEMMA NodeAdded ==
    ASSUME NEW ns, ns \in Seq(NodeType(Len(ns))), NEW u \in NodeType(Len(ns) + 1),
           u.kind # "binary"
    PROVE  LET ns2 == Append(ns, u)
           IN  /\ Extends(ns, ns2)
               /\ PlainNodes(ns, ns2, u.kind = "error")
               /\ Len(ns2) = Len(ns) + 1 /\ Len(ns) \in Nat
               /\ ns2[Len(ns) + 1] = u
               /\ \A id \in 1 .. Len(ns) : ns2[id] = ns[id]
<1> DEFINE ns2 == Append(ns, u)
<1>1. Extends(ns, ns2) /\ Len(ns2) = Len(ns) + 1 /\ ns2[Len(ns) + 1] = u
      /\ (\A id \in 1 .. Len(ns) : ns2[id] = ns[id])
  BY ExtendsNew
<1>2. Len(ns) \in Nat
  BY LenProperties
<1> HIDE DEF ns2
<1>3. PlainNodes(ns, ns2, u.kind = "error")
  <2>1. ASSUME NEW id \in 1 .. Len(ns2)
        PROVE  \/ id \in 1 .. Len(ns) /\ ns2[id] = ns[id]
               \/ ns2[id] = u
    <3>1. id \in 1 .. Len(ns) \/ id = Len(ns) + 1
      BY <1>1, <1>2
    <3> QED
      BY <1>1, <3>1
  <2> QED
    BY <2>1 DEF PlainNodes
<1> QED
  BY <1>1, <1>2, <1>3 DEF ns2

(* One changes, but neither its kind nor the block around it.              *)
LEMMA NodeChanged ==
    ASSUME NEW ns, ns \in Seq(NodeType(Len(ns))), NEW d \in 1 .. Len(ns),
           ns[d].kind # "binary",
           NEW u \in NodeType(Len(ns)), u.kind = ns[d].kind, u.outer = ns[d].outer
    PROVE  LET ns2 == [ns EXCEPT ![d] = u]
           IN  /\ Extends(ns, ns2)
               /\ PlainNodes(ns, ns2, FALSE)
               /\ Len(ns2) = Len(ns) /\ Len(ns) \in Nat
               /\ ns2[d] = u
               /\ \A id \in 1 .. Len(ns) : id # d => ns2[id] = ns[id]
<1> DEFINE ns2 == [ns EXCEPT ![d] = u]
<1>1. Extends(ns, ns2) /\ Len(ns2) = Len(ns) /\ ns2[d] = u
      /\ (\A id \in 1 .. Len(ns) : id # d => ns2[id] = ns[id])
  BY ExtendsSet
<1>2. Len(ns) \in Nat
  BY LenProperties
<1> HIDE DEF ns2
<1>3. PlainNodes(ns, ns2, FALSE)
  BY <1>1, <1>2 DEF PlainNodes
<1> QED
  BY <1>1, <1>2, <1>3 DEF ns2

LEMMA KidsSet ==
    ASSUME NEW ns, ns \in Seq(NodeType(Len(ns))), NEW d \in 1 .. Len(ns),
           ns[d].kind # "binary", NEW ks \in Seq(1 .. Len(ns))
    PROVE  LET ns2 == [ns EXCEPT ![d].kids = ks]
           IN  /\ Extends(ns, ns2) /\ PlainNodes(ns, ns2, FALSE) /\ Len(ns2) = Len(ns)
               /\ Len(ns) \in Nat /\ ns2[d].kind # "binary"
<1> DEFINE u == [ns[d] EXCEPT !.kids = ks]
<1>1. /\ ns[d] = [kind |-> ns[d].kind, toks |-> ns[d].toks, kids |-> ns[d].kids,
                  decls |-> ns[d].decls, outer |-> ns[d].outer]
      /\ ns[d].kind \in NodeKinds /\ ns[d].toks \in Seq(0 .. n)
      /\ ns[d].decls \in Seq(1 .. Len(ns)) /\ ns[d].outer \in 0 .. Len(ns)
  BY NodeFields
<1>2. u = [kind |-> ns[d].kind, toks |-> ns[d].toks, kids |-> ks,
           decls |-> ns[d].decls, outer |-> ns[d].outer]
  BY <1>1
<1>3. u \in NodeType(Len(ns)) /\ u.kind = ns[d].kind /\ u.outer = ns[d].outer
  <2> HIDE DEF u
  <2> QED
    BY <1>1, <1>2 DEF NodeType
<1>4. [ns EXCEPT ![d].kids = ks] = [ns EXCEPT ![d] = u]
  OBVIOUS
<1> HIDE DEF u
<1> DEFINE ns2 == [ns EXCEPT ![d] = u]
<1>5. Extends(ns, ns2)
  BY <1>3, NodeChanged
<1>6. PlainNodes(ns, ns2, FALSE)
  BY <1>3, NodeChanged
<1>7. Len(ns2) = Len(ns) /\ Len(ns) \in Nat /\ ns2[d] = u
  BY <1>3, NodeChanged
<1> HIDE DEF ns2
<1> QED
  BY <1>3, <1>4, <1>5, <1>6, <1>7 DEF ns2

LEMMA ToksSet ==
    ASSUME NEW ns, ns \in Seq(NodeType(Len(ns))), NEW d \in 1 .. Len(ns),
           ns[d].kind # "binary", NEW ts \in Seq(0 .. n)
    PROVE  LET ns2 == [ns EXCEPT ![d].toks = ts]
           IN  /\ Extends(ns, ns2) /\ PlainNodes(ns, ns2, FALSE) /\ Len(ns2) = Len(ns)
               /\ Len(ns) \in Nat /\ ns2[d].kind # "binary"
<1> DEFINE u == [ns[d] EXCEPT !.toks = ts]
<1>1. /\ ns[d] = [kind |-> ns[d].kind, toks |-> ns[d].toks, kids |-> ns[d].kids,
                  decls |-> ns[d].decls, outer |-> ns[d].outer]
      /\ ns[d].kind \in NodeKinds /\ ns[d].kids \in Seq(1 .. Len(ns))
      /\ ns[d].decls \in Seq(1 .. Len(ns)) /\ ns[d].outer \in 0 .. Len(ns)
  BY NodeFields
<1>2. u = [kind |-> ns[d].kind, toks |-> ts, kids |-> ns[d].kids,
           decls |-> ns[d].decls, outer |-> ns[d].outer]
  BY <1>1
<1>3. u \in NodeType(Len(ns)) /\ u.kind = ns[d].kind /\ u.outer = ns[d].outer
  <2> HIDE DEF u
  <2> QED
    BY <1>1, <1>2 DEF NodeType
<1>4. [ns EXCEPT ![d].toks = ts] = [ns EXCEPT ![d] = u]
  OBVIOUS
<1> HIDE DEF u
<1> DEFINE ns2 == [ns EXCEPT ![d] = u]
<1>5. Extends(ns, ns2)
  BY <1>3, NodeChanged
<1>6. PlainNodes(ns, ns2, FALSE)
  BY <1>3, NodeChanged
<1>7. Len(ns2) = Len(ns) /\ Len(ns) \in Nat /\ ns2[d] = u
  BY <1>3, NodeChanged
<1> HIDE DEF ns2
<1> QED
  BY <1>3, <1>4, <1>5, <1>6, <1>7 DEF ns2

(* A declaration is added to those of its block.                           *)
LEMMA DeclSet ==
    ASSUME NEW ns, ns \in Seq(NodeType(Len(ns))), NEW d \in 1 .. Len(ns),
           NEW id \in 1 .. Len(ns)
    PROVE  LET ns2 == [ns EXCEPT ![d].decls = <<id>> \o @]
           IN  /\ Extends(ns, ns2)
               /\ Len(ns2) = Len(ns)
               /\ \A i \in 1 .. Len(ns) : ns2[i].kind = ns[i].kind
<1> DEFINE ds == <<id>> \o ns[d].decls
           u == [ns[d] EXCEPT !.decls = ds]
<1>1. /\ ns[d] = [kind |-> ns[d].kind, toks |-> ns[d].toks, kids |-> ns[d].kids,
                  decls |-> ns[d].decls, outer |-> ns[d].outer]
      /\ ns[d].kind \in NodeKinds /\ ns[d].kids \in Seq(1 .. Len(ns))
      /\ ns[d].toks \in Seq(0 .. n)
      /\ ns[d].decls \in Seq(1 .. Len(ns)) /\ ns[d].outer \in 0 .. Len(ns)
  BY NodeFields
<1>2. ds \in Seq(1 .. Len(ns))
  <2>1. <<id>> \in Seq(1 .. Len(ns))
    OBVIOUS
  <2> QED
    BY <1>1, <2>1, ConcatProperties
<1>3. u = [kind |-> ns[d].kind, toks |-> ns[d].toks, kids |-> ns[d].kids,
           decls |-> ds, outer |-> ns[d].outer]
  <2> HIDE DEF ds
  <2> QED
    BY <1>1
<1>4. /\ u \in NodeType(Len(ns)) /\ u.kind = ns[d].kind /\ u.outer = ns[d].outer
      /\ u.kids = ns[d].kids /\ u.toks = ns[d].toks
  <2> HIDE DEF ds, u
  <2> QED
    BY <1>1, <1>2, <1>3 DEF NodeType
<1>5. [ns EXCEPT ![d].decls = <<id>> \o @] = [ns EXCEPT ![d] = u]
  OBVIOUS
<1> HIDE DEF u
<1> DEFINE ns2 == [ns EXCEPT ![d] = u]
<1>6. Extends(ns, ns2)
  BY <1>4, ExtendsSet
<1>7. Len(ns2) = Len(ns) /\ ns2[d] = u
  BY <1>4, ExtendsSet
<1>8. \A i \in 1 .. Len(ns) : i # d => ns2[i] = ns[i]
  BY <1>4, ExtendsSet
<1> HIDE DEF ns2
<1>9. \A i \in 1 .. Len(ns) : ns2[i].kind = ns[i].kind
  BY <1>4, <1>7, <1>8
<1> QED
  BY <1>5, <1>6, <1>7, <1>9 DEF ns2

LEMMA PlainTwice ==
    ASSUME NEW a, NEW b, NEW c, NEW p \in BOOLEAN, NEW q \in BOOLEAN,
           Len(a) \in Nat, Len(b) \in Nat, Len(c) \in Nat,
           Len(a) <= Len(b), Len(b) <= Len(c),
           PlainNodes(a, b, p), PlainNodes(b, c, q), Extends(b, c)
    PROVE  PlainNodes(a, c, p \/ q)
<1> SUFFICES ASSUME NEW id \in 1 .. Len(c)
             PROVE  /\ c[id].kind = "error" => \/ p \/ q
                                               \/ id \in 1 .. Len(a) /\ a[id].kind = "error"
                    /\ c[id].kind = "binary" => id \in 1 .. Len(a)
  BY DEF PlainNodes
<1>1. ASSUME c[id].kind = "error", ~p, ~q
      PROVE  id \in 1 .. Len(a) /\ a[id].kind = "error"
  <2>1. id \in 1 .. Len(b) /\ b[id].kind = "error"
    BY <1>1 DEF PlainNodes
  <2> QED
    BY <1>1, <2>1 DEF PlainNodes
<1>2. ASSUME c[id].kind = "binary"
      PROVE  id \in 1 .. Len(a)
  <2>1. id \in 1 .. Len(b)
    BY <1>2 DEF PlainNodes
  <2>2. b[id].kind = "binary"
    BY <1>2, <2>1 DEF Extends
  <2> QED
    BY <2>1, <2>2 DEF PlainNodes
<1> QED
  BY <1>1, <1>2

(* The windows in the declarations.                                        *)
LEMMA DeclWindows ==
    ASSUME Typed
    PROVE  /\ input \in Seq(Token) /\ window \in WindowType /\ n \in Nat
           /\ Look \in WindowType /\ Take(window) \in WindowType
           /\ AfterKeyword \in WindowType /\ AfterName \in WindowType
           /\ Name \in 0 .. n
<1>1. input \in Seq(Token) /\ window \in WindowType
  BY DEF Typed
<1>2. Look \in WindowType /\ Take(window) \in WindowType /\ AfterKeyword \in WindowType
  BY <1>1, PeekType, TakeType DEF Look, AfterKeyword
<1>3. AfterName \in WindowType
  BY <1>1, <1>2, PeekType, TakeType DEF AfterName
<1>4. n \in Nat
  BY <1>1, Length
<1>5. Name \in 0 .. n
  <2>1. CASE NameMissing
    BY <1>4, <2>1 DEF Name
  <2>2. CASE ~NameMissing
    <3>1. Kind(AfterKeyword) = "name"
      BY <2>2 DEF NameMissing
    <3>2. TokenAt(AfterKeyword, n) \in 1 .. n
      BY <1>1, <1>2, <3>1, KindIs
    <3> QED
      BY <1>4, <2>2, <3>2 DEF Name
  <2> QED
    BY <2>1, <2>2
<1> QED
  BY <1>1, <1>2, <1>3, <1>4, <1>5

(* A new declaration.                                                      *)
LEMMA DeclaredNodes ==
    ASSUME Typed, NEW k \in DeclKinds
    PROVE  /\ Extends(nodes, Declared(k))
           /\ PlainNodes(nodes, Declared(k), FALSE)
           /\ Len(Declared(k)) = Len(nodes) + 1 /\ Len(nodes) \in Nat
           /\ Declared(k)[NewId].kind = k
<1> DEFINE u == Node(k, <<Name>>, <<>>)
           all == Append(nodes, u)
<1>1. nodes \in Seq(NodeType(Len(nodes))) /\ Len(nodes) \in Nat /\ k \in NodeKinds /\ k # "binary"
      /\ k # "error"
  BY LenProperties DEF Typed, DeclKinds, NodeKinds
<1>2. <<Name>> \in Seq(0 .. n)
  BY DeclWindows
<1>3. u \in NodeType(Len(nodes) + 1) /\ u.kind = k
  <2> DEFINE m == Len(nodes) + 1
             ts == <<Name>>
  <2>1. m \in Nat /\ ts \in Seq(0 .. n)
    BY <1>1, <1>2
  <2> HIDE DEF m, ts
  <2>2. Node(k, ts, <<>>) \in NodeType(m) /\ Node(k, ts, <<>>).kind = k
    BY <1>1, <2>1, LeafIs
  <2> QED
    BY <2>2 DEF m, ts
<1> HIDE DEF u
<1>4. /\ Extends(nodes, all) /\ PlainNodes(nodes, all, u.kind = "error")
      /\ Len(all) = Len(nodes) + 1 /\ all[Len(nodes) + 1] = u
  BY <1>1, <1>3, NodeAdded
<1>5. PlainNodes(nodes, all, FALSE)
  BY <1>1, <1>3, <1>4 DEF PlainNodes
<1>6. New(k, <<Name>>, <<>>) = all
  BY DEF New, u
<1> HIDE DEF all
<1>7. CASE scope = 0
  <2>1. Declared(k) = all
    BY <1>6, <1>7 DEF Declared
  <2> QED
    BY <1>1, <1>3, <1>4, <1>5, <2>1 DEF NewId
<1>8. CASE scope # 0
  <2> DEFINE ns2 == [all EXCEPT ![scope].decls = <<NewId>> \o @]
  <2>1. Declared(k) = ns2
    BY <1>6, <1>8 DEF Declared
  <2>2. scope \in 1 .. Len(all) /\ NewId \in 1 .. Len(all) /\ all \in Seq(NodeType(Len(all)))
    BY <1>1, <1>4, <1>8 DEF Typed, NewId, Extends
  <2>3. Extends(all, ns2)
    BY <2>2, DeclSet
  <2>4. Len(ns2) = Len(all)
    BY <2>2, DeclSet
  <2>5. \A i \in 1 .. Len(all) : ns2[i].kind = all[i].kind
    BY <2>2, DeclSet
  <2> HIDE DEF ns2
  <2>6. Extends(nodes, ns2)
    BY <1>1, <1>4, <2>3, ExtendsTwice
  <2>7. PlainNodes(nodes, ns2, FALSE)
    BY <1>5, <2>4, <2>5 DEF PlainNodes
  <2>8. ns2[NewId].kind = k
    BY <1>3, <1>4, <2>2, <2>5 DEF NewId
  <2> QED
    BY <1>1, <1>4, <2>1, <2>4, <2>6, <2>7, <2>8
<1> QED
  BY <1>7, <1>8

(* What a step does to the rest of the parser.                             *)
Changes ==
    /\ Extends(nodes, nodes') /\ PlainNodes(nodes, nodes', reported')
    /\ reported => reported'
    /\ Quiet

(* Returning a node that is new.                                           *)
LEMMA NewReturn ==
    ASSUME Typed, NEW l, Running(l), l \notin ListLabels, Keep, scope' = scope,
           NEW u \in NodeType(Len(nodes) + 1), u.kind # "binary",
           u.kind = "error" => reported',
           nodes' = Append(nodes, u), Return(NewId),
           reported' \in BOOLEAN, reported => reported', window' \in WindowType
    PROVE  /\ Typed' /\ Changes /\ (l \notin ExprLabels => CallsPlain)
           /\ nodes'[ret'] = u /\ ret' = NewId
<1>1. /\ Len(nodes) \in Nat /\ NewId = Len(nodes) + 1 /\ calls # <<>> /\ This.at = l
      /\ nodes \in Seq(NodeType(Len(nodes)))
  BY Innermost DEF Typed
<1>2. /\ Extends(nodes, nodes') /\ PlainNodes(nodes, nodes', u.kind = "error")
      /\ Len(nodes') = Len(nodes) + 1 /\ nodes'[Len(nodes) + 1] = u
  BY <1>1, NodeAdded
<1>3. PlainNodes(nodes, nodes', reported')
  BY <1>2 DEF PlainNodes
<1>4. ret' = NewId /\ ret' \in 1 .. Len(nodes') /\ Pops /\ ~IsBlock(This)
  BY <1>1, <1>2 DEF Return, Pops, IsBlock
<1>5. Typed' /\ Quiet /\ (l \notin ExprLabels => CallsPlain)
  BY <1>2, <1>4, PopStep
<1> QED
  BY <1>1, <1>2, <1>3, <1>4, <1>5 DEF Changes

(* Returning an error.                                                     *)
LEMMA ErrorReturn ==
    ASSUME Typed, NEW l, Running(l), l \notin ListLabels, Keep, scope' = scope,
           nodes' = Append(nodes, ErrorNode), Return(NewId), reported' = TRUE,
           window' \in WindowType
    PROVE  Typed' /\ Changes /\ (l \notin ExprLabels => CallsPlain)
<1>1. Len(nodes) + 1 \in Nat
  BY Innermost
<1>2. ErrorNode \in NodeType(Len(nodes) + 1) /\ ErrorNode.kind = "error"
  BY <1>1, ErrorIs
<1>3. ErrorNode.kind # "binary"
  BY <1>2
<1> QED
  BY <1>2, <1>3, NewReturn

(* Returning a node that is there.                                         *)
LEMMA Returns ==
    ASSUME Typed, NEW l, Running(l), l \notin ListLabels, Keep, scope' = scope,
           NEW id \in 1 .. Len(nodes'), Return(id),
           Extends(nodes, nodes'), PlainNodes(nodes, nodes', reported'),
           reported' \in BOOLEAN, reported => reported', window' \in WindowType
    PROVE  Typed' /\ Changes /\ (l \notin ExprLabels => CallsPlain)
<1>1. calls # <<>> /\ This.at = l
  BY Innermost
<1>2. ret' \in 1 .. Len(nodes') /\ Pops /\ ~IsBlock(This)
  BY <1>1 DEF Return, Pops, IsBlock
<1>3. Typed' /\ Quiet /\ (l \notin ExprLabels => CallsPlain)
  BY <1>2, PopStep
<1> QED
  BY <1>3 DEF Changes

(* Going on in the same function.                                          *)
LEMMA Becomes ==
    ASSUME Typed, NEW l, Running(l), l \notin ListLabels, Keep, scope' = scope,
           NEW a, CallOK(input, a, nodes'), a.at \notin ListLabels \cup {"gather"},
           Goto(<<a>>), ret' \in 0 .. Len(nodes'), ret' # 0 \/ a.at \notin Waiting,
           Extends(nodes, nodes'), PlainNodes(nodes, nodes', reported'),
           reported' \in BOOLEAN, reported => reported', window' \in WindowType
    PROVE  Typed' /\ Changes /\ ({l, a.at} \cap ExprLabels = {} => CallsPlain)
<1>1. calls # <<>> /\ This.at = l
  BY Innermost
<1>2. Puts(a) /\ SameBlock(a, This)
  BY <1>1 DEF Goto, Puts, SameBlock, IsBlock
<1>3. a.at \notin {"gather", "stmt_done"}
  BY DEF ListLabels
<1>4. Typed' /\ Quiet /\ ({l, a.at} \cap ExprLabels = {} => CallsPlain)
  BY <1>2, <1>3, PutStep
<1> QED
  BY <1>4 DEF Changes

(* Calling a function.                                                     *)
LEMMA Descends ==
    ASSUME Typed, NEW l, Running(l), l \notin ListLabels, Keep, scope' = scope,
           NEW a, CallOK(input, a, nodes'), a.at \in Begins,
           NEW b, CallOK(input, b, nodes'), b.at \in Waiting \ ListLabels,
           Goto(<<a, b>>), ret' \in 0 .. Len(nodes'),
           Extends(nodes, nodes'), PlainNodes(nodes, nodes', reported'),
           reported' \in BOOLEAN, reported => reported', window' \in WindowType
    PROVE  Typed' /\ Changes /\ ({l, b.at} \cap ExprLabels = {} => CallsPlain)
<1>1. calls # <<>> /\ This.at = l
  BY Innermost
<1>2. Calls(a, b) /\ SameBlock(b, This)
  BY <1>1 DEF Goto, Calls, SameBlock, IsBlock
<1>3. /\ a.at \notin ListLabels /\ a.at \notin Waiting /\ a.at # "gather"
      /\ a.at \notin {"lhs", "postfix", "operators", "rhs"} /\ b.at # "stmt_done"
  BY DEF Begins, Keywords, DeclLabels, ListLabels, Waiting
<1>4. Typed' /\ Quiet /\ ({l, b.at} \cap ExprLabels = {} => CallsPlain)
  BY <1>2, <1>3, CallStep
<1> QED
  BY <1>4 DEF Changes

LEMMA Begin ==
    ASSUME NEW in, NEW ns, Len(ns) \in Nat, NEW l \in Begins
    PROVE  CallOK(in, Call(l), ns) /\ Call(l).at = l /\ Call(l).at \in Begins
<1>1. l \in Labels \ (Owners \cup {"operators", "operand", "rhs"})
  BY DEF Begins, Keywords, DeclLabels, Labels, Owners
<1> QED
  BY <1>1, NewCall

LEMMA BeginExpr ==
    ASSUME NEW in, NEW ns, Len(ns) \in Nat
    PROVE  CallOK(in, Expr, ns) /\ Expr.at = "infix" /\ Expr.at \in Begins
<1>1. "infix" \in Begins
  BY DEF Begins
<1> QED
  BY <1>1, Begin DEF Expr

(* The last child comes next.                                              *)
LEMMA CompleteNone ==
    ASSUME NEW in, NEW ns, Len(ns) \in Nat, NEW d \in 1 .. Len(ns), ns[d].kind # "binary"
    PROVE  /\ CallOK(in, Complete(d, <<>>), ns)
           /\ Complete(d, <<>>).at = "complete"
<1> DEFINE e == <<>>
<1>1. e \in Seq(1 .. Len(ns))
  BY EmptyList
<1> HIDE DEF e
<1>2. CallOK(in, Complete(d, e), ns) /\ Complete(d, e).at = "complete"
  BY <1>1, CompleteCall
<1> QED
  BY <1>2 DEF e

LEMMA Labelled ==
    /\ DeclKinds \cap (ListLabels \cup ExprLabels) = {}
    /\ {"params", "param", "complete", "then", "else", "body"}
         \cap (ListLabels \cup ExprLabels \cup {"gather"}) = {}
    /\ {"complete", "then", "else", "body"} \subseteq Waiting
    /\ {"params", "param"} \cap Waiting = {}
  BY DEF DeclKinds, ListLabels, ExprLabels, Operands, Primaries, Infixes, Waiting

LEMMA DeclAtEndTypes ==
    ASSUME Typed, DeclAtEnd
    PROVE  Typed' /\ Changes /\ CallsPlain
<1>1. PICK k \in DeclKinds : Running(k)
  BY DEF DeclAtEnd
<1>2. k \notin ListLabels /\ k \notin ExprLabels
  BY Labelled
<1>3. /\ Keep /\ scope' = scope /\ nodes' = Append(nodes, ErrorNode) /\ Return(NewId)
      /\ reported' = TRUE /\ window' \in WindowType
  BY DeclWindows DEF DeclAtEnd
<1> QED
  BY <1>1, <1>2, <1>3, ErrorReturn

(* What the declaration of a name has in common.                           *)
LEMMA NewDeclaration ==
    ASSUME Typed, NEW k \in DeclKinds, Running(k), nodes' = Declared(k), Report(NameMissing)
    PROVE  /\ Extends(nodes, nodes') /\ PlainNodes(nodes, nodes', reported')
           /\ NewId \in 1 .. Len(nodes') /\ nodes'[NewId].kind # "binary"
           /\ Len(nodes') \in Nat /\ ret \in 0 .. Len(nodes')
           /\ reported' \in BOOLEAN /\ (reported => reported')
           /\ AfterName \in WindowType /\ Take(AfterName) \in WindowType
<1>1. /\ Extends(nodes, nodes') /\ PlainNodes(nodes, nodes', FALSE)
      /\ Len(nodes') = Len(nodes) + 1 /\ Len(nodes) \in Nat /\ nodes'[NewId].kind = k
  BY DeclaredNodes
<1>2. PlainNodes(nodes, nodes', reported')
  BY <1>1 DEF PlainNodes
<1>3. NewId = Len(nodes) + 1 /\ ret \in 0 .. Len(nodes)
  BY Innermost
<1>4. AfterName \in WindowType /\ Take(AfterName) \in WindowType
  BY DeclWindows, TakeType
<1>5. nodes'[NewId].kind # "binary"
  BY <1>1 DEF DeclKinds
<1> QED
  BY <1>1, <1>2, <1>3, <1>4, <1>5, Reports

LEMMA VarWithInitTypes ==
    ASSUME Typed, VarWithInit
    PROVE  Typed' /\ Changes /\ CallsPlain
<1> DEFINE b == Complete(NewId, <<>>)
<1>1. /\ Running("var") /\ Keep /\ scope' = scope /\ ret' = ret /\ "var" \in DeclKinds
      /\ nodes' = Declared("var") /\ window' = Take(AfterName)
      /\ Goto(<<Expr, b>>) /\ Report(NameMissing)
  BY DEF VarWithInit, NameOf, DeclKinds
<1>2. /\ Extends(nodes, nodes') /\ PlainNodes(nodes, nodes', reported')
      /\ NewId \in 1 .. Len(nodes') /\ nodes'[NewId].kind # "binary"
      /\ Len(nodes') \in Nat /\ ret' \in 0 .. Len(nodes')
      /\ reported' \in BOOLEAN /\ (reported => reported') /\ window' \in WindowType
  BY <1>1, NewDeclaration
<1>3. CallOK(input, Expr, nodes') /\ Expr.at \in Begins
  BY <1>2, BeginExpr
<1>4. CallOK(input, b, nodes') /\ b.at = "complete"
  BY <1>2, CompleteNone
<1> HIDE DEF b
<1> QED
  BY <1>1, <1>2, <1>3, <1>4, Labelled, Descends

LEMMA VarWithoutTypes ==
    ASSUME Typed, VarWithout
    PROVE  Typed' /\ Changes /\ CallsPlain
<1>1. /\ Running("var") /\ Keep /\ scope' = scope /\ "var" \in DeclKinds
      /\ nodes' = Declared("var") /\ window' = AfterName /\ Return(NewId)
      /\ Report(NameMissing)
  BY DEF VarWithout, NameOf, DeclKinds
<1>2. /\ Extends(nodes, nodes') /\ PlainNodes(nodes, nodes', reported')
      /\ NewId \in 1 .. Len(nodes')
      /\ reported' \in BOOLEAN /\ (reported => reported') /\ window' \in WindowType
  BY <1>1, NewDeclaration
<1> QED
  BY <1>1, <1>2, Labelled, Returns

LEMMA FunDeclTypes ==
    ASSUME Typed, FunDecl
    PROVE  Typed' /\ Changes /\ CallsPlain
<1> DEFINE a == Owner("params", NewId)
<1>1. /\ Running("fun") /\ Keep /\ scope' = scope /\ ret' = ret /\ "fun" \in DeclKinds
      /\ nodes' = Declared("fun") /\ window' = Take(AfterName) /\ Goto(<<a>>)
      /\ Report(NameMissing)
  BY DEF FunDecl, NameOf, DeclKinds, Owner
<1>2. /\ Extends(nodes, nodes') /\ PlainNodes(nodes, nodes', reported')
      /\ NewId \in 1 .. Len(nodes') /\ nodes'[NewId].kind # "binary"
      /\ Len(nodes') \in Nat /\ ret' \in 0 .. Len(nodes')
      /\ reported' \in BOOLEAN /\ (reported => reported') /\ window' \in WindowType
  BY <1>1, NewDeclaration
<1>3. CallOK(input, a, nodes') /\ a.at = "params"
  <2> DEFINE ns == nodes'
             d == NewId
  <2>1. "params" \in Owners \cup {"stmts"}
    BY DEF Owners
  <2>2. Len(ns) \in Nat /\ d \in 1 .. Len(ns) /\ ns[d].kind # "binary"
    BY <1>2
  <2> HIDE DEF ns, d
  <2>3. CallOK(input, Owner("params", d), ns) /\ Owner("params", d).at = "params"
    BY <2>1, <2>2, OwnerCall
  <2> QED
    BY <2>3 DEF ns, d
<1> HIDE DEF a
<1> QED
  BY <1>1, <1>2, <1>3, Labelled, Becomes

(* The innermost call, elsewhere in its function, and with another list.   *)
At(c, m)        == [c EXCEPT !.at = m]
Listed(c, m, s) == [c EXCEPT !.at = m, !.list = s]

LEMMA Relabelled ==
    ASSUME Typed, NEW l, Running(l), Extends(nodes, nodes'),
           NEW m \in Labels, m \notin {"rhs", "operators", "operand"},
           m \in Owners => l \in Owners,
           m \in NodeLists => l \in NodeLists,
           m \in TokenLists => l \in TokenLists
    PROVE  /\ CallOK(input, At(This, m), nodes')
           /\ At(This, m).at = m /\ At(This, m).node = This.node
           /\ At(This, m).list = This.list /\ At(This, m).level = This.level
<1>1. This \in CallType /\ CallOK(input, This, nodes) /\ This.at = l /\ calls # <<>>
  BY Innermost
<1>2. CallOK(input, This, nodes')
  <2>1. nodes \in Seq(NodeType(Len(nodes)))
    BY DEF Typed
  <2> QED
    BY <1>1, <2>1, CallGrows
<1>3. At(This, m) = [at |-> m, node |-> This.node, level |-> This.level,
                     list |-> This.list, from |-> This.from]
  <2>1. [This EXCEPT !.at = m] = [at |-> m, node |-> This.node, level |-> This.level,
                                  list |-> This.list, from |-> This.from]
    BY <1>1, CallAt
  <2> QED
    BY <2>1 DEF At
<1>4. /\ This.node \in Nat /\ This.level \in 1 .. Shift /\ This.list \in Seq(Int)
      /\ This.from \in Int
  BY <1>1, CallFields
<1>5. Len(nodes') \in Nat
  BY LenProperties DEF Extends
<1>6. CallOK(input, At(This, m), nodes')
  <2>1. /\ This.node # 0 => This.node \in 1 .. Len(nodes') /\ nodes'[This.node].kind # "binary"
        /\ m \in Owners => This.node # 0
        /\ m \in NodeLists => This.list \in Seq(1 .. Len(nodes'))
        /\ m \in TokenLists => This.list \in Seq(0 .. Len(input))
    BY <1>1, <1>2 DEF CallOK
  <2>2. m \notin {"operators", "operand"} /\ m # "rhs"
    OBVIOUS
  <2> QED
    BY <1>3, <1>4, <1>5, <2>1, <2>2, CallIs
<1> QED
  BY <1>3, <1>6

LEMMA Relisted ==
    ASSUME Typed, NEW l, Running(l), Extends(nodes, nodes'),
           NEW m \in Labels, m # "rhs",
           m \in Owners => l \in Owners,
           NEW s \in Seq(Int),
           m \in NodeLists => s \in Seq(1 .. Len(nodes')),
           m \in TokenLists => s \in Seq(0 .. n),
           m \in {"operators", "operand"} => Len(s) = 1
    PROVE  /\ CallOK(input, Listed(This, m, s), nodes')
           /\ Listed(This, m, s).at = m /\ Listed(This, m, s).node = This.node
           /\ Listed(This, m, s).list = s /\ Listed(This, m, s).level = This.level
<1>1. This \in CallType /\ CallOK(input, This, nodes) /\ This.at = l /\ calls # <<>>
  BY Innermost
<1>2. CallOK(input, This, nodes')
  <2>1. nodes \in Seq(NodeType(Len(nodes)))
    BY DEF Typed
  <2> QED
    BY <1>1, <2>1, CallGrows
<1>3. Listed(This, m, s) = [at |-> m, node |-> This.node, level |-> This.level,
                            list |-> s, from |-> This.from]
  <2>1. [This EXCEPT !.at = m, !.list = s]
          = [at |-> m, node |-> This.node, level |-> This.level, list |-> s, from |-> This.from]
    BY <1>1, CallAt
  <2> QED
    BY <2>1 DEF Listed
<1>4. This.node \in Nat /\ This.level \in 1 .. Shift /\ This.from \in Int
  BY <1>1, CallFields
<1>5. Len(nodes') \in Nat /\ n = Len(input)
  BY LenProperties DEF Extends, n
<1>6. CallOK(input, Listed(This, m, s), nodes')
  BY <1>1, <1>2, <1>3, <1>4, <1>5, CallIs, SMTT(30) DEF CallOK
<1> QED
  BY <1>3, <1>6

(* Actions that leave the nodes.                                           *)
LEMMA NodesKept ==
    ASSUME Typed, UNCHANGED <<nodes, ret>>
    PROVE  /\ Extends(nodes, nodes') /\ PlainNodes(nodes, nodes', reported')
           /\ Len(nodes') = Len(nodes) /\ Len(nodes') \in Nat
           /\ ret' \in 0 .. Len(nodes')
<1>1. /\ Extends(nodes, nodes') /\ PlainNodes(nodes, nodes', FALSE)
      /\ Len(nodes') = Len(nodes) /\ Len(nodes) \in Nat
  BY NodesStay
<1>2. PlainNodes(nodes, nodes', reported')
  BY <1>1 DEF PlainNodes
<1> QED
  BY <1>1, <1>2 DEF Typed

LEMMA NextParamTypes ==
    ASSUME Typed, NextParam
    PROVE  Typed' /\ Changes /\ CallsPlain
<1> DEFINE a == At(This, "param")
<1>1. /\ Running("params") /\ Keep /\ scope' = scope /\ UNCHANGED <<nodes, ret>>
      /\ window' = Look /\ Goto(<<a>>) /\ Report(Current = "comma")
  BY DEF NextParam, At
<1>2. /\ Extends(nodes, nodes') /\ PlainNodes(nodes, nodes', reported')
      /\ ret' \in 0 .. Len(nodes')
  BY <1>1, NodesKept
<1>3. CallOK(input, a, nodes') /\ a.at = "param"
  <2>1. "param" \in Labels \ {"rhs", "operators", "operand"} /\ "params" \in Owners \cap TokenLists
        /\ "param" \notin NodeLists
    BY DEF Labels, Owners, TokenLists, NodeLists, ListLabels
  <2> QED
    BY <1>1, <1>2, <2>1, Relabelled
<1> HIDE DEF a
<1>4. reported' \in BOOLEAN /\ (reported => reported') /\ window' \in WindowType
  BY <1>1, Reports, DeclWindows
<1> QED
  BY <1>1, <1>2, <1>3, <1>4, Labelled, Becomes

LEMMA NoParamTypes ==
    ASSUME Typed, NoParam
    PROVE  Typed' /\ Changes /\ CallsPlain
<1> DEFINE a == At(This, "params")
<1>1. /\ Running("param") /\ Keep /\ scope' = scope /\ UNCHANGED <<nodes, ret, reported>>
      /\ window' = Look /\ Goto(<<a>>)
  BY DEF NoParam, At
<1>2. /\ Extends(nodes, nodes') /\ PlainNodes(nodes, nodes', reported')
      /\ ret' \in 0 .. Len(nodes')
  BY <1>1, NodesKept
<1>3. CallOK(input, a, nodes') /\ a.at = "params"
  <2>1. "params" \in Labels \ {"rhs", "operators", "operand"} /\ "param" \in Owners \cap TokenLists
        /\ "params" \notin NodeLists
    BY DEF Labels, Owners, TokenLists, NodeLists, ListLabels
  <2> QED
    BY <1>1, <1>2, <2>1, Relabelled
<1> HIDE DEF a
<1>4. reported' \in BOOLEAN /\ (reported => reported') /\ window' \in WindowType
  BY <1>1, DeclWindows DEF Typed
<1> QED
  BY <1>1, <1>2, <1>3, <1>4, Labelled, Becomes

(* Actions that leave the calls.                                           *)
LEMMA Stays ==
    ASSUME Typed, NEW l, Running(l), Keep, UNCHANGED <<calls, ret, nodes, scope, reported>>,
           window' \in WindowType
    PROVE  Typed' /\ Changes /\ (l \notin ExprLabels => CallsPlain)
<1>1. /\ Extends(nodes, nodes') /\ PlainNodes(nodes, nodes', reported')
      /\ ret' \in 0 .. Len(nodes') /\ reported' \in BOOLEAN
  BY NodesKept DEF Typed
<1>2. l \in Waiting => ret' # 0
  <2>1. l \in Waiting => ret \in 1 .. Len(nodes)
    BY Innermost
  <2> QED
    BY <2>1
<1>3. Typed' /\ Quiet /\ (l \notin ExprLabels => CallsPlain)
  BY <1>1, <1>2, SameStep
<1> QED
  BY <1>1, <1>3 DEF Changes

LEMMA SkipCommaTypes ==
    ASSUME Typed, SkipComma
    PROVE  Typed' /\ Changes /\ (Running("param") => CallsPlain)
<1>1. Keep /\ UNCHANGED <<calls, ret, nodes, scope, reported>> /\ window' \in WindowType
  BY DeclWindows DEF SkipComma
<1>2. Running("param") \/ Running("item")
  BY DEF SkipComma
<1> QED
  BY <1>1, <1>2, Stays, Labelled

LEMMA ParamTypes ==
    ASSUME Typed, Param, ~Overflow
    PROVE  Typed' /\ Changes /\ CallsPlain
<1> DEFINE named == Current = "name"
           rest  == IF named THEN Take(window) ELSE Look
           token == IF named THEN TokenAt(window, n) ELSE 0
           s     == Append(This.list, token)
           a     == Listed(This, "params", s)
<1>1. /\ Running("param") /\ Keep /\ scope' = scope /\ UNCHANGED <<nodes, ret>>
      /\ window' = IF Kind(rest) = "comma" THEN Take(rest) ELSE Peeked(rest, n)
      /\ Goto(<<a>>)
      /\ Report(~named \/ Kind(rest) \notin {"comma", "r_paren", "end"})
  BY DEF Param, Listed
<1>2. /\ Extends(nodes, nodes') /\ PlainNodes(nodes, nodes', reported')
      /\ ret' \in 0 .. Len(nodes')
  BY <1>1, NodesKept
<1>3. input \in Seq(Token) /\ window \in WindowType /\ n \in Nat /\ rest \in WindowType
  BY DeclWindows
<1>4. token \in 0 .. n
  <2>1. Kind(window) = "name" => TokenAt(window, n) \in 1 .. n
    BY <1>3, KindIs
  <2> QED
    BY <1>3, <2>1 DEF Current
<1>5. This.list \in Seq(0 .. n)
  <2>1. CallOK(input, This, nodes) /\ This.at = "param"
    BY <1>1, Innermost
  <2> QED
    BY <2>1 DEF CallOK, TokenLists, n
<1>6. window' \in WindowType
  <2> HIDE DEF rest
  <2> QED
    BY <1>1, <1>3, PeekType, TakeType
<1>7. reported' \in BOOLEAN /\ (reported => reported')
  BY <1>1, Reports
<1> HIDE DEF token
<1>8. s \in Seq(0 .. n)
  BY <1>4, <1>5, AppendProperties
<1> HIDE DEF s
<1>9. CallOK(input, a, nodes') /\ a.at = "params"
  <2>1. "params" \in Labels \ {"rhs", "operators", "operand"} /\ "param" \in Owners
        /\ "params" \notin NodeLists
    BY DEF Labels, Owners, NodeLists, ListLabels
  <2>2. s \in Seq(Int)
    BY <1>3, <1>8, IntSeq
  <2> QED
    BY <1>1, <1>2, <1>8, <2>1, <2>2, Relisted
<1> HIDE DEF a
<1> QED
  BY <1>1, <1>2, <1>6, <1>7, <1>9, Labelled, Becomes

(* Setting a node and adding one can be done in either order.               *)
LEMMA AddFirst ==
    ASSUME NEW S, NEW s \in Seq(S), NEW d \in 1 .. Len(s), NEW u \in S, NEW v \in S
    PROVE  Append([s EXCEPT ![d] = v], u) = [Append(s, u) EXCEPT ![d] = v]
<1> DEFINE a == [s EXCEPT ![d] = v]
           b == Append(s, u)
           x == Append(a, u)
           y == [b EXCEPT ![d] = v]
<1>1. Len(s) \in Nat
  BY LenProperties
<1>2. a \in Seq(S) /\ Len(a) = Len(s) /\ a[d] = v /\ \A i \in 1 .. Len(s) : i # d => a[i] = s[i]
  BY ExceptSeq
<1>3. b \in Seq(S) /\ Len(b) = Len(s) + 1 /\ b[Len(s) + 1] = u /\ \A i \in 1 .. Len(s) : b[i] = s[i]
  BY AppendProperties
<1> HIDE DEF a, b
<1>4. /\ x \in Seq(S) /\ Len(x) = Len(s) + 1 /\ x[Len(s) + 1] = u
      /\ \A i \in 1 .. Len(s) : x[i] = a[i]
  BY <1>2, AppendProperties
<1>5. /\ y \in Seq(S) /\ Len(y) = Len(s) + 1 /\ y[d] = v
      /\ \A i \in 1 .. Len(s) + 1 : i # d => y[i] = b[i]
  <2>1. d \in 1 .. Len(b)
    BY <1>1, <1>3
  <2> QED
    BY <1>3, <2>1, ExceptSeq
<1> HIDE DEF x, y
<1>6. \A i \in 1 .. Len(s) + 1 : x[i] = y[i]
  <2>1. ASSUME NEW i \in 1 .. Len(s) + 1, i # Len(s) + 1
        PROVE  i \in 1 .. Len(s)
    BY <1>1, <2>1
  <2>2. Len(s) + 1 # d /\ Len(s) + 1 \in 1 .. Len(s) + 1
    BY <1>1
  <2> QED
    BY <1>2, <1>3, <1>4, <1>5, <2>1, <2>2
<1>7. x = y
  <2>1. DOMAIN x = 1 .. Len(x) /\ DOMAIN y = 1 .. Len(y)
    BY <1>4, <1>5, LenProperties
  <2> QED
    BY <1>4, <1>5, <1>6, SeqEqual
<1> QED
  BY <1>7 DEF x, y, a, b

(* The node d gets children, the last of them an error that is new.        *)
LEMMA ErrorChild ==
    ASSUME NEW ns, ns \in Seq(NodeType(Len(ns))), NEW d \in 1 .. Len(ns),
           ns[d].kind # "binary", NEW ks \in Seq(1 .. Len(ns) + 1)
    PROVE  LET ns2 == Append([ns EXCEPT ![d].kids = ks], ErrorNode)
           IN  /\ Extends(ns, ns2) /\ PlainNodes(ns, ns2, TRUE)
               /\ Len(ns2) = Len(ns) + 1 /\ Len(ns) \in Nat
<1> DEFINE m == Len(ns) + 1
           S == NodeType(m)
           v == [ns[d] EXCEPT !.kids = ks]
           b == Append(ns, ErrorNode)
           c == [b EXCEPT ![d].kids = ks]
<1>1. m \in Nat /\ Len(ns) \in Nat /\ d \in Nat
  BY LenProperties
<1>2. ns \in Seq(S)
  BY <1>1, NodeGrows, SeqGrows
<1>3. ErrorNode \in S /\ ErrorNode.kind = "error"
  BY <1>1, ErrorIs
<1>4. /\ Extends(ns, b) /\ Len(b) = m /\ b \in Seq(NodeType(Len(b)))
      /\ \A i \in 1 .. Len(ns) : b[i] = ns[i]
  <2>1. ErrorNode.kind # "binary"
    BY <1>3
  <2> QED
    BY <1>3, <2>1, NodeAdded DEF Extends
<1>5. PlainNodes(ns, b, TRUE)
  <2>1. PlainNodes(ns, b, ErrorNode.kind = "error")
    BY <1>3, NodeAdded
  <2> QED
    BY <1>3, <2>1 DEF PlainNodes
<1> HIDE DEF b
<1>6. d \in 1 .. Len(b) /\ b[d].kind # "binary" /\ ks \in Seq(1 .. Len(b))
  BY <1>1, <1>4
<1>7. Extends(b, c) /\ PlainNodes(b, c, FALSE) /\ Len(c) = Len(b)
  BY <1>4, <1>6, KidsSet
<1>8. v \in S
  <2>1. /\ ns[d] = [kind |-> ns[d].kind, toks |-> ns[d].toks, kids |-> ns[d].kids,
                    decls |-> ns[d].decls, outer |-> ns[d].outer]
        /\ ns[d].kind \in NodeKinds /\ ns[d].toks \in Seq(0 .. n)
    BY NodeFields
  <2>2. ns[d] \in S
    BY <1>1, <1>2
  <2>3. ns[d].decls \in Seq(1 .. m) /\ ns[d].outer \in 0 .. m
    BY <2>2 DEF NodeType
  <2>4. v = [kind |-> ns[d].kind, toks |-> ns[d].toks, kids |-> ks,
             decls |-> ns[d].decls, outer |-> ns[d].outer]
    BY <2>1, SMTT(30)
  <2> HIDE DEF v
  <2> QED
    BY <2>1, <2>3, <2>4 DEF NodeType
<1>9. Append([ns EXCEPT ![d].kids = ks], ErrorNode) = c
  <2>1. [ns EXCEPT ![d].kids = ks] = [ns EXCEPT ![d] = v]
    OBVIOUS
  <2>2. c = [b EXCEPT ![d] = v]
    BY <1>4
  <2> HIDE DEF S, v
  <2>3. Append([ns EXCEPT ![d] = v], ErrorNode) = [b EXCEPT ![d] = v]
    BY <1>2, <1>3, <1>8, AddFirst DEF b
  <2> QED
    BY <2>1, <2>2, <2>3
<1> HIDE DEF c
<1>10. Extends(ns, c)
  BY <1>4, <1>7, ExtendsTwice
<1>11. PlainNodes(ns, c, TRUE)
  <2>1. PlainNodes(ns, c, TRUE \/ FALSE)
    <3>1. Len(b) \in Nat /\ Len(c) \in Nat /\ Len(ns) <= Len(b) /\ Len(b) <= Len(c)
          /\ FALSE \in BOOLEAN /\ TRUE \in BOOLEAN
      BY <1>1, <1>4, <1>7
    <3> QED
      BY <1>1, <1>5, <1>7, <3>1, PlainTwice
  <2> QED
    BY <2>1
<1> QED
  BY <1>1, <1>4, <1>7, <1>9, <1>10, <1>11

LEMMA CloseParamsTypes ==
    ASSUME Typed, CloseParams
    PROVE  Typed' /\ Changes /\ CallsPlain
<1> DEFINE closed == Current = "r_paren"
           rest   == IF closed THEN Take(window) ELSE Look
           d      == This.node
           ts     == nodes[d].toks \o This.list
           named  == [nodes EXCEPT ![d].toks = ts]
<1>1. /\ Running("params") /\ Keep /\ scope' = scope /\ window' = Peeked(rest, n)
      /\ Report(~closed \/ Kind(rest) # "l_brace")
      /\ Kind(rest) = "l_brace" => /\ nodes' = named
                                   /\ Goto(<<Call("brace"), Complete(d, <<>>)>>)
                                   /\ ret' = ret
      /\ Kind(rest) # "l_brace" =>
           /\ nodes' = Append([named EXCEPT ![d].kids = <<NewId>>], ErrorNode)
           /\ Return(d)
  BY DEF CloseParams
<1>2. /\ input \in Seq(Token) /\ n \in Nat /\ rest \in WindowType
      /\ nodes \in Seq(NodeType(Len(nodes)))
  BY DeclWindows DEF Typed
<1>3. window' \in WindowType
  <2> HIDE DEF rest
  <2> QED
    BY <1>1, <1>2, PeekType
<1>4. /\ reported' \in BOOLEAN /\ (reported => reported')
      /\ Kind(rest) # "l_brace" => reported'
  BY <1>1, Reports
<1>5. d \in 1 .. Len(nodes) /\ nodes[d].kind # "binary" /\ This.list \in Seq(0 .. n)
  <2>1. CallOK(input, This, nodes) /\ This.at = "params"
    BY <1>1, Innermost
  <2> QED
    BY <2>1 DEF CallOK, TokenLists, Owners, n
<1> HIDE DEF d, rest, closed
<1>6. ts \in Seq(0 .. n)
  <2>1. nodes[d].toks \in Seq(0 .. n)
    BY <1>2, <1>5, NodeFields
  <2> QED
    BY <1>5, <2>1, ConcatProperties
<1> HIDE DEF ts
<1>7. /\ Extends(nodes, named) /\ PlainNodes(nodes, named, FALSE)
      /\ Len(named) = Len(nodes) /\ Len(nodes) \in Nat /\ named[d].kind # "binary"
  BY <1>2, <1>5, <1>6, ToksSet
<1> HIDE DEF named
<1>8. CASE Kind(rest) = "l_brace"
  <2>1. PlainNodes(nodes, nodes', reported')
    BY <1>1, <1>7, <1>8 DEF PlainNodes
  <2>2. Len(nodes') \in Nat /\ d \in 1 .. Len(nodes') /\ nodes'[d].kind # "binary"
    BY <1>1, <1>5, <1>7, <1>8
  <2>3. CallOK(input, Call("brace"), nodes') /\ Call("brace").at \in Begins
    <3>1. "brace" \in Begins
      BY DEF Begins, Keywords
    <3> QED
      BY <2>2, <3>1, Begin
  <2>4. CallOK(input, Complete(d, <<>>), nodes') /\ Complete(d, <<>>).at = "complete"
    BY <2>2, CompleteNone
  <2>5. ret' \in 0 .. Len(nodes')
    BY <1>1, <1>7, <1>8 DEF Typed
  <2> QED
    BY <1>1, <1>3, <1>4, <1>7, <1>8, <2>1, <2>3, <2>4, <2>5, Labelled, Descends
<1>9. CASE Kind(rest) # "l_brace"
  <2> DEFINE ks == <<NewId>>
             ns2 == Append([named EXCEPT ![d].kids = ks], ErrorNode)
  <2>1. /\ named \in Seq(NodeType(Len(named))) /\ d \in 1 .. Len(named)
        /\ NewId = Len(named) + 1 /\ NewId \in 1 .. Len(named) + 1
    BY <1>5, <1>7 DEF Extends, NewId
  <2>2. ks \in Seq(1 .. Len(named) + 1)
    BY <2>1
  <2>3. nodes' = ns2
    BY <1>1, <1>9
  <2> HIDE DEF ks
  <2>4. /\ Extends(named, ns2) /\ PlainNodes(named, ns2, TRUE)
        /\ Len(ns2) = Len(named) + 1
    BY <1>7, <2>1, <2>2, ErrorChild
  <2> HIDE DEF ns2
  <2>5. Extends(nodes, nodes')
    BY <1>2, <1>7, <2>3, <2>4, ExtendsTwice
  <2>6. PlainNodes(nodes, nodes', FALSE \/ TRUE)
    <3>1. Len(named) \in Nat /\ Len(ns2) \in Nat /\ Len(nodes) <= Len(named)
          /\ Len(named) <= Len(ns2) /\ FALSE \in BOOLEAN /\ TRUE \in BOOLEAN
      BY <1>7, <2>4
    <3> QED
      BY <1>7, <2>3, <2>4, <3>1, PlainTwice
  <2>7. PlainNodes(nodes, nodes', reported') /\ d \in 1 .. Len(nodes') /\ Return(d)
    BY <1>1, <1>4, <1>5, <1>7, <1>9, <2>3, <2>4, <2>6 DEF PlainNodes
  <2> QED
    BY <1>1, <1>3, <1>4, <2>5, <2>7, Labelled, Returns
<1> QED
  BY <1>8, <1>9

LEMMA ObjDeclTypes ==
    ASSUME Typed, ObjDecl
    PROVE  Typed' /\ Changes /\ CallsPlain
<1>1. /\ Running("obj") /\ Keep /\ scope' = scope /\ "obj" \in DeclKinds
      /\ window' = AfterName
      /\ Report(NameMissing \/ Kind(AfterName) # "l_brace")
      /\ Kind(AfterName) = "l_brace" =>
           /\ nodes' = Declared("obj") /\ ret' = ret
           /\ Goto(<<Call("brace"), Complete(NewId, <<>>)>>)
      /\ Kind(AfterName) # "l_brace" =>
           /\ nodes' = Append([Declared("obj") EXCEPT ![NewId].kids = <<NewId + 1>>], ErrorNode)
           /\ Return(NewId)
  BY DEF ObjDecl, NameOf, DeclKinds
<1> DEFINE ns == Declared("obj")
<1>2. /\ Extends(nodes, ns) /\ PlainNodes(nodes, ns, FALSE)
      /\ Len(ns) = Len(nodes) + 1 /\ Len(nodes) \in Nat /\ ns[NewId].kind = "obj"
  BY <1>1, DeclaredNodes
<1>3. /\ window' \in WindowType /\ reported' \in BOOLEAN /\ (reported => reported')
      /\ Kind(AfterName) # "l_brace" => reported'
  BY <1>1, DeclWindows, Reports
<1>4. NewId \in 1 .. Len(ns) /\ ns[NewId].kind # "binary" /\ ns \in Seq(NodeType(Len(ns)))
      /\ NewId = Len(ns)
  BY <1>2 DEF NewId, Extends
<1>5. CASE Kind(AfterName) = "l_brace"
  <2>1. PlainNodes(nodes, nodes', reported') /\ nodes' = ns
    BY <1>1, <1>2, <1>5 DEF PlainNodes
  <2>2. CallOK(input, Call("brace"), nodes') /\ Call("brace").at \in Begins
    <3>1. "brace" \in Begins /\ Len(nodes') \in Nat
      BY <1>2, <2>1 DEF Begins, Keywords
    <3> QED
      BY <3>1, Begin
  <2>3. CallOK(input, Complete(NewId, <<>>), nodes') /\ Complete(NewId, <<>>).at = "complete"
    <3>1. NewId \in 1 .. Len(nodes') /\ nodes'[NewId].kind # "binary" /\ Len(nodes') \in Nat
      BY <1>2, <1>4, <2>1
    <3> QED
      BY <3>1, CompleteNone
  <2>4. ret' \in 0 .. Len(nodes')
    BY <1>1, <1>2, <1>5, <2>1 DEF Typed
  <2> QED
    BY <1>1, <1>2, <1>3, <1>5, <2>1, <2>2, <2>3, <2>4, Labelled, Descends
<1>6. CASE Kind(AfterName) # "l_brace"
  <2> DEFINE ks == <<NewId + 1>>
             ns2 == Append([ns EXCEPT ![NewId].kids = ks], ErrorNode)
  <2>1. ks \in Seq(1 .. Len(ns) + 1)
    <3>1. NewId + 1 \in 1 .. Len(ns) + 1
      BY <1>2, <1>4
    <3> QED
      BY <3>1
  <2>2. nodes' = ns2
    BY <1>1, <1>6
  <2> HIDE DEF ks, ns
  <2>3. Extends(ns, ns2) /\ PlainNodes(ns, ns2, TRUE) /\ Len(ns2) = Len(ns) + 1
    BY <1>4, <2>1, ErrorChild
  <2> HIDE DEF ns2
  <2>4. Extends(nodes, nodes')
    BY <1>2, <2>2, <2>3, ExtendsTwice DEF Typed
  <2>5. PlainNodes(nodes, nodes', FALSE \/ TRUE)
    <3>1. Len(ns) \in Nat /\ Len(ns2) \in Nat /\ Len(nodes) <= Len(ns)
          /\ Len(ns) <= Len(ns2) /\ FALSE \in BOOLEAN /\ TRUE \in BOOLEAN
      BY <1>2, <2>3
    <3> QED
      BY <1>2, <2>2, <2>3, <3>1, PlainTwice
  <2>6. PlainNodes(nodes, nodes', reported') /\ NewId \in 1 .. Len(nodes') /\ Return(NewId)
    BY <1>1, <1>2, <1>3, <1>4, <1>6, <2>2, <2>3, <2>5 DEF PlainNodes
  <2> QED
    BY <1>1, <1>3, <2>4, <2>6, Labelled, Returns
<1> QED
  BY <1>5, <1>6

LEMMA CompletedTypes ==
    ASSUME Typed, Completed
    PROVE  Typed' /\ Changes /\ CallsPlain
<1> DEFINE d == This.node
           ks == Append(This.list, ret)
<1>1. /\ Running("complete") /\ Keep /\ UNCHANGED <<window, scope, reported>>
      /\ nodes' = [nodes EXCEPT ![d].kids = ks] /\ Return(d)
  BY DEF Completed
<1>2. /\ CallOK(input, This, nodes) /\ This.at = "complete" /\ ret \in 1 .. Len(nodes)
      /\ nodes \in Seq(NodeType(Len(nodes)))
  BY <1>1, Innermost, Labelled DEF Typed
<1>3. d \in 1 .. Len(nodes) /\ nodes[d].kind # "binary" /\ This.list \in Seq(1 .. Len(nodes))
  BY <1>2 DEF CallOK, Owners, NodeLists
<1> HIDE DEF d
<1>4. ks \in Seq(1 .. Len(nodes))
  BY <1>2, <1>3, AppendProperties
<1> HIDE DEF ks
<1>5. /\ Extends(nodes, nodes') /\ PlainNodes(nodes, nodes', FALSE)
      /\ Len(nodes') = Len(nodes)
  BY <1>1, <1>2, <1>3, <1>4, KidsSet
<1>6. /\ PlainNodes(nodes, nodes', reported') /\ d \in 1 .. Len(nodes')
      /\ reported' \in BOOLEAN /\ (reported => reported') /\ window' \in WindowType
  BY <1>1, <1>3, <1>5 DEF PlainNodes, Typed
<1> QED
  BY <1>1, <1>5, <1>6, Labelled, Returns

LEMMA Produced ==
    ASSUME NEW k \in DOMAIN Productions
    PROVE  Productions[k] \in Keywords
  BY DEF Productions, Keywords, DeclLabels

LEMMA SkipSemicolonTypes ==
    ASSUME Typed, SkipSemicolon
    PROVE  Typed' /\ Changes /\ CallsPlain
<1>1. /\ Running("stmts") /\ Keep /\ UNCHANGED <<calls, ret, nodes, scope, reported>>
      /\ window' \in WindowType
  BY DeclWindows DEF SkipSemicolon
<1>2. "stmts" \notin ExprLabels
  BY DEF ExprLabels, Operands, Primaries, Infixes
<1> QED
  BY <1>1, <1>2, Stays

(* The loop of recovery skips a token, or it ends.                         *)
RecoverSkips ==
    /\ Running("recover") /\ ~AtDelimiter
    /\ window' = Take(window)
    /\ Keep /\ UNCHANGED <<calls, ret, nodes, scope, reported>>

Recovered ==
    /\ Running("recover") /\ AtDelimiter
    /\ window' = Look
    /\ Goto(<<[This EXCEPT !.at = "stmts"]>>)
    /\ Keep /\ UNCHANGED <<ret, nodes, scope, reported>>

LEMMA RecoverWays == Recover => RecoverSkips \/ Recovered
  BY DEF Recover, RecoverSkips, Recovered

LEMMA RecoverTypes ==
    ASSUME Typed, RecoverSkips
    PROVE  Typed' /\ Changes /\ CallsPlain
<1>1. /\ Running("recover") /\ Keep /\ UNCHANGED <<calls, ret, nodes, scope, reported>>
      /\ window' \in WindowType
  BY DeclWindows DEF RecoverSkips
<1>2. "recover" \notin ExprLabels
  BY DEF ExprLabels, Operands, Primaries, Infixes
<1> QED
  BY <1>1, <1>2, Stays

LEMMA StmtAtEndTypes ==
    ASSUME Typed, StmtAtEnd
    PROVE  Typed' /\ Changes /\ CallsPlain
<1>1. /\ Running("stmt") /\ Keep /\ scope' = scope /\ window' \in WindowType
      /\ nodes' = Append(nodes, ErrorNode) /\ reported' = TRUE /\ Return(NewId)
  BY DeclWindows DEF StmtAtEnd
<1>2. "stmt" \notin ExprLabels \cup ListLabels
  BY DEF ExprLabels, Operands, Primaries, Infixes, ListLabels
<1> QED
  BY <1>1, <1>2, ErrorReturn

LEMMA ProductionTypes ==
    ASSUME Typed, Production
    PROVE  Typed' /\ Changes /\ CallsPlain
<1> DEFINE k == Productions[Current]
           a == Call(k)
<1>1. /\ Running("stmt") /\ Keep /\ UNCHANGED <<ret, nodes, scope, reported>>
      /\ window' \in WindowType /\ Goto(<<a>>) /\ k \in Keywords
  BY DeclWindows, Produced DEF Production
<1>2. /\ Extends(nodes, nodes') /\ PlainNodes(nodes, nodes', reported')
      /\ Len(nodes') \in Nat /\ ret' \in 0 .. Len(nodes')
  BY <1>1, NodesKept
<1>3. CallOK(input, a, nodes') /\ a.at = k
  <2>1. k \in Begins
    BY <1>1 DEF Begins
  <2> HIDE DEF k
  <2> QED
    BY <1>2, <2>1, Begin
<1> HIDE DEF a
<1>4. /\ "stmt" \notin ListLabels \cup ExprLabels
      /\ k \notin ListLabels \cup ExprLabels \cup {"gather"} \cup Waiting
  BY <1>1 DEF Keywords, DeclLabels, ListLabels, ExprLabels, Operands, Primaries, Infixes, Waiting
<1> HIDE DEF k
<1>5. reported' \in BOOLEAN /\ (reported => reported')
  BY <1>1 DEF Typed
<1>6. scope' = scope /\ a.at \notin ListLabels \cup {"gather"} /\ a.at \notin Waiting
      /\ {"stmt", a.at} \cap ExprLabels = {}
  BY <1>1, <1>3, <1>4
<1> QED
  BY <1>1, <1>2, <1>3, <1>4, <1>5, <1>6, Becomes

LEMMA ExprStmtTypes ==
    ASSUME Typed, ExprStmt
    PROVE  Typed' /\ Changes /\ CallsPlain
<1> DEFINE b == Call("expr_stmt")
<1>1. /\ Running("stmt") /\ Keep /\ UNCHANGED <<ret, nodes, scope, reported>>
      /\ window' \in WindowType /\ Goto(<<Expr, b>>)
  BY DeclWindows DEF ExprStmt
<1>2. /\ Extends(nodes, nodes') /\ PlainNodes(nodes, nodes', reported')
      /\ Len(nodes') \in Nat /\ ret' \in 0 .. Len(nodes')
  BY <1>1, NodesKept
<1>3. CallOK(input, Expr, nodes') /\ Expr.at \in Begins
  BY <1>2, BeginExpr
<1>4. CallOK(input, b, nodes') /\ b.at = "expr_stmt"
  <2>1. "expr_stmt" \in Labels \ (Owners \cup {"operators", "operand", "rhs"})
    BY DEF Labels, Owners
  <2> QED
    BY <1>2, <2>1, NewCall
<1> HIDE DEF b
<1>5. /\ "stmt" \notin ListLabels \cup ExprLabels
      /\ "expr_stmt" \notin ListLabels \cup ExprLabels /\ "expr_stmt" \in Waiting
  BY DEF ListLabels, ExprLabels, Operands, Primaries, Infixes, Waiting
<1>6. reported' \in BOOLEAN /\ (reported => reported') /\ scope' = scope
  BY <1>1 DEF Typed
<1> QED
  BY <1>1, <1>2, <1>3, <1>4, <1>5, <1>6, Descends

(* A new node over the one that was returned.                              *)
LEMMA Wraps ==
    ASSUME Typed, NEW l, Running(l), l \notin ListLabels, l \in Waiting, Keep, scope' = scope,
           NEW k \in NodeKinds \ {"binary", "error"}, NEW ts \in Seq(0 .. n),
           nodes' = New(k, ts, <<ret>>), Return(NewId),
           reported' \in BOOLEAN, reported => reported', window' \in WindowType
    PROVE  /\ Typed' /\ Changes /\ (l \notin ExprLabels => CallsPlain)
           /\ nodes'[ret'].kind = k
<1> DEFINE ks == <<ret>>
           u == Node(k, ts, ks)
           m == Len(nodes) + 1
<1>1. ret \in 1 .. Len(nodes) /\ Len(nodes) \in Nat
  BY Innermost
<1>2. ks \in Seq(1 .. m) /\ m \in Nat
  BY <1>1
<1> HIDE DEF ks, m
<1>3. u \in NodeType(m) /\ u.kind = k
  BY <1>2, NodeIs
<1>4. nodes' = Append(nodes, u)
  BY DEF New, ks
<1> HIDE DEF u
<1>5. u \in NodeType(Len(nodes) + 1)
  BY <1>3 DEF m
<1>6. u.kind # "binary" /\ (u.kind = "error" => reported')
  BY <1>3
<1> QED
  BY <1>3, <1>4, <1>5, <1>6, NewReturn

LEMMA WrapExprTypes ==
    ASSUME Typed, WrapExpr
    PROVE  Typed' /\ Changes /\ CallsPlain
<1> DEFINE ts == <<>>
<1>1. /\ Running("expr_stmt") /\ Keep /\ UNCHANGED <<window, scope, reported>>
      /\ nodes' = New("expr_stmt", ts, <<ret>>) /\ Return(NewId)
  BY DEF WrapExpr
<1>2. ts \in Seq(0 .. n)
  BY EmptyList
<1> HIDE DEF ts
<1>3. /\ reported' \in BOOLEAN /\ (reported => reported') /\ window' \in WindowType
      /\ scope' = scope
  BY <1>1 DEF Typed
<1>4. /\ "expr_stmt" \notin ListLabels \cup ExprLabels /\ "expr_stmt" \in Waiting
      /\ "expr_stmt" \in NodeKinds \ {"binary", "error"}
  BY DEF ListLabels, ExprLabels, Operands, Primaries, Infixes, Waiting, NodeKinds
<1> QED
  BY <1>1, <1>2, <1>3, <1>4, Wraps

(* A new node without children.                                            *)
LEMMA LeafAdded ==
    ASSUME Typed, NEW l, Running(l),
           NEW k \in NodeKinds \ {"binary", "error"}, NEW ts \in Seq(0 .. n),
           nodes' = New(k, ts, <<>>)
    PROVE  /\ Extends(nodes, nodes') /\ PlainNodes(nodes, nodes', reported')
           /\ Len(nodes') = Len(nodes) + 1 /\ Len(nodes') \in Nat
           /\ NewId \in 1 .. Len(nodes') /\ nodes'[NewId].kind = k
           /\ ret \in 0 .. Len(nodes')
<1> DEFINE u == Node(k, ts, <<>>)
           m == Len(nodes) + 1
<1>1. /\ Len(nodes) \in Nat /\ NewId = Len(nodes) + 1 /\ ret \in 0 .. Len(nodes)
      /\ nodes \in Seq(NodeType(Len(nodes)))
  BY Innermost DEF Typed
<1>2. m \in Nat
  BY <1>1
<1> HIDE DEF m
<1>3. u \in NodeType(m) /\ u.kind = k
  BY <1>2, LeafIs
<1>4. nodes' = Append(nodes, u)
  BY DEF New
<1> HIDE DEF u
<1>5. u \in NodeType(Len(nodes) + 1) /\ u.kind # "binary"
  BY <1>3 DEF m
<1>6. /\ Extends(nodes, nodes') /\ PlainNodes(nodes, nodes', u.kind = "error")
      /\ Len(nodes') = Len(nodes) + 1 /\ nodes'[Len(nodes) + 1] = u
  <2> DEFINE all == Append(nodes, u)
  <2>1. /\ Extends(nodes, all) /\ PlainNodes(nodes, all, u.kind = "error")
        /\ Len(all) = Len(nodes) + 1 /\ all[Len(nodes) + 1] = u
    BY <1>1, <1>5, NodeAdded
  <2> QED
    BY <1>4, <2>1
<1>7. PlainNodes(nodes, nodes', reported')
  BY <1>3, <1>6 DEF PlainNodes
<1> QED
  BY <1>1, <1>3, <1>6, <1>7

LEMMA KeywordTypes ==
    ASSUME Typed, NEW k \in {"if", "while", "ret"}, NEW m \in Owners \cap Waiting,
           Keyword(k, Call(m))
    PROVE  Typed' /\ Changes /\ CallsPlain
<1> DEFINE b == Owner(m, NewId)
           ts == <<>>
<1>1. /\ Running(k) /\ Keep /\ UNCHANGED <<ret, scope, reported>> /\ window' \in WindowType
      /\ nodes' = New(k, ts, <<>>) /\ Goto(<<Expr, b>>)
  BY DeclWindows DEF Keyword, Owner
<1>2. ts \in Seq(0 .. n)
  BY EmptyList
<1> HIDE DEF ts
<1>3. k \in NodeKinds \ {"binary", "error"} /\ k \notin ListLabels \cup ExprLabels
  BY DEF NodeKinds, ListLabels, ExprLabels, Operands, Primaries, Infixes
<1>4. /\ Extends(nodes, nodes') /\ PlainNodes(nodes, nodes', reported')
      /\ Len(nodes') \in Nat /\ NewId \in 1 .. Len(nodes') /\ nodes'[NewId].kind = k
      /\ ret' \in 0 .. Len(nodes')
  BY <1>1, <1>2, <1>3, LeafAdded
<1>5. CallOK(input, Expr, nodes') /\ Expr.at \in Begins
  BY <1>4, BeginExpr
<1>6. CallOK(input, b, nodes') /\ b.at = m
  <2> DEFINE ns == nodes'
             d == NewId
  <2>1. /\ Len(ns) \in Nat /\ d \in 1 .. Len(ns) /\ ns[d].kind # "binary"
        /\ m \in Owners \cup {"stmts"}
    BY <1>3, <1>4
  <2> HIDE DEF ns, d
  <2>2. CallOK(input, Owner(m, d), ns) /\ Owner(m, d).at = m
    BY <2>1, OwnerCall
  <2> QED
    BY <2>2 DEF ns, d
<1> HIDE DEF b
<1>7. m \in Waiting \ ListLabels /\ m \notin ExprLabels
  BY DEF Owners, Waiting, ListLabels, ExprLabels, Operands, Primaries, Infixes
<1>8. /\ reported' \in BOOLEAN /\ (reported => reported') /\ scope' = scope
      /\ {k, m} \cap ExprLabels = {}
  BY <1>1, <1>3, <1>7 DEF Typed
<1> QED
  BY <1>1, <1>3, <1>4, <1>5, <1>6, <1>7, <1>8, Descends

LEMMA KeywordsTypes ==
    ASSUME Typed, IfStmt \/ WhileStmt \/ RetStmt
    PROVE  Typed' /\ Changes /\ CallsPlain
<1>1. {"then", "body", "complete"} \subseteq Owners \cap Waiting
  BY DEF Owners, Waiting
<1> QED
  BY <1>1, KeywordTypes DEF IfStmt, WhileStmt, RetStmt

LEMMA BrkOrNxtTypes ==
    ASSUME Typed, BrkOrNxt
    PROVE  Typed' /\ Changes /\ CallsPlain
<1> DEFINE ts == <<>>
<1>1. PICK k \in {"brk", "nxt"} : Running(k) /\ nodes' = New(k, ts, <<>>)
  BY DEF BrkOrNxt
<1>2. /\ Keep /\ UNCHANGED <<scope, reported>> /\ Return(NewId) /\ window' \in WindowType
  BY DeclWindows DEF BrkOrNxt
<1>3. ts \in Seq(0 .. n)
  BY EmptyList
<1> HIDE DEF ts
<1>4. k \in NodeKinds \ {"binary", "error"} /\ k \notin ListLabels \cup ExprLabels
  BY DEF NodeKinds, ListLabels, ExprLabels, Operands, Primaries, Infixes
<1>5. /\ Extends(nodes, nodes') /\ PlainNodes(nodes, nodes', reported')
      /\ NewId \in 1 .. Len(nodes')
  BY <1>1, <1>3, <1>4, LeafAdded
<1>6. reported' \in BOOLEAN /\ (reported => reported') /\ scope' = scope
  BY <1>2 DEF Typed
<1> QED
  BY <1>1, <1>2, <1>4, <1>5, <1>6, Returns

LEMMA ListLabelsAre ==
    /\ ListLabels \cap (ExprLabels \cup Owners \cup TokenLists \cup {"gather"}) = {}
    /\ ListLabels \subseteq Labels \cap NodeLists
    /\ ListLabels \cap Waiting = {"stmt_done"}
  BY DEF ListLabels, ExprLabels, Operands, Primaries, Infixes, Owners, TokenLists, NodeLists,
         Labels, Waiting

LEMMA RecoveredTypes ==
    ASSUME Typed, Recovered
    PROVE  Typed' /\ Changes /\ CallsPlain
<1> DEFINE a == At(This, "stmts")
<1>1. /\ Running("recover") /\ Keep /\ UNCHANGED <<ret, nodes, scope, reported>>
      /\ window' \in WindowType /\ Goto(<<a>>)
  BY DeclWindows DEF Recovered, At
<1>2. /\ Extends(nodes, nodes') /\ PlainNodes(nodes, nodes', reported')
      /\ ret' \in 0 .. Len(nodes')
  BY <1>1, NodesKept
<1>3. {"stmts", "recover"} \subseteq ListLabels /\ "stmts" \notin Waiting
  BY DEF ListLabels, Waiting
<1>4. CallOK(input, a, nodes') /\ a.at = "stmts" /\ a.node = This.node
  <2>1. /\ "stmts" \in Labels /\ "stmts" \notin {"rhs", "operators", "operand"}
        /\ "stmts" \notin Owners /\ "recover" \in NodeLists /\ "stmts" \notin TokenLists
    BY DEF Labels, Owners, NodeLists, ListLabels, TokenLists
  <2> QED
    BY <1>1, <1>2, <2>1, Relabelled
<1> HIDE DEF a
<1>5. calls # <<>> /\ This.at = "recover"
  BY <1>1, Innermost
<1>6. /\ Puts(a) /\ SameBlock(a, This)
      /\ a.at \in ListLabels => a.node # 0 \/ AtBottom
  BY <1>1, <1>3, <1>4, <1>5 DEF Goto, Puts, SameBlock, IsBlock, AtBottom
<1>7. /\ reported' \in BOOLEAN /\ (reported => reported') /\ scope' = scope
      /\ a.at # "gather" /\ a.at \notin Waiting /\ {"recover", a.at} \cap ExprLabels = {}
  BY <1>1, <1>3, <1>4, ListLabelsAre DEF Typed
<1>8. Typed' /\ Quiet /\ CallsPlain
  BY <1>1, <1>2, <1>4, <1>6, <1>7, PutStep
<1> QED
  BY <1>2, <1>7, <1>8 DEF Changes

LEMMA StmtParsedTypes ==
    ASSUME Typed, StmtParsed, ~Overflow
    PROVE  Typed' /\ Changes /\ CallsPlain
<1> DEFINE m == IF nodes[ret].kind = "error" THEN "recover" ELSE "stmts"
           s == Append(This.list, ret)
           a == Listed(This, m, s)
<1>1. /\ Running("stmt_done") /\ Keep /\ UNCHANGED <<window, ret, nodes, scope, reported>>
      /\ Goto(<<a>>)
  <2>1. ~Stop("undefined")
    BY DEF Overflow
  <2> QED
    BY <2>1 DEF StmtParsed, Listed
<1>2. /\ Extends(nodes, nodes') /\ PlainNodes(nodes, nodes', reported')
      /\ ret' \in 0 .. Len(nodes') /\ Len(nodes') = Len(nodes)
  BY <1>1, NodesKept
<1>3. /\ m \in ListLabels /\ m \notin Waiting /\ m # "stmt_done"
      /\ "stmt_done" \in ListLabels \cap Waiting
  BY DEF ListLabels, Waiting
<1>4. /\ calls # <<>> /\ This.at = "stmt_done" /\ CallOK(input, This, nodes)
      /\ ret \in 1 .. Len(nodes) /\ Len(nodes) \in Nat
  BY <1>1, <1>3, Innermost
<1>5. s \in Seq(1 .. Len(nodes')) /\ s \in Seq(Int)
  <2>1. This.list \in Seq(1 .. Len(nodes))
    BY <1>3, <1>4, ListLabelsAre DEF CallOK
  <2>2. s \in Seq(1 .. Len(nodes))
    BY <1>4, <2>1, AppendProperties
  <2> QED
    BY <1>2, <1>4, <2>2, IntSeq
<1> HIDE DEF m, s
<1>6. CallOK(input, a, nodes') /\ a.at = m /\ a.node = This.node
  <2>1. /\ m \in Labels /\ m \notin Owners /\ m \notin TokenLists
        /\ m \notin {"rhs", "operators", "operand"}
    BY <1>3, ListLabelsAre DEF ExprLabels, Operands, Infixes
  <2> QED
    BY <1>1, <1>2, <1>5, <2>1, Relisted
<1> HIDE DEF a
<1>7. /\ Puts(a) /\ SameBlock(a, This)
      /\ a.at \in ListLabels => a.node # 0 \/ AtBottom
  BY <1>1, <1>3, <1>4, <1>6 DEF Goto, Puts, SameBlock, IsBlock, AtBottom
<1>8. /\ reported' \in BOOLEAN /\ (reported => reported') /\ scope' = scope
      /\ a.at \notin {"gather", "stmt_done"} /\ a.at \notin Waiting
      /\ {"stmt_done", a.at} \cap ExprLabels = {}
      /\ window' \in WindowType
  BY <1>1, <1>3, <1>6, ListLabelsAre DEF Typed
<1>9. Typed' /\ Quiet /\ CallsPlain
  BY <1>1, <1>2, <1>6, <1>7, <1>8, PutStep
<1> QED
  BY <1>2, <1>8, <1>9 DEF Changes

(* The list that waits for a statement.                                    *)
Since(c, f) == [c EXCEPT !.at = "stmt_done", !.from = f]

LEMMA SinceIs ==
    ASSUME Typed, Running("stmts"), Extends(nodes, nodes'), NEW f \in Int
    PROVE  /\ CallOK(input, Since(This, f), nodes')
           /\ Since(This, f).at = "stmt_done" /\ Since(This, f).node = This.node
           /\ Since(This, f).from = f
<1>1. This \in CallType /\ CallOK(input, This, nodes) /\ This.at = "stmts"
      /\ nodes \in Seq(NodeType(Len(nodes)))
  BY Innermost DEF Typed
<1>2. CallOK(input, This, nodes')
  BY <1>1, CallGrows
<1>3. Since(This, f) = [at |-> "stmt_done", node |-> This.node, level |-> This.level,
                        list |-> This.list, from |-> f]
  <2>1. [This EXCEPT !.at = "stmt_done", !.from = f]
          = [at |-> "stmt_done", node |-> This.node, level |-> This.level,
             list |-> This.list, from |-> f]
    BY <1>1, CallAt
  <2> QED
    BY <2>1 DEF Since
<1>4. This.node \in Nat /\ This.level \in 1 .. Shift /\ This.list \in Seq(Int)
  BY <1>1, CallFields
<1>5. /\ "stmt_done" \in Labels /\ "stmt_done" \notin Owners \cup TokenLists
      /\ "stmt_done" \notin {"rhs", "operators", "operand"} /\ "stmts" \in NodeLists
  BY DEF Labels, Owners, TokenLists, NodeLists, ListLabels
<1>6. /\ This.node # 0 => This.node \in 1 .. Len(nodes') /\ nodes'[This.node].kind # "binary"
      /\ This.list \in Seq(1 .. Len(nodes')) /\ Len(nodes') \in Nat
  BY <1>1, <1>2, <1>5, LenProperties DEF CallOK, Extends
<1>7. CallOK(input, Since(This, f), nodes')
  BY <1>3, <1>4, <1>5, <1>6, CallIs, ZenonT(60)
<1> QED
  BY <1>3, <1>7

LEMMA EatenType ==
    ASSUME Typed
    PROVE  Eaten \in Int /\ Eaten = Ate(window)
<1>1. window \in WindowType /\ input \in Seq(Token)
  BY DEF Typed
<1> QED
  BY <1>1, WindowFields DEF Eaten, Ate

LEMMA NextStmtTypes ==
    ASSUME Typed, NextStmt
    PROVE  Typed' /\ Changes /\ CallsPlain
<1> DEFINE a == Call("stmt")
           b == Since(This, Eaten)
<1>1. /\ Running("stmts") /\ Keep /\ UNCHANGED <<ret, nodes, scope, reported>>
      /\ window' \in WindowType /\ Goto(<<a, b>>) /\ window' = Look /\ Current # "end"
  BY DeclWindows DEF NextStmt, Since
<1>2. /\ Extends(nodes, nodes') /\ PlainNodes(nodes, nodes', reported')
      /\ ret' \in 0 .. Len(nodes') /\ Len(nodes') \in Nat
  BY <1>1, NodesKept
<1>3. CallOK(input, a, nodes') /\ a.at = "stmt"
  <2>1. "stmt" \in Begins
    BY DEF Begins
  <2> QED
    BY <1>2, <2>1, Begin
<1>4. CallOK(input, b, nodes') /\ b.at = "stmt_done" /\ b.node = This.node /\ b.from = Eaten
  BY <1>1, <1>2, EatenType, SinceIs
<1> HIDE DEF a, b
<1>5. /\ "stmt" \notin ListLabels \cup Waiting /\ "stmt_done" \in ListLabels \cap Waiting
      /\ {"stmts", "stmt_done"} \cap ExprLabels = {} /\ "stmts" \in ListLabels
  BY DEF ListLabels, Waiting, ExprLabels, Operands, Primaries, Infixes
<1>6. calls # <<>> /\ This.at = "stmts"
  BY <1>1, Innermost
<1>7. /\ Calls(a, b) /\ SameBlock(b, This)
      /\ b.at \in ListLabels => b.node # 0 \/ AtBottom
  BY <1>1, <1>4, <1>5, <1>6 DEF Goto, Calls, SameBlock, IsBlock, AtBottom
<1>8. /\ reported' \in BOOLEAN /\ (reported => reported') /\ scope' = scope
      /\ a.at \notin ListLabels /\ a.at \notin Waiting /\ a.at # "gather" /\ b.at \in Waiting
      /\ {"stmts", b.at} \cap ExprLabels = {}
      /\ a.at \notin {"lhs", "postfix", "operators", "rhs"}
  BY <1>1, <1>3, <1>4, <1>5 DEF Typed
<1>9. Starts(a, b)
  BY <1>1, <1>3, <1>4 DEF Starts
<1>10. Typed' /\ Quiet /\ CallsPlain
  BY <1>1, <1>2, <1>3, <1>4, <1>7, <1>8, <1>9, CallStep
<1> QED
  BY <1>2, <1>8, <1>10 DEF Changes

LEMMA EndOfSourceTypes ==
    ASSUME Typed, EndOfSource
    PROVE  Typed' /\ Changes /\ CallsPlain
<1> DEFINE a == At(This, "gather")
           b == Call("run")
<1>1. /\ Running("stmts") /\ Keep /\ UNCHANGED <<ret, nodes, scope, reported>>
      /\ window' \in WindowType /\ Goto(<<a, b>>) /\ This.node = 0
  BY DeclWindows DEF EndOfSource, At
<1>2. /\ Extends(nodes, nodes') /\ PlainNodes(nodes, nodes', reported')
      /\ ret' \in 0 .. Len(nodes') /\ Len(nodes') \in Nat
  BY <1>1, NodesKept
<1>3. CallOK(input, a, nodes') /\ a.at = "gather"
  <2>1. /\ "gather" \in Labels /\ "gather" \notin {"rhs", "operators", "operand"}
        /\ "gather" \notin Owners /\ "stmts" \in NodeLists /\ "gather" \notin TokenLists
    BY DEF Labels, Owners, NodeLists, ListLabels, TokenLists
  <2> QED
    BY <1>1, <1>2, <2>1, Relabelled
<1>4. CallOK(input, b, nodes') /\ b.at = "run"
  <2>1. "run" \in Labels \ (Owners \cup {"operators", "operand", "rhs"})
    BY DEF Labels, Owners
  <2> QED
    BY <1>2, <2>1, NewCall
<1> HIDE DEF a, b
<1>5. /\ "gather" \notin ListLabels \cup Waiting /\ "run" \in Waiting /\ "run" \notin ListLabels
      /\ {"stmts", "run"} \cap ExprLabels = {} /\ "stmts" \in ListLabels
  BY DEF ListLabels, Waiting, ExprLabels, Operands, Primaries, Infixes
<1>6. calls # <<>> /\ This.at = "stmts"
  BY <1>1, Innermost
<1>7. /\ Calls(a, b) /\ SameBlock(b, This) /\ AtBottom
  BY <1>1, <1>4, <1>5, <1>6 DEF Goto, Calls, SameBlock, IsBlock, AtBottom
<1>8. /\ reported' \in BOOLEAN /\ (reported => reported') /\ scope' = scope
      /\ a.at \notin ListLabels /\ a.at \notin Waiting /\ b.at \in Waiting
      /\ b.at \notin ListLabels /\ {"stmts", b.at} \cap ExprLabels = {}
      /\ a.at \notin {"lhs", "postfix", "operators", "rhs"}
  BY <1>1, <1>3, <1>4, <1>5 DEF Typed
<1>9. Typed' /\ Quiet /\ CallsPlain
  BY <1>1, <1>2, <1>3, <1>4, <1>7, <1>8, CallStep
<1> QED
  BY <1>2, <1>8, <1>9 DEF Changes

(* An error is added.                                                      *)
LEMMA ErrorAdded ==
    ASSUME Typed, nodes' = Append(nodes, ErrorNode)
    PROVE  /\ Extends(nodes, nodes') /\ PlainNodes(nodes, nodes', TRUE)
           /\ Len(nodes') = Len(nodes) + 1 /\ Len(nodes) \in Nat
           /\ NewId \in 1 .. Len(nodes')
<1>1. nodes \in Seq(NodeType(Len(nodes))) /\ Len(nodes) \in Nat
  BY LenProperties DEF Typed
<1>2. ErrorNode \in NodeType(Len(nodes) + 1) /\ ErrorNode.kind = "error"
  <2>1. Len(nodes) + 1 \in Nat
    BY <1>1
  <2> QED
    BY <2>1, ErrorIs
<1>3. ErrorNode.kind # "binary"
  BY <1>2
<1>4. Extends(nodes, nodes') /\ Len(nodes') = Len(nodes) + 1
  BY <1>1, <1>2, <1>3, NodeAdded
<1>5. PlainNodes(nodes, nodes', ErrorNode.kind = "error")
  BY <1>1, <1>2, <1>3, NodeAdded
<1> QED
  BY <1>1, <1>2, <1>4, <1>5 DEF PlainNodes, NewId

LEMMA Brace ==
    ASSUME NEW in, NEW ns, Len(ns) \in Nat
    PROVE  /\ CallOK(in, Call("brace"), ns) /\ Call("brace").at = "brace"
           /\ Call("brace").at \in Begins
<1>1. "brace" \in Begins
  BY DEF Begins, Keywords
<1> QED
  BY <1>1, Begin

LEMMA ThenTypes ==
    ASSUME Typed, Then
    PROVE  Typed' /\ Changes /\ CallsPlain
<1> DEFINE s == <<ret>>
           next == Listed(This, "else", s)
           braced == Current = "l_brace"
<1>1. /\ Running("then") /\ Keep /\ scope' = scope /\ window' \in WindowType
      /\ Report(~braced)
      /\ braced => Goto(<<Call("brace"), next>>) /\ UNCHANGED <<ret, nodes>>
      /\ ~braced => /\ nodes' = Append(nodes, ErrorNode) /\ ret' = NewId /\ Goto(<<next>>)
  BY DeclWindows DEF Then, Listed
<1>2. /\ reported' \in BOOLEAN /\ (reported => reported') /\ (~braced => reported')
  BY <1>1, Reports
<1>3. /\ "then" \notin ListLabels \cup ExprLabels /\ "then" \in Waiting \cap Owners
      /\ "else" \notin ListLabels \cup ExprLabels \cup {"gather"} /\ "else" \in Waiting \cap Owners
      /\ "else" \in Labels /\ "else" \notin {"rhs", "operators", "operand"} \cup TokenLists
  BY DEF ListLabels, ExprLabels, Operands, Primaries, Infixes, Waiting, Owners, Labels, TokenLists
<1>4. ret \in 1 .. Len(nodes) /\ Len(nodes) \in Nat
  BY <1>1, <1>3, Innermost
<1>5. ASSUME Extends(nodes, nodes'), Len(nodes') >= Len(nodes), Len(nodes') \in Nat
      PROVE  CallOK(input, next, nodes') /\ next.at = "else"
  <2>1. s \in Seq(1 .. Len(nodes')) /\ s \in Seq(Int)
    BY <1>4, <1>5
  <2> HIDE DEF s
  <2> QED
    BY <1>1, <1>3, <1>5, <2>1, Relisted
<1> HIDE DEF next, braced
<1>6. CASE braced
  <2>1. /\ Extends(nodes, nodes') /\ PlainNodes(nodes, nodes', reported')
        /\ ret' \in 0 .. Len(nodes') /\ Len(nodes') \in Nat /\ Len(nodes') = Len(nodes)
    BY <1>1, <1>6, NodesKept
  <2>2. CallOK(input, next, nodes') /\ next.at = "else" /\ {"then", next.at} \cap ExprLabels = {}
    BY <1>3, <1>5, <2>1
  <2>3. CallOK(input, Call("brace"), nodes') /\ Call("brace").at \in Begins
    BY <2>1, Brace
  <2> QED
    BY <1>1, <1>2, <1>3, <1>6, <2>1, <2>2, <2>3, Descends
<1>7. CASE ~braced
  <2>1. /\ Extends(nodes, nodes') /\ PlainNodes(nodes, nodes', TRUE)
        /\ Len(nodes') = Len(nodes) + 1 /\ NewId \in 1 .. Len(nodes')
    BY <1>1, <1>7, ErrorAdded
  <2>2. PlainNodes(nodes, nodes', reported') /\ ret' \in 0 .. Len(nodes') /\ ret' # 0
    BY <1>1, <1>2, <1>4, <1>7, <2>1 DEF PlainNodes
  <2>3. CallOK(input, next, nodes') /\ next.at = "else" /\ {"then", next.at} \cap ExprLabels = {}
    BY <1>3, <1>4, <1>5, <2>1
  <2> QED
    BY <1>1, <1>2, <1>3, <1>7, <2>1, <2>2, <2>3, Becomes
<1> QED
  BY <1>6, <1>7

LEMMA ElseTypes ==
    ASSUME Typed, Else
    PROVE  Typed' /\ Changes /\ CallsPlain
<1> DEFINE d == This.node
           ks == Append(This.list, ret)
           more == Current = "else"
<1>1. /\ Running("else") /\ Keep /\ UNCHANGED <<scope, reported>> /\ window' \in WindowType
      /\ more => Goto(<<Call("stmt"), Complete(d, ks)>>) /\ UNCHANGED <<ret, nodes>>
      /\ ~more => nodes' = [nodes EXCEPT ![d].kids = ks] /\ Return(d)
  BY DeclWindows DEF Else
<1>2. reported' \in BOOLEAN /\ (reported => reported') /\ scope' = scope
  BY <1>1 DEF Typed
<1>3. /\ "else" \notin ListLabels \cup ExprLabels /\ "else" \in Waiting \cap Owners \cap NodeLists
      /\ "complete" \notin ListLabels \cup ExprLabels /\ "complete" \in Waiting
      /\ {"else", "complete"} \cap ExprLabels = {} /\ "stmt" \in Begins
  BY DEF ListLabels, ExprLabels, Operands, Primaries, Infixes, Waiting, Owners, NodeLists, Begins
<1>4. /\ ret \in 1 .. Len(nodes) /\ Len(nodes) \in Nat /\ nodes \in Seq(NodeType(Len(nodes)))
      /\ CallOK(input, This, nodes) /\ This.at = "else"
  BY <1>1, <1>3, Innermost DEF Typed
<1>5. d \in 1 .. Len(nodes) /\ nodes[d].kind # "binary" /\ This.list \in Seq(1 .. Len(nodes))
  BY <1>3, <1>4 DEF CallOK
<1> HIDE DEF d
<1>6. ks \in Seq(1 .. Len(nodes))
  BY <1>4, <1>5, AppendProperties
<1> HIDE DEF ks
<1>7. CASE more
  <2>1. /\ Extends(nodes, nodes') /\ PlainNodes(nodes, nodes', reported')
        /\ ret' \in 0 .. Len(nodes') /\ Len(nodes') \in Nat /\ nodes' = nodes
    BY <1>1, <1>7, NodesKept
  <2>2. CallOK(input, Call("stmt"), nodes') /\ Call("stmt").at \in Begins
    BY <1>3, <2>1, Begin
  <2>3. CallOK(input, Complete(d, ks), nodes') /\ Complete(d, ks).at = "complete"
    <3>1. d \in 1 .. Len(nodes') /\ nodes'[d].kind # "binary" /\ ks \in Seq(1 .. Len(nodes'))
      BY <1>5, <1>6, <2>1
    <3> QED
      BY <2>1, <3>1, CompleteCall
  <2> QED
    BY <1>1, <1>2, <1>3, <1>7, <2>1, <2>2, <2>3, Descends
<1>8. CASE ~more
  <2> DEFINE ns2 == [nodes EXCEPT ![d].kids = ks]
  <2>1. /\ Extends(nodes, nodes') /\ PlainNodes(nodes, nodes', FALSE)
        /\ Len(nodes') = Len(nodes)
    <3>1. Extends(nodes, ns2) /\ PlainNodes(nodes, ns2, FALSE) /\ Len(ns2) = Len(nodes)
      BY <1>4, <1>5, <1>6, KidsSet
    <3>2. nodes' = ns2
      BY <1>1, <1>8
    <3> HIDE DEF ns2
    <3> QED
      BY <3>1, <3>2
  <2>2. PlainNodes(nodes, nodes', reported') /\ d \in 1 .. Len(nodes')
    BY <1>5, <2>1 DEF PlainNodes
  <2> QED
    BY <1>1, <1>2, <1>3, <1>8, <2>1, <2>2, Returns
<1> QED
  BY <1>7, <1>8

LEMMA BodyTypes ==
    ASSUME Typed, Body
    PROVE  Typed' /\ Changes /\ CallsPlain
<1> DEFINE d == This.node
           s == <<ret>>
           ks == <<ret, NewId>>
           ns2 == Append([nodes EXCEPT ![d].kids = ks], ErrorNode)
           braced == Current = "l_brace"
<1>1. /\ Running("body") /\ Keep /\ scope' = scope /\ window' \in WindowType
      /\ Report(~braced)
      /\ braced => Goto(<<Call("brace"), Complete(d, s)>>) /\ UNCHANGED <<ret, nodes>>
      /\ ~braced => nodes' = ns2 /\ Return(d)
  BY DeclWindows DEF Body
<1>2. reported' \in BOOLEAN /\ (reported => reported') /\ (~braced => reported')
  BY <1>1, Reports
<1>3. /\ "body" \notin ListLabels \cup ExprLabels /\ "body" \in Waiting \cap Owners
      /\ "complete" \notin ListLabels \cup ExprLabels /\ "complete" \in Waiting
      /\ {"body", "complete"} \cap ExprLabels = {}
  BY DEF ListLabels, ExprLabels, Operands, Primaries, Infixes, Waiting, Owners
<1>4. /\ ret \in 1 .. Len(nodes) /\ Len(nodes) \in Nat /\ nodes \in Seq(NodeType(Len(nodes)))
      /\ CallOK(input, This, nodes) /\ This.at = "body" /\ NewId = Len(nodes) + 1
  BY <1>1, <1>3, Innermost DEF Typed
<1>5. d \in 1 .. Len(nodes) /\ nodes[d].kind # "binary"
  BY <1>3, <1>4 DEF CallOK
<1>6. s \in Seq(1 .. Len(nodes)) /\ ks \in Seq(1 .. Len(nodes) + 1)
  <2>1. ret \in 1 .. Len(nodes) + 1 /\ NewId \in 1 .. Len(nodes) + 1
    BY <1>4
  <2> QED
    BY <1>4, <2>1
<1> HIDE DEF d, s, ks, braced
<1>7. CASE braced
  <2>1. /\ Extends(nodes, nodes') /\ PlainNodes(nodes, nodes', reported')
        /\ ret' \in 0 .. Len(nodes') /\ Len(nodes') \in Nat /\ nodes' = nodes
    BY <1>1, <1>7, NodesKept
  <2>2. CallOK(input, Call("brace"), nodes') /\ Call("brace").at \in Begins
    BY <2>1, Brace
  <2>3. CallOK(input, Complete(d, s), nodes') /\ Complete(d, s).at = "complete"
    <3>1. d \in 1 .. Len(nodes') /\ nodes'[d].kind # "binary" /\ s \in Seq(1 .. Len(nodes'))
      BY <1>5, <1>6, <2>1
    <3> QED
      BY <2>1, <3>1, CompleteCall
  <2> QED
    BY <1>1, <1>2, <1>3, <1>7, <2>1, <2>2, <2>3, Descends
<1>8. CASE ~braced
  <2>1. Extends(nodes, ns2) /\ PlainNodes(nodes, ns2, TRUE) /\ Len(ns2) = Len(nodes) + 1
    BY <1>4, <1>5, <1>6, ErrorChild
  <2>2. nodes' = ns2 /\ Return(d)
    BY <1>1, <1>8
  <2> HIDE DEF ns2
  <2>3. Extends(nodes, nodes') /\ PlainNodes(nodes, nodes', reported') /\ d \in 1 .. Len(nodes')
    BY <1>2, <1>4, <1>5, <1>8, <2>1, <2>2 DEF PlainNodes
  <2> QED
    BY <1>1, <1>2, <1>3, <2>2, <2>3, Returns
<1> QED
  BY <1>7, <1>8

-----------------------------------------------------------------------------
(* The types in expressions.                                               *)

LEMMA ExprLabelsAre ==
    /\ ExprLabels \cap (ListLabels \cup Owners \cup {"gather"}) = {}
    /\ ExprLabels \subseteq Labels
    /\ ExprLabels \cap Waiting = {"lhs", "rhs", "operand", "paren", "postfix", "arg"}
    /\ ExprLabels \cap NodeLists = {"args", "item", "arg", "operators"}
    /\ ExprLabels \cap TokenLists = {"operand"}
    /\ ExprLabels \cap Begins = {"infix", "prefix", "primary"}
  BY DEF ListLabels, ExprLabels, Operands, Primaries, Infixes, Owners, TokenLists, NodeLists,
         Labels, Waiting, Begins, Keywords, DeclLabels

LEMMA ExprLabel ==
    {"prefix", "operand", "postfix", "args", "item", "arg", "primary", "paren",
     "infix", "lhs", "operators", "rhs"} = ExprLabels
  BY DEF ExprLabels, Operands, Primaries, Infixes

LEMMA InfixTypes ==
    ASSUME Typed, Infix
    PROVE  Typed' /\ Changes
<1> DEFINE a == Call("prefix")
           b == At(This, "lhs")
<1>1. /\ Running("infix") /\ Keep /\ UNCHANGED <<window, ret, nodes, scope, reported>>
      /\ Goto(<<a, b>>)
  BY DEF Infix, At
<1>2. /\ Extends(nodes, nodes') /\ PlainNodes(nodes, nodes', reported')
      /\ ret' \in 0 .. Len(nodes') /\ Len(nodes') \in Nat
  BY <1>1, NodesKept
<1>3. CallOK(input, a, nodes') /\ a.at \in Begins
  <2>1. "prefix" \in Begins
    BY ExprLabel, ExprLabelsAre
  <2> QED
    BY <1>2, <2>1, Begin
<1>4. CallOK(input, b, nodes') /\ b.at = "lhs"
  <2>1. /\ "lhs" \in Labels /\ "lhs" \notin {"rhs", "operators", "operand"}
        /\ "lhs" \notin Owners \cup NodeLists \cup TokenLists
    BY ExprLabel, ExprLabelsAre
  <2> QED
    BY <1>1, <1>2, <2>1, Relabelled
<1> HIDE DEF a, b
<1>5. b.at \in Waiting \ ListLabels /\ "infix" \notin ListLabels
  BY <1>4, ExprLabel, ExprLabelsAre
<1>6. /\ reported' \in BOOLEAN /\ (reported => reported') /\ scope' = scope
      /\ window' \in WindowType
  BY <1>1 DEF Typed
<1> QED
  BY <1>1, <1>2, <1>3, <1>4, <1>5, <1>6, Descends

LEMMA LhsTypes ==
    ASSUME Typed, Lhs
    PROVE  Typed' /\ Changes
<1> DEFINE s == <<ret>>
           a == Listed(This, "operators", s)
<1>1. /\ Running("lhs") /\ Keep /\ UNCHANGED <<window, nodes, scope, reported>>
      /\ \/ Return(ret)
         \/ Goto(<<a>>) /\ ret' = ret
  BY DEF Lhs, Listed
<1>2. /\ Extends(nodes, nodes') /\ PlainNodes(nodes, nodes', reported')
      /\ Len(nodes') = Len(nodes) /\ Len(nodes) \in Nat
  <2>1. /\ Extends(nodes, nodes') /\ PlainNodes(nodes, nodes', FALSE)
        /\ Len(nodes') = Len(nodes) /\ Len(nodes) \in Nat
    BY <1>1, NodesStay
  <2> QED
    BY <2>1 DEF PlainNodes
<1>3. "lhs" \in Waiting \ ListLabels
  BY ExprLabel, ExprLabelsAre
<1>4. ret \in 1 .. Len(nodes') /\ ret \in 0 .. Len(nodes')
  BY <1>1, <1>2, <1>3, Innermost
<1>5. CallOK(input, a, nodes') /\ a.at = "operators"
  <2>1. /\ "operators" \in Labels /\ "operators" # "rhs"
        /\ "operators" \notin Owners \cup TokenLists
    BY ExprLabel, ExprLabelsAre
  <2>2. s \in Seq(Int) /\ s \in Seq(1 .. Len(nodes')) /\ Len(s) = 1
    BY <1>2, <1>4
  <2> HIDE DEF s
  <2> QED
    BY <1>1, <1>2, <2>1, <2>2, Relisted
<1> HIDE DEF a
<1>6. /\ reported' \in BOOLEAN /\ (reported => reported') /\ scope' = scope
      /\ window' \in WindowType
  BY <1>1 DEF Typed
<1>7. ASSUME Return(ret) PROVE Typed' /\ Changes
  BY <1>1, <1>2, <1>3, <1>4, <1>6, <1>7, Returns
<1>8. ASSUME Goto(<<a>>), ret' = ret PROVE Typed' /\ Changes
  <2>1. a.at \notin ListLabels \cup {"gather"} /\ a.at \notin Waiting
    BY <1>5, ExprLabel, ExprLabelsAre
  <2> QED
    BY <1>1, <1>2, <1>3, <1>4, <1>5, <1>6, <1>8, <2>1, Becomes
<1> QED
  BY <1>1, <1>7, <1>8

(* The infix operators.                                                    *)
LEMMA LevelIs ==
    ASSUME NEW k, NEW v \in Nat, v > 0, IsInfix(k, v)
    PROVE  /\ Level[k] \in 1 .. Shift /\ Level[k] >= v
           /\ Level[k] # Shift => Level[k] + 1 \in 1 .. Shift
           /\ k # "end" /\ k # "error"
           /\ \A u \in Nat : u <= Level[k] => IsInfix(k, u)
<1>1. k \in DOMAIN Level /\ Level[k] >= v
  BY DEF IsInfix
<1>2. Level[k] \in 0 .. Shift /\ k # "end" /\ k # "error"
  BY <1>1 DEF Level, Shift
<1> QED
  BY <1>1, <1>2 DEF IsInfix, Shift

(* The call that holds an operator.                                        *)
LEMMA RhsCall ==
    ASSUME Typed, Running("operators"), IsInfix(Current, This.level), UNCHANGED nodes
    PROVE  LET b == Listed(This, "rhs", Append(This.list, TokenAt(window, n)))
           IN  /\ CallOK(input, b, nodes') /\ b.at = "rhs" /\ b.level = This.level
               /\ b.list[1] = This.list[1] /\ b.list[2] = TokenAt(window, n)
               /\ Len(b.list) = 2 /\ LevelAt(b.list[2]) = Level[Current]
               /\ TokenAt(window, n) \in 1 .. n /\ input[TokenAt(window, n)].kind = Current
<1> DEFINE t == TokenAt(window, n)
           s == Append(This.list, t)
           b == Listed(This, "rhs", s)
<1>1. /\ CallOK(input, This, nodes) /\ This.at = "operators" /\ This \in CallType
      /\ n \in Nat /\ Len(nodes) \in Nat
  BY Innermost
<1>2. This.level \in 1 .. Shift /\ This.node \in Nat /\ This.from \in Int
  BY <1>1, CallFields
<1>3. This.level \in Nat /\ This.level > 0
  BY <1>2 DEF Shift
<1>4. Current # "end" /\ Current # "error"
  BY <1>3, LevelIs
<1>5. t \in 1 .. n /\ input[t].kind = Current
  BY <1>4, KindIs DEF Typed, Current
<1>6. This.list \in Seq(1 .. Len(nodes)) /\ Len(This.list) = 1
  BY <1>1, ExprLabel, ExprLabelsAre DEF CallOK
<1> HIDE DEF t
<1>7. s \in Seq(Int) /\ Len(s) = 2 /\ s[1] = This.list[1] /\ s[2] = t /\ s[1] \in 1 .. Len(nodes)
  <2>1. This.list \in Seq(Int) /\ t \in Int
    BY <1>1, <1>5, <1>6, IntSeq
  <2>2. This.list[1] \in 1 .. Len(nodes)
    BY <1>6, LenProperties
  <2>3. /\ s \in Seq(Int) /\ Len(s) = Len(This.list) + 1 /\ s[Len(This.list) + 1] = t
        /\ \A i \in 1 .. Len(This.list) : s[i] = This.list[i]
    BY <2>1, AppendProperties
  <2> HIDE DEF s
  <2> QED
    BY <1>6, <2>2, <2>3
<1> HIDE DEF s
<1>8. b = [at |-> "rhs", node |-> This.node, level |-> This.level, list |-> s,
           from |-> This.from]
  <2>1. [This EXCEPT !.at = "rhs", !.list = s]
          = [at |-> "rhs", node |-> This.node, level |-> This.level, list |-> s,
             from |-> This.from]
    BY <1>1, CallAt
  <2> QED
    BY <2>1 DEF Listed
<1>9. "rhs" \in Labels /\ "rhs" \notin Owners \cup NodeLists \cup TokenLists
      /\ "rhs" \notin {"operators", "operand"}
  BY ExprLabel, ExprLabelsAre
<1> HIDE DEF b
<1>10. b \in CallType
  BY <1>2, <1>7, <1>8, <1>9 DEF CallType
<1>11. IsInfix(input[s[2]].kind, b.level) /\ s[2] \in 1 .. Len(input)
  BY <1>5, <1>7, <1>8 DEF n
<1>12. b.node # 0 => b.node \in 1 .. Len(nodes') /\ nodes'[b.node].kind # "binary"
  BY <1>1, <1>8 DEF CallOK
<1>13. CallOK(input, b, nodes')
  BY <1>7, <1>8, <1>9, <1>10, <1>11, <1>12 DEF CallOK
<1>14. b.at = "rhs" /\ b.level = This.level /\ b.list = s
  BY <1>8
<1> QED
  BY <1>5, <1>7, <1>13, <1>14 DEF LevelAt, b, s, t

(* The call for the right operand.                                         *)
LEMMA RightCall ==
    ASSUME NEW in, NEW ns, Len(ns) \in Nat, NEW k, IsInfix(k, 1)
    PROVE  /\ CallOK(in, RightOf(k), ns) /\ RightOf(k).at \in Begins
           /\ Level[k] = Shift => RightOf(k).at = "prefix"
           /\ Level[k] # Shift => RightOf(k).at = "infix" /\ RightOf(k).level = Level[k] + 1
<1>1. Level[k] # Shift => Level[k] + 1 \in 1 .. Shift
  BY LevelIs
<1>2. CASE Level[k] = Shift
  <2>1. RightOf(k) = Call("prefix") /\ "prefix" \in Begins
    BY <1>2, ExprLabel, ExprLabelsAre DEF RightOf
  <2> QED
    BY <1>2, <2>1, Begin
<1>3. CASE Level[k] # Shift
  <2> DEFINE v == Level[k] + 1
             c == [Expr EXCEPT !.level = v]
  <2>1. RightOf(k) = c /\ v \in 1 .. Shift
    BY <1>1, <1>3 DEF RightOf
  <2> HIDE DEF v
  <2>2. c = [at |-> "infix", node |-> 0, level |-> v, list |-> <<>>, from |-> 0]
    BY DEF Expr, Call
  <2> HIDE DEF c
  <2>3. <<>> \in Seq(Int) /\ 0 \in Nat /\ 0 \in Int /\ "infix" \in Begins /\ "infix" \in Labels
        /\ "infix" \notin Owners \cup NodeLists \cup TokenLists
        /\ "infix" \notin {"operators", "operand", "rhs"}
    BY EmptyList, ExprLabel, ExprLabelsAre
  <2>4. CallOK(in, c, ns)
    BY <2>1, <2>2, <2>3, CallIs, ZenonT(60)
  <2> QED
    BY <1>3, <2>1, <2>2, <2>3, <2>4 DEF v
<1> QED
  BY <1>2, <1>3

LEMMA OperatorTypes ==
    ASSUME Typed, Operator
    PROVE  Typed' /\ Changes
<1> DEFINE a == RightOf(Current)
           b == Listed(This, "rhs", Append(This.list, TokenAt(window, n)))
<1>1. /\ Running("operators") /\ Keep /\ UNCHANGED <<ret, nodes, scope, reported>>
      /\ window' \in WindowType /\ Goto(<<a, b>>) /\ IsInfix(Current, This.level)
  BY DeclWindows DEF Operator, Listed
<1>2. /\ Extends(nodes, nodes') /\ PlainNodes(nodes, nodes', reported')
      /\ ret' \in 0 .. Len(nodes') /\ Len(nodes') \in Nat
  BY <1>1, NodesKept
<1>3. IsInfix(Current, 1)
  <2>1. This.level \in 1 .. Shift
    BY <1>1, Innermost, CallFields
  <2>2. This.level \in Nat /\ This.level > 0
    BY <2>1 DEF Shift
  <2>3. Level[Current] \in 1 .. Shift
    BY <1>1, <2>2, LevelIs
  <2> QED
    BY <1>1, <2>3 DEF IsInfix, Shift
<1>4. CallOK(input, a, nodes') /\ a.at \in Begins
  BY <1>2, <1>3, RightCall
<1>5. CallOK(input, b, nodes') /\ b.at = "rhs"
  BY <1>1, RhsCall
<1> HIDE DEF a, b
<1>6. b.at \in Waiting \ ListLabels /\ "operators" \notin ListLabels
  BY <1>5, ExprLabel, ExprLabelsAre
<1>7. reported' \in BOOLEAN /\ (reported => reported') /\ scope' = scope
  BY <1>1 DEF Typed
<1> QED
  BY <1>1, <1>2, <1>4, <1>5, <1>6, <1>7, Descends

LEMMA NoOperatorTypes ==
    ASSUME Typed, NoOperator
    PROVE  Typed' /\ Changes
<1> DEFINE id == This.list[1]
<1>1. /\ Running("operators") /\ Keep /\ UNCHANGED <<nodes, scope, reported>>
      /\ window' \in WindowType /\ Return(id)
  BY DeclWindows DEF NoOperator
<1>2. /\ Extends(nodes, nodes') /\ PlainNodes(nodes, nodes', reported')
      /\ Len(nodes') = Len(nodes) /\ Len(nodes) \in Nat
  <2>1. /\ Extends(nodes, nodes') /\ PlainNodes(nodes, nodes', FALSE)
        /\ Len(nodes') = Len(nodes) /\ Len(nodes) \in Nat
    BY <1>1, NodesStay
  <2> QED
    BY <2>1 DEF PlainNodes
<1>3. id \in 1 .. Len(nodes')
  <2>1. CallOK(input, This, nodes) /\ This.at = "operators"
    BY <1>1, Innermost
  <2>2. This.list \in Seq(1 .. Len(nodes)) /\ Len(This.list) = 1
    BY <2>1, ExprLabel, ExprLabelsAre DEF CallOK
  <2>3. This.list[1] \in 1 .. Len(nodes)
    BY <2>2, LenProperties
  <2> QED
    BY <1>2, <2>3
<1> HIDE DEF id
<1>4. "operators" \notin ListLabels
  BY ExprLabel, ExprLabelsAre
<1>5. reported' \in BOOLEAN /\ (reported => reported') /\ scope' = scope
  BY <1>1 DEF Typed
<1> QED
  BY <1>1, <1>2, <1>3, <1>4, <1>5, Returns

LEMMA RhsTypes ==
    ASSUME Typed, Rhs
    PROVE  /\ Typed' /\ Extends(nodes, nodes') /\ Quiet /\ reported' = reported
           /\ Len(nodes') = Len(nodes) + 1
           /\ \A id \in 1 .. Len(nodes) : nodes'[id] = nodes[id]
           /\ nodes'[NewId].kind = "binary"
           /\ nodes'[NewId].toks = <<This.list[2]>>
           /\ nodes'[NewId].kids = <<This.list[1], ret>>
<1> DEFINE ts == <<This.list[2]>>
           ks == <<This.list[1], ret>>
           u == Node("binary", ts, ks)
           s == <<NewId>>
           a == Listed(This, "operators", s)
           m == Len(nodes) + 1
<1>1. /\ Running("rhs") /\ Keep /\ UNCHANGED <<window, ret, scope, reported>>
      /\ nodes' = Append(nodes, u) /\ Goto(<<a>>)
  BY DEF Rhs, Listed, New
<1>2. /\ CallOK(input, This, nodes) /\ This.at = "rhs" /\ calls # <<>> /\ m \in Nat
      /\ ret \in 1 .. Len(nodes) /\ Len(nodes) \in Nat /\ NewId = m
      /\ nodes \in Seq(NodeType(Len(nodes)))
  BY <1>1, ExprLabel, ExprLabelsAre, Innermost DEF Typed
<1>3. ts \in Seq(0 .. n) /\ ks \in Seq(1 .. m)
  <2>1. This.list[1] \in 1 .. Len(nodes) /\ This.list[2] \in 1 .. n
    BY <1>2 DEF CallOK, n
  <2>2. This.list[1] \in 1 .. m /\ ret \in 1 .. m /\ This.list[2] \in 0 .. n
    BY <1>2, <2>1
  <2> QED
    BY <2>2
<1>4. u \in NodeType(m) /\ u.kind = "binary" /\ u.toks = ts /\ u.kids = ks
  <2>1. "binary" \in NodeKinds
    BY DEF NodeKinds
  <2> HIDE DEF ts, ks, m
  <2> QED
    BY <1>2, <1>3, <2>1, NodeIs
<1> HIDE DEF u
<1>5. /\ Extends(nodes, nodes') /\ Len(nodes') = m /\ nodes'[m] = u
      /\ \A id \in 1 .. Len(nodes) : nodes'[id] = nodes[id]
  <2> DEFINE all == Append(nodes, u)
  <2>1. /\ Extends(nodes, all) /\ Len(all) = Len(nodes) + 1 /\ all[Len(nodes) + 1] = u
        /\ \A id \in 1 .. Len(nodes) : all[id] = nodes[id]
    BY <1>2, <1>4, ExtendsNew
  <2> QED
    BY <1>1, <2>1
<1>6. CallOK(input, a, nodes') /\ a.at = "operators"
  <2>1. /\ "operators" \in Labels /\ "operators" # "rhs"
        /\ "operators" \notin Owners \cup TokenLists
    BY ExprLabel, ExprLabelsAre
  <2>2. s \in Seq(Int) /\ s \in Seq(1 .. Len(nodes')) /\ Len(s) = 1
    BY <1>2, <1>5
  <2> HIDE DEF s
  <2> QED
    BY <1>1, <1>5, <2>1, <2>2, Relisted
<1> HIDE DEF a
<1>7. /\ Puts(a) /\ SameBlock(a, This) /\ a.at \notin ListLabels /\ a.at # "gather"
      /\ a.at \notin Waiting
  BY <1>1, <1>2, <1>6, ExprLabel, ExprLabelsAre DEF Goto, Puts, SameBlock, IsBlock
<1>8. /\ reported' \in BOOLEAN /\ scope' = scope /\ window' \in WindowType
      /\ ret' \in 0 .. Len(nodes') /\ reported' = reported
  BY <1>1, <1>2, <1>5 DEF Typed
<1>9. Typed' /\ Quiet
  BY <1>1, <1>5, <1>6, <1>7, <1>8, PutStep
<1> QED
  BY <1>2, <1>4, <1>5, <1>8, <1>9

(* A new call with a list.                                                 *)
With(l, s) == [Call(l) EXCEPT !.list = s]

LEMMA WithCall ==
    ASSUME NEW in, NEW ns, Len(ns) \in Nat, NEW l \in {"operand", "args"}, NEW s \in Seq(Int),
           l = "operand" => s \in Seq(0 .. Len(in)) /\ Len(s) = 1,
           l = "args" => s \in Seq(1 .. Len(ns))
    PROVE  /\ CallOK(in, With(l, s), ns) /\ With(l, s).at = l /\ With(l, s).list = s
<1>1. With(l, s) = [at |-> l, node |-> 0, level |-> 1, list |-> s, from |-> 0]
  BY DEF With, Call
<1>2. 0 \in Nat /\ 0 \in Int /\ 1 \in 1 .. Shift
  BY DEF Shift
<1>3. /\ l \in Labels /\ l \notin Owners /\ (l \in NodeLists => l = "args") /\ l # "rhs"
      /\ (l \in TokenLists => l = "operand") /\ (l \in {"operators", "operand"} => l = "operand")
  BY ExprLabel, ExprLabelsAre
<1>4. CallOK(in, With(l, s), ns)
  <2>1. /\ l \in NodeLists => s \in Seq(1 .. Len(ns))
        /\ l \in TokenLists => s \in Seq(0 .. Len(in))
        /\ l \in {"operators", "operand"} => Len(s) = 1
    BY <1>3
  <2> DEFINE d == 0
             v == 1
             f == 0
  <2>2. d \in Nat /\ v \in 1 .. Shift /\ f \in Int /\ ~(d # 0)
    BY <1>2
  <2> HIDE DEF d, v, f
  <2>3. CallOK(in, [at |-> l, node |-> d, level |-> v, list |-> s, from |-> f], ns)
    BY <1>3, <2>1, <2>2, CallIs
  <2> QED
    BY <1>1, <2>3 DEF d, v, f
<1> QED
  BY <1>1, <1>4

LEMMA PlainCall ==
    ASSUME NEW in, NEW ns, Len(ns) \in Nat, NEW l \in {"postfix", "paren"}
    PROVE  CallOK(in, Call(l), ns) /\ Call(l).at = l
<1>1. l \in Labels \ (Owners \cup {"operators", "operand", "rhs"})
  BY ExprLabel, ExprLabelsAre
<1> QED
  BY <1>1, NewCall

LEMMA PrefixOperatorTypes ==
    ASSUME Typed, PrefixOperator
    PROVE  Typed' /\ Changes
<1> DEFINE t == TokenAt(window, n)
           s == <<t>>
           b == With("operand", s)
<1>1. /\ Running("prefix") /\ Keep /\ UNCHANGED <<ret, nodes, scope, reported>>
      /\ window' \in WindowType /\ Goto(<<Expr, b>>) /\ Current \in PrefixKinds
  BY DeclWindows DEF PrefixOperator, With
<1>2. /\ Extends(nodes, nodes') /\ PlainNodes(nodes, nodes', reported')
      /\ ret' \in 0 .. Len(nodes') /\ Len(nodes') \in Nat
  BY <1>1, NodesKept
<1>3. t \in 1 .. n /\ n \in Nat
  <2>1. Current # "end" /\ Current # "error"
    BY <1>1 DEF PrefixKinds
  <2> QED
    BY <2>1, KindIs, DeclWindows DEF Typed, Current
<1>4. CallOK(input, Expr, nodes') /\ Expr.at \in Begins
  BY <1>2, BeginExpr
<1>5. CallOK(input, b, nodes') /\ b.at = "operand"
  <2>1. s \in Seq(Int) /\ s \in Seq(0 .. Len(input)) /\ Len(s) = 1
    BY <1>3 DEF n
  <2> HIDE DEF s
  <2>2. "operand" \in {"operand", "args"} /\ "operand" # "args"
    OBVIOUS
  <2> QED
    BY <1>2, <2>1, <2>2, WithCall
<1> HIDE DEF b
<1>6. b.at \in Waiting \ ListLabels /\ "prefix" \notin ListLabels
  BY <1>5, ExprLabel, ExprLabelsAre
<1>7. reported' \in BOOLEAN /\ (reported => reported') /\ scope' = scope
  BY <1>1 DEF Typed
<1> QED
  BY <1>1, <1>2, <1>4, <1>5, <1>6, <1>7, Descends

LEMMA NoPrefixTypes ==
    ASSUME Typed, NoPrefix
    PROVE  Typed' /\ Changes
<1> DEFINE a == Call("primary")
           b == Call("postfix")
<1>1. /\ Running("prefix") /\ Keep /\ UNCHANGED <<ret, nodes, scope, reported>>
      /\ window' \in WindowType /\ Goto(<<a, b>>)
  BY DeclWindows DEF NoPrefix
<1>2. /\ Extends(nodes, nodes') /\ PlainNodes(nodes, nodes', reported')
      /\ ret' \in 0 .. Len(nodes') /\ Len(nodes') \in Nat
  BY <1>1, NodesKept
<1>3. CallOK(input, a, nodes') /\ a.at \in Begins
  <2>1. "primary" \in Begins
    BY ExprLabel, ExprLabelsAre
  <2> QED
    BY <1>2, <2>1, Begin
<1>4. CallOK(input, b, nodes') /\ b.at = "postfix"
  BY <1>2, PlainCall
<1> HIDE DEF a, b
<1>5. b.at \in Waiting \ ListLabels /\ "prefix" \notin ListLabels
  BY <1>4, ExprLabel, ExprLabelsAre
<1>6. reported' \in BOOLEAN /\ (reported => reported') /\ scope' = scope
  BY <1>1 DEF Typed
<1> QED
  BY <1>1, <1>2, <1>3, <1>4, <1>5, <1>6, Descends

LEMMA OpenParenTypes ==
    ASSUME Typed, OpenParen
    PROVE  Typed' /\ Changes
<1> DEFINE b == Call("paren")
<1>1. /\ Running("primary") /\ Keep /\ UNCHANGED <<ret, nodes, scope, reported>>
      /\ window' \in WindowType /\ Goto(<<Expr, b>>)
  BY DeclWindows DEF OpenParen
<1>2. /\ Extends(nodes, nodes') /\ PlainNodes(nodes, nodes', reported')
      /\ ret' \in 0 .. Len(nodes') /\ Len(nodes') \in Nat
  BY <1>1, NodesKept
<1>3. CallOK(input, Expr, nodes') /\ Expr.at \in Begins
  BY <1>2, BeginExpr
<1>4. CallOK(input, b, nodes') /\ b.at = "paren"
  BY <1>2, PlainCall
<1> HIDE DEF b
<1>5. b.at \in Waiting \ ListLabels /\ "primary" \notin ListLabels
  BY <1>4, ExprLabel, ExprLabelsAre
<1>6. reported' \in BOOLEAN /\ (reported => reported') /\ scope' = scope
  BY <1>1 DEF Typed
<1> QED
  BY <1>1, <1>2, <1>3, <1>4, <1>5, <1>6, Descends

LEMMA OperandTypes ==
    ASSUME Typed, Operand
    PROVE  Typed' /\ Changes /\ nodes'[ret'].kind = "unary"
<1> DEFINE ts == This.list
<1>1. /\ Running("operand") /\ Keep /\ UNCHANGED <<window, scope, reported>>
      /\ nodes' = New("unary", ts, <<ret>>) /\ Return(NewId)
  BY DEF Operand
<1>2. ts \in Seq(0 .. n)
  <2>1. CallOK(input, This, nodes) /\ This.at = "operand"
    BY <1>1, Innermost
  <2> QED
    BY <2>1, ExprLabel, ExprLabelsAre DEF CallOK, n
<1> HIDE DEF ts
<1>3. /\ reported' \in BOOLEAN /\ (reported => reported') /\ window' \in WindowType
      /\ scope' = scope
  BY <1>1 DEF Typed
<1>4. "operand" \in Waiting \ ListLabels /\ "unary" \in NodeKinds \ {"binary", "error"}
  BY ExprLabel, ExprLabelsAre DEF NodeKinds
<1> QED
  BY <1>1, <1>2, <1>3, <1>4, Wraps

LEMMA CloseParenTypes ==
    ASSUME Typed, CloseParen
    PROVE  Typed' /\ Changes /\ nodes'[ret'].kind = "paren"
<1> DEFINE ts == <<>>
<1>1. /\ Running("paren") /\ Keep /\ scope' = scope /\ window' \in WindowType
      /\ Report(Current # "r_paren")
      /\ nodes' = New("paren", ts, <<ret>>) /\ Return(NewId)
  BY DeclWindows DEF CloseParen
<1>2. ts \in Seq(0 .. n)
  BY EmptyList
<1> HIDE DEF ts
<1>3. reported' \in BOOLEAN /\ (reported => reported')
  BY <1>1, Reports
<1>4. "paren" \in Waiting \ ListLabels /\ "paren" \in NodeKinds \ {"binary", "error"}
  BY ExprLabel, ExprLabelsAre DEF NodeKinds
<1> QED
  BY <1>1, <1>2, <1>3, <1>4, Wraps

LEMMA AtomTypes ==
    ASSUME Typed, Atom
    PROVE  Typed' /\ Changes /\ nodes'[ret'].kind = Current
<1> DEFINE t == TokenAt(window, n)
           ts == <<t>>
<1>1. /\ Running("primary") /\ Keep /\ UNCHANGED <<scope, reported>> /\ window' \in WindowType
      /\ nodes' = New(Current, ts, <<>>) /\ Return(NewId) /\ Current \in {"literal", "name"}
  BY DeclWindows DEF Atom
<1>2. Current \in NodeKinds \ {"binary", "error"} /\ Current # "end"
  BY <1>1 DEF NodeKinds
<1>3. ts \in Seq(0 .. n)
  <2>1. t \in 1 .. n /\ n \in Nat
    BY <1>2, KindIs, DeclWindows DEF Typed, Current
  <2> QED
    BY <2>1
<1> HIDE DEF ts
<1>4. "primary" \notin ListLabels
  BY ExprLabel, ExprLabelsAre
<1>5. /\ Extends(nodes, nodes') /\ PlainNodes(nodes, nodes', reported')
      /\ NewId \in 1 .. Len(nodes') /\ nodes'[NewId].kind = Current
  BY <1>1, <1>2, <1>3, LeafAdded
<1>6. reported' \in BOOLEAN /\ (reported => reported') /\ scope' = scope /\ ret' = NewId
  BY <1>1 DEF Typed, Return
<1>7. Typed' /\ Changes
  BY <1>1, <1>4, <1>5, <1>6, Returns
<1> QED
  BY <1>5, <1>6, <1>7

LEMMA NoExprTypes ==
    ASSUME Typed, NoExpr \/ ExprAtEnd
    PROVE  Typed' /\ Changes
<1>1. /\ Running("primary") /\ Keep /\ scope' = scope /\ window' \in WindowType
      /\ nodes' = Append(nodes, ErrorNode) /\ reported' = TRUE /\ Return(NewId)
  BY DeclWindows DEF NoExpr, ExprAtEnd
<1>2. "primary" \notin ListLabels
  BY ExprLabel, ExprLabelsAre
<1> QED
  BY <1>1, <1>2, ErrorReturn

LEMMA PostfixDoneTypes ==
    ASSUME Typed, PostfixDone
    PROVE  Typed' /\ Changes
<1>1. /\ Running("postfix") /\ Keep /\ UNCHANGED <<nodes, scope, reported>>
      /\ window' \in WindowType /\ Return(ret)
  BY DeclWindows DEF PostfixDone
<1>2. /\ Extends(nodes, nodes') /\ PlainNodes(nodes, nodes', reported')
      /\ Len(nodes') = Len(nodes)
  <2>1. /\ Extends(nodes, nodes') /\ PlainNodes(nodes, nodes', FALSE)
        /\ Len(nodes') = Len(nodes)
    BY <1>1, NodesStay
  <2> QED
    BY <2>1 DEF PlainNodes
<1>3. "postfix" \in Waiting \ ListLabels
  BY ExprLabel, ExprLabelsAre
<1>4. ret \in 1 .. Len(nodes')
  BY <1>1, <1>2, <1>3, Innermost
<1>5. reported' \in BOOLEAN /\ (reported => reported') /\ scope' = scope
  BY <1>1 DEF Typed
<1> QED
  BY <1>1, <1>2, <1>3, <1>4, <1>5, Returns

LEMMA MemberTypes ==
    ASSUME Typed, Member
    PROVE  Typed' /\ Changes /\ nodes'[ret'].kind # "binary"
<1> DEFINE rest == Take(window)
           t == TokenAt(rest, n)
           ts == <<t>>
           ks == <<ret>>
           named == Kind(rest) = "name"
           m == Len(nodes) + 1
           u == Node("member", ts, ks)
           v == [nodes[ret] EXCEPT !.kind = "error"]
           ns2 == [nodes EXCEPT ![ret].kind = "error"]
<1>1. /\ Running("postfix") /\ Keep /\ scope' = scope
      /\ named => /\ window' = Take(rest) /\ nodes' = Append(nodes, u) /\ ret' = NewId
                  /\ UNCHANGED <<calls, reported>>
      /\ ~named => /\ window' = Peeked(rest, n) /\ nodes' = ns2 /\ reported' = TRUE
                   /\ Return(ret)
  BY DEF Member, New
<1>2. /\ input \in Seq(Token) /\ n \in Nat /\ rest \in WindowType
      /\ nodes \in Seq(NodeType(Len(nodes)))
  BY DeclWindows DEF Typed
<1>3. window' \in WindowType
  <2> HIDE DEF rest
  <2> QED
    BY <1>1, <1>2, TakeType, PeekType
<1>4. "postfix" \in Waiting \ ListLabels
  BY ExprLabel, ExprLabelsAre
<1>5. ret \in 1 .. Len(nodes) /\ Len(nodes) \in Nat /\ NewId = m
  BY <1>1, <1>4, Innermost
<1>6. reported \in BOOLEAN
  BY DEF Typed
<1>7. CASE named
  <2>1. ts \in Seq(0 .. n) /\ ks \in Seq(1 .. m) /\ m \in Nat
    <3>1. t \in 1 .. n
      BY <1>2, <1>7, KindIs
    <3>2. ret \in 1 .. m /\ m \in Nat
      BY <1>5
    <3> QED
      BY <1>2, <3>1, <3>2
  <2>2. u \in NodeType(m) /\ u.kind = "member"
    <3>1. "member" \in NodeKinds
      BY DEF NodeKinds
    <3> HIDE DEF ts, ks, m
    <3> QED
      BY <2>1, <3>1, NodeIs
  <2> HIDE DEF u, named
  <2>3. /\ Extends(nodes, nodes') /\ PlainNodes(nodes, nodes', u.kind = "error")
        /\ Len(nodes') = m /\ nodes'[m] = u
    <3> DEFINE all == Append(nodes, u)
    <3>1. u.kind # "binary"
      BY <2>2
    <3>2. /\ Extends(nodes, all) /\ PlainNodes(nodes, all, u.kind = "error")
          /\ Len(all) = Len(nodes) + 1 /\ all[Len(nodes) + 1] = u
      BY <1>2, <2>2, <3>1, NodeAdded
    <3> QED
      BY <1>1, <1>7, <3>2
  <2>4. PlainNodes(nodes, nodes', reported')
    BY <2>2, <2>3 DEF PlainNodes
  <2>5. /\ ret' \in 0 .. Len(nodes') /\ ret' # 0 /\ reported' \in BOOLEAN
        /\ reported' = reported /\ calls' = calls
    BY <1>1, <1>5, <1>6, <1>7, <2>3
  <2>6. Typed' /\ Quiet
    BY <1>1, <1>3, <1>4, <2>3, <2>5, SameStep
  <2>7. nodes'[ret'].kind # "binary"
    BY <1>1, <1>5, <1>7, <2>2, <2>3
  <2> QED
    BY <2>3, <2>4, <2>5, <2>6, <2>7 DEF Changes
<1>8. CASE ~named
  <2>1. /\ v \in NodeType(Len(nodes)) /\ v.kind = "error" /\ v.outer = nodes[ret].outer
    <3>1. /\ nodes[ret] = [kind |-> nodes[ret].kind, toks |-> nodes[ret].toks,
                           kids |-> nodes[ret].kids, decls |-> nodes[ret].decls,
                           outer |-> nodes[ret].outer]
          /\ nodes[ret].toks \in Seq(0 .. n) /\ nodes[ret].kids \in Seq(1 .. Len(nodes))
          /\ nodes[ret].decls \in Seq(1 .. Len(nodes)) /\ nodes[ret].outer \in 0 .. Len(nodes)
      BY <1>2, <1>5, NodeFields
    <3>2. v = [kind |-> "error", toks |-> nodes[ret].toks, kids |-> nodes[ret].kids,
               decls |-> nodes[ret].decls, outer |-> nodes[ret].outer]
      BY <3>1
    <3>3. "error" \in NodeKinds
      BY DEF NodeKinds
    <3> HIDE DEF v
    <3> QED
      BY <3>1, <3>2, <3>3 DEF NodeType
  <2>2. nodes' = [nodes EXCEPT ![ret] = v] /\ reported' = TRUE /\ Return(ret)
    BY <1>1, <1>8
  <2> HIDE DEF v, ns2, named
  <2>3. /\ Extends(nodes, nodes') /\ Len(nodes') = Len(nodes) /\ nodes'[ret] = v
        /\ \A i \in 1 .. Len(nodes) : i # ret => nodes'[i] = nodes[i]
    <3> DEFINE all == [nodes EXCEPT ![ret] = v]
    <3>1. Extends(nodes, all)
      BY <1>2, <1>5, <2>1, ExtendsSet
    <3>2. Len(all) = Len(nodes) /\ all[ret] = v
      BY <1>2, <1>5, <2>1, ExtendsSet
    <3>3. \A i \in 1 .. Len(nodes) : i # ret => all[i] = nodes[i]
      BY <1>2, <1>5, <2>1, ExtendsSet
    <3> HIDE DEF all
    <3>4. nodes' = all
      BY <2>2 DEF all
    <3> QED
      BY <3>1, <3>2, <3>3, <3>4
  <2>4. PlainNodes(nodes, nodes', reported')
    BY <2>1, <2>2, <2>3 DEF PlainNodes
  <2>5. Typed' /\ Changes
    BY <1>1, <1>3, <1>4, <1>5, <2>2, <2>3, <2>4, Returns
  <2>6. ret' = ret
    BY <2>2 DEF Return
  <2> QED
    BY <2>1, <2>3, <2>5, <2>6
<1> QED
  BY <1>7, <1>8

LEMMA OpenArgsTypes ==
    ASSUME Typed, OpenArgs
    PROVE  Typed' /\ Changes
<1> DEFINE s == <<ret>>
           a == With("args", s)
<1>1. /\ Running("postfix") /\ Keep /\ UNCHANGED <<ret, nodes, scope, reported>>
      /\ window' \in WindowType /\ Goto(<<a>>)
  BY DeclWindows DEF OpenArgs, With
<1>2. /\ Extends(nodes, nodes') /\ PlainNodes(nodes, nodes', reported')
      /\ ret' \in 0 .. Len(nodes') /\ Len(nodes') \in Nat /\ Len(nodes') = Len(nodes)
  BY <1>1, NodesKept
<1>3. "postfix" \in Waiting \ ListLabels
  BY ExprLabel, ExprLabelsAre
<1>4. CallOK(input, a, nodes') /\ a.at = "args"
  <2>1. ret \in 1 .. Len(nodes')
    BY <1>1, <1>2, <1>3, Innermost
  <2>2. s \in Seq(Int) /\ s \in Seq(1 .. Len(nodes'))
    BY <1>2, <2>1
  <2> HIDE DEF s
  <2>3. "args" \in {"operand", "args"} /\ "args" # "operand"
    OBVIOUS
  <2> QED
    BY <1>2, <2>2, <2>3, WithCall
<1> HIDE DEF a
<1>5. a.at \notin ListLabels \cup {"gather"} /\ a.at \notin Waiting
  BY <1>4, ExprLabel, ExprLabelsAre
<1>6. reported' \in BOOLEAN /\ (reported => reported') /\ scope' = scope
  BY <1>1 DEF Typed
<1> QED
  BY <1>1, <1>2, <1>3, <1>4, <1>5, <1>6, Becomes

LEMMA NextArgTypes ==
    ASSUME Typed, NextArg
    PROVE  Typed' /\ Changes
<1> DEFINE a == At(This, "item")
<1>1. /\ Running("args") /\ Keep /\ scope' = scope /\ UNCHANGED <<nodes, ret>>
      /\ window' \in WindowType /\ Goto(<<a>>) /\ Report(Current = "comma")
  BY DeclWindows DEF NextArg, At
<1>2. /\ Extends(nodes, nodes') /\ PlainNodes(nodes, nodes', reported')
      /\ ret' \in 0 .. Len(nodes')
  BY <1>1, NodesKept
<1>3. CallOK(input, a, nodes') /\ a.at = "item"
  <2>1. /\ "item" \in Labels /\ "item" \notin {"rhs", "operators", "operand"}
        /\ "args" \in NodeLists /\ "item" \notin Owners \cup TokenLists
    BY ExprLabel, ExprLabelsAre
  <2> QED
    BY <1>1, <1>2, <2>1, Relabelled
<1> HIDE DEF a
<1>4. a.at \notin ListLabels \cup {"gather"} /\ a.at \notin Waiting /\ "args" \notin ListLabels
  BY <1>3, ExprLabel, ExprLabelsAre
<1>5. reported' \in BOOLEAN /\ (reported => reported')
  BY <1>1, Reports
<1> QED
  BY <1>1, <1>2, <1>3, <1>4, <1>5, Becomes

LEMMA ArgTypes ==
    ASSUME Typed, Arg
    PROVE  Typed' /\ Changes
<1> DEFINE b == At(This, "arg")
<1>1. /\ Running("item") /\ Keep /\ UNCHANGED <<ret, nodes, scope, reported>>
      /\ window' \in WindowType /\ Goto(<<Expr, b>>)
  BY DeclWindows DEF Arg, At
<1>2. /\ Extends(nodes, nodes') /\ PlainNodes(nodes, nodes', reported')
      /\ ret' \in 0 .. Len(nodes') /\ Len(nodes') \in Nat
  BY <1>1, NodesKept
<1>3. CallOK(input, Expr, nodes') /\ Expr.at \in Begins
  BY <1>2, BeginExpr
<1>4. CallOK(input, b, nodes') /\ b.at = "arg"
  <2>1. /\ "arg" \in Labels /\ "arg" \notin {"rhs", "operators", "operand"}
        /\ "item" \in NodeLists /\ "arg" \notin Owners \cup TokenLists
    BY ExprLabel, ExprLabelsAre
  <2> QED
    BY <1>1, <1>2, <2>1, Relabelled
<1> HIDE DEF b
<1>5. b.at \in Waiting \ ListLabels /\ "item" \notin ListLabels
  BY <1>4, ExprLabel, ExprLabelsAre
<1>6. reported' \in BOOLEAN /\ (reported => reported') /\ scope' = scope
  BY <1>1 DEF Typed
<1> QED
  BY <1>1, <1>2, <1>3, <1>4, <1>5, <1>6, Descends

LEMMA ArgParsedTypes ==
    ASSUME Typed, ArgParsed, ~Overflow
    PROVE  Typed' /\ Changes
<1> DEFINE s == Append(This.list, ret)
           a == Listed(This, "args", s)
<1>1. /\ Running("arg") /\ Keep /\ UNCHANGED <<ret, nodes, scope>>
      /\ window' \in WindowType /\ Goto(<<a>>)
      /\ Report(Current \notin {"comma", "r_paren", "end"})
  BY DeclWindows DEF ArgParsed, Listed
<1>2. /\ Extends(nodes, nodes') /\ PlainNodes(nodes, nodes', reported')
      /\ ret' \in 0 .. Len(nodes') /\ Len(nodes') \in Nat /\ Len(nodes') = Len(nodes)
  BY <1>1, NodesKept
<1>3. "arg" \in Waiting \ ListLabels /\ "arg" \in NodeLists
  BY ExprLabel, ExprLabelsAre
<1>4. CallOK(input, This, nodes) /\ This.at = "arg" /\ ret \in 1 .. Len(nodes)
  BY <1>1, <1>3, Innermost
<1>5. s \in Seq(Int) /\ s \in Seq(1 .. Len(nodes'))
  <2>1. This.list \in Seq(1 .. Len(nodes))
    BY <1>3, <1>4 DEF CallOK
  <2>2. s \in Seq(1 .. Len(nodes))
    BY <1>4, <2>1, AppendProperties
  <2> QED
    BY <1>2, <2>2, IntSeq
<1> HIDE DEF s
<1>6. CallOK(input, a, nodes') /\ a.at = "args"
  <2>1. /\ "args" \in Labels /\ "args" \notin {"rhs", "operators", "operand"}
        /\ "args" \notin Owners \cup TokenLists
    BY ExprLabel, ExprLabelsAre
  <2> QED
    BY <1>1, <1>2, <1>5, <2>1, Relisted
<1> HIDE DEF a
<1>7. a.at \notin ListLabels \cup {"gather"} /\ a.at \notin Waiting
  BY <1>6, ExprLabel, ExprLabelsAre
<1>8. reported' \in BOOLEAN /\ (reported => reported') /\ scope' = scope
  BY <1>1, Reports
<1> QED
  BY <1>1, <1>2, <1>3, <1>6, <1>7, <1>8, Becomes

LEMMA CloseArgsTypes ==
    ASSUME Typed, CloseArgs
    PROVE  Typed' /\ Changes /\ nodes'[ret'].kind = "apply"
<1> DEFINE ts == <<>>
           ks == This.list
           a == Call("postfix")
           u == Node("apply", ts, ks)
           m == Len(nodes) + 1
<1>1. /\ Running("args") /\ Keep /\ scope' = scope /\ window' \in WindowType
      /\ Report(Current = "end") /\ nodes' = Append(nodes, u) /\ ret' = NewId /\ Goto(<<a>>)
  BY DeclWindows DEF CloseArgs, New
<1>2. /\ CallOK(input, This, nodes) /\ This.at = "args" /\ NewId = m /\ Len(nodes) \in Nat
      /\ nodes \in Seq(NodeType(Len(nodes))) /\ m \in Nat
  BY <1>1, Innermost DEF Typed
<1>3. ts \in Seq(0 .. n) /\ ks \in Seq(1 .. m)
  <2>1. ks \in Seq(1 .. Len(nodes))
    BY <1>2, ExprLabel, ExprLabelsAre DEF CallOK
  <2>2. Len(nodes) <= m
    BY <1>2
  <2> QED
    BY <1>2, <2>1, <2>2, BelowGrows, EmptyList
<1>4. u \in NodeType(m) /\ u.kind = "apply"
  <2>1. "apply" \in NodeKinds
    BY DEF NodeKinds
  <2> HIDE DEF ts, ks, m
  <2> QED
    BY <1>2, <1>3, <2>1, NodeIs
<1> HIDE DEF u
<1>5. /\ Extends(nodes, nodes') /\ PlainNodes(nodes, nodes', u.kind = "error")
      /\ Len(nodes') = m /\ nodes'[m] = u
  <2> DEFINE all == Append(nodes, u)
  <2>1. u.kind # "binary"
    BY <1>4
  <2>2. /\ Extends(nodes, all) /\ PlainNodes(nodes, all, u.kind = "error")
        /\ Len(all) = Len(nodes) + 1 /\ all[Len(nodes) + 1] = u
    BY <1>2, <1>4, <2>1, NodeAdded
  <2> QED
    BY <1>1, <2>2
<1>6. PlainNodes(nodes, nodes', reported') /\ ret' \in 0 .. Len(nodes') /\ ret' # 0
      /\ Len(nodes') \in Nat
  BY <1>1, <1>2, <1>4, <1>5 DEF PlainNodes
<1>7. CallOK(input, a, nodes') /\ a.at = "postfix"
  BY <1>6, PlainCall
<1> HIDE DEF a
<1>8. a.at \notin ListLabels \cup {"gather"} /\ "args" \notin ListLabels
  BY <1>7, ExprLabel, ExprLabelsAre
<1>9. reported' \in BOOLEAN /\ (reported => reported')
  BY <1>1, Reports
<1>10. Typed' /\ Changes
  BY <1>1, <1>5, <1>6, <1>7, <1>8, <1>9, Becomes
<1> QED
  BY <1>1, <1>2, <1>4, <1>5, <1>10

-----------------------------------------------------------------------------
(* The scope.                                                              *)

(* The blocks below the i-th call have moved by d.                         *)
LEMMA BelowMoves ==
    ASSUME NEW cs, NEW cs2, NEW i \in Int, NEW k \in Int, NEW d \in Int, NEW s,
           BlocksOf(cs) \subseteq Int, BlocksOf(cs2) \subseteq Int,
           \A j \in BlocksOf(cs2) : j > k => j + d \in BlocksOf(cs) /\ j + d > i,
           \A j \in BlocksOf(cs) : j > i => /\ j - d \in BlocksOf(cs2) /\ j - d > k
                                            /\ cs2[j - d].node = cs[j].node,
           FirstBelow(cs, i, s)
    PROVE  FirstBelow(cs2, k, s)
<1>1. CASE s = 0 /\ \A j \in BlocksOf(cs) : j <= i
  <2>1. \A j \in BlocksOf(cs2) : j <= k
    BY <1>1
  <2> QED
    BY <1>1, <2>1 DEF FirstBelow
<1>2. ASSUME NEW m \in BlocksOf(cs), m > i, s = cs[m].node,
             \A j \in BlocksOf(cs) : j > i => m <= j
      PROVE  FirstBelow(cs2, k, s)
  <2>1. m - d \in BlocksOf(cs2) /\ m - d > k /\ s = cs2[m - d].node
    BY <1>2
  <2>2. ASSUME NEW j \in BlocksOf(cs2), j > k
        PROVE  m - d <= j
    <3>1. m <= j + d
      BY <1>2, <2>2
    <3> QED
      BY <3>1
  <2> QED
    BY <2>1, <2>2 DEF FirstBelow
<1> QED
  BY <1>1, <1>2 DEF FirstBelow

LEMMA BlocksAre ==
    ASSUME NEW cs \in Seq(CallType)
    PROVE  /\ BlocksOf(cs) \subseteq 1 .. Len(cs) /\ BlocksOf(cs) \subseteq Int
           /\ \A i \in BlocksOf(cs) : i > 0
           /\ \A i \in 1 .. Len(cs) : i \in BlocksOf(cs) <=> IsBlock(cs[i])
           /\ Len(cs) \in Nat
<1>1. DOMAIN cs = 1 .. Len(cs) /\ Len(cs) \in Nat
  BY LenProperties
<1> QED
  BY <1>1 DEF BlocksOf

(* The block around a block being parsed stays.                            *)
LEMMA OuterStays ==
    ASSUME Typed, Extends(nodes, nodes'), NEW i \in BlocksOf(calls)
    PROVE  nodes'[calls[i].node].outer = nodes[calls[i].node].outer
<1>1. CallOK(input, calls[i], nodes) /\ IsBlock(calls[i])
  BY DEF Typed, CallsOK, BlocksOf
<1>2. calls[i].node \in 1 .. Len(nodes)
  BY <1>1 DEF CallOK, IsBlock
<1> QED
  BY <1>2 DEF Extends

(* Every block has moved by d, and the scope is the same.                  *)
LEMMA ScopeMoves ==
    ASSUME Typed, Typed', Scoped, outcome = "run", Extends(nodes, nodes'), scope' = scope,
           NEW d \in Int,
           \A i \in BlocksOf(calls') : i + d \in BlocksOf(calls),
           \A i \in BlocksOf(calls) : /\ i - d \in BlocksOf(calls')
                                      /\ calls'[i - d].node = calls[i].node
    PROVE  Scoped'
<1>1. /\ BlocksOf(calls) \subseteq Int /\ \A i \in BlocksOf(calls) : i > 0
      /\ BlocksOf(calls') \subseteq Int /\ \A i \in BlocksOf(calls') : i > 0
  BY BlocksAre DEF Typed, CallsOK
<1>2. FirstBelow(calls', 0, scope')
  <2>1. FirstBelow(calls, 0, scope)
    BY DEF Scoped
  <2>2. /\ \A j \in BlocksOf(calls') : j > 0 => j + d \in BlocksOf(calls) /\ j + d > 0
        /\ \A j \in BlocksOf(calls) : j > 0 => /\ j - d \in BlocksOf(calls') /\ j - d > 0
                                               /\ calls'[j - d].node = calls[j].node
    BY <1>1
  <2>3. FirstBelow(calls', 0, scope)
    BY <1>1, <2>1, <2>2, BelowMoves
  <2> QED
    BY <2>3
<1>3. ASSUME NEW i \in BlocksOf(calls')
      PROVE  FirstBelow(calls', i, nodes'[calls'[i].node].outer)
  <2> DEFINE k == i + d
             s == nodes[calls[k].node].outer
  <2>1. k \in BlocksOf(calls) /\ k \in Int /\ i \in Int
    BY <1>1
  <2>2. calls'[i].node = calls[k].node
    <3>1. k - d = i
      BY <2>1
    <3> QED
      BY <2>1, <3>1
  <2>3. nodes'[calls'[i].node].outer = s
    BY <2>1, <2>2, OuterStays
  <2>4. FirstBelow(calls, k, s)
    BY <2>1 DEF Scoped
  <2>5. /\ \A j \in BlocksOf(calls') : j > i => j + d \in BlocksOf(calls) /\ j + d > k
        /\ \A j \in BlocksOf(calls) : j > k => /\ j - d \in BlocksOf(calls') /\ j - d > i
                                               /\ calls'[j - d].node = calls[j].node
    BY <1>1, <2>1
  <2> HIDE DEF k, s
  <2>6. FirstBelow(calls', i, s)
    BY <1>1, <2>1, <2>4, <2>5, BelowMoves
  <2> QED
    BY <2>3, <2>6
<1> QED
  BY <1>2, <1>3 DEF Scoped

LEMMA QuietScoped ==
    ASSUME Typed, Typed', Scoped, Extends(nodes, nodes'), Quiet
    PROVE  Scoped'
<1> SUFFICES ASSUME outcome = "run" PROVE Scoped'
  BY DEF Scoped, Quiet
<1>1. scope' = scope /\ calls \in Seq(CallType) /\ calls' \in Seq(CallType)
  BY DEF Quiet, Typed, CallsOK
<1>2. /\ BlocksOf(calls) \subseteq 1 .. Len(calls) /\ Len(calls) \in Nat
      /\ BlocksOf(calls') \subseteq 1 .. Len(calls') /\ Len(calls') \in Nat
      /\ \A i \in 1 .. Len(calls) : i \in BlocksOf(calls) <=> IsBlock(calls[i])
      /\ \A i \in 1 .. Len(calls') : i \in BlocksOf(calls') <=> IsBlock(calls'[i])
  BY <1>1, BlocksAre
<1>3. ASSUME calls' = calls PROVE Scoped'
  <2>1. /\ \A i \in BlocksOf(calls') : i + 0 \in BlocksOf(calls)
        /\ \A i \in BlocksOf(calls) : /\ i - 0 \in BlocksOf(calls')
                                      /\ calls'[i - 0].node = calls[i].node
    BY <1>2, <1>3
  <2> QED
    BY <1>1, <2>1, ScopeMoves
<1>4. ASSUME Pops, ~IsBlock(This) PROVE Scoped'
  <2>1. /\ Len(calls') = Len(calls) - 1 /\ This = calls[1]
        /\ \A i \in 1 .. Len(calls) - 1 : calls'[i] = calls[i + 1]
    BY <1>1, <1>4, Replaced DEF Pops, This
  <2>2. \A i \in BlocksOf(calls') : i + 1 \in BlocksOf(calls)
    BY <1>2, <2>1
  <2>3. \A i \in BlocksOf(calls) : /\ i - 1 \in BlocksOf(calls')
                                   /\ calls'[i - 1].node = calls[i].node
    <3>1. ASSUME NEW i \in BlocksOf(calls)
          PROVE  /\ i - 1 \in BlocksOf(calls')
                 /\ calls'[i - 1].node = calls[i].node
      <4>1. i \in 2 .. Len(calls) /\ IsBlock(calls[i])
        BY <1>2, <1>4, <2>1
      <4>2. i - 1 \in 1 .. Len(calls') /\ calls'[i - 1] = calls[i]
        BY <1>2, <2>1, <4>1
      <4> QED
        BY <1>2, <4>1, <4>2
    <3> QED
      BY <3>1
  <2> QED
    BY <1>1, <2>2, <2>3, ScopeMoves
<1>5. ASSUME NEW a \in CallType, Puts(a), SameBlock(a, This) PROVE Scoped'
  <2>1. /\ Len(calls') = Len(calls) /\ This = calls[1] /\ calls'[1] = a /\ Len(calls) >= 1
        /\ \A i \in 2 .. Len(calls) : calls'[i] = calls[i]
    BY <1>1, <1>5, Replaced DEF Puts, This
  <2>2. ASSUME NEW i \in 1 .. Len(calls)
        PROVE  /\ IsBlock(calls'[i]) <=> IsBlock(calls[i])
               /\ IsBlock(calls[i]) => calls'[i].node = calls[i].node
    <3>1. CASE i = 1
      BY <1>5, <2>1, <3>1 DEF SameBlock
    <3>2. CASE i # 1
      <4>1. i \in 2 .. Len(calls)
        BY <1>2, <3>2
      <4> QED
        BY <2>1, <4>1
    <3> QED
      BY <3>1, <3>2
  <2>3. /\ \A i \in BlocksOf(calls') : i + 0 \in BlocksOf(calls)
        /\ \A i \in BlocksOf(calls) : /\ i - 0 \in BlocksOf(calls')
                                      /\ calls'[i - 0].node = calls[i].node
    BY <1>2, <2>1, <2>2
  <2> QED
    BY <1>1, <2>3, ScopeMoves
<1>6. ASSUME NEW a \in CallType, NEW b \in CallType, Calls(a, b), ~IsBlock(a), SameBlock(b, This)
      PROVE  Scoped'
  <2>1. /\ Len(calls') = Len(calls) + 1 /\ This = calls[1] /\ Len(calls) >= 1
        /\ calls'[1] = a /\ calls'[2] = b
        /\ \A i \in 3 .. Len(calls) + 1 : calls'[i] = calls[i - 1]
    BY <1>1, <1>6, Replaced DEF Calls, This
  <2>2. ASSUME NEW i \in 1 .. Len(calls)
        PROVE  /\ i + 1 \in 1 .. Len(calls')
               /\ IsBlock(calls'[i + 1]) <=> IsBlock(calls[i])
               /\ IsBlock(calls[i]) => calls'[i + 1].node = calls[i].node
    <3>1. CASE i = 1
      BY <1>2, <1>6, <2>1, <3>1 DEF SameBlock
    <3>2. CASE i # 1
      <4>1. i + 1 \in 3 .. Len(calls) + 1 /\ (i + 1) - 1 = i
        BY <1>2, <3>2
      <4>2. calls'[i + 1] = calls[i]
        BY <2>1, <4>1
      <4> QED
        BY <1>2, <2>1, <4>1, <4>2
    <3> QED
      BY <3>1, <3>2
  <2>3. \A i \in BlocksOf(calls') : i + (-1) \in BlocksOf(calls)
    <3>1. ASSUME NEW i \in BlocksOf(calls') PROVE i + (-1) \in BlocksOf(calls)
      <4>1. i \in 2 .. Len(calls') /\ IsBlock(calls'[i])
        BY <1>2, <1>6, <2>1
      <4>2. i + (-1) \in 1 .. Len(calls) /\ (i + (-1)) + 1 = i
        BY <1>2, <2>1, <4>1
      <4>3. IsBlock(calls[i + (-1)])
        BY <2>2, <4>1, <4>2
      <4> QED
        BY <1>2, <4>2, <4>3
    <3> QED
      BY <3>1
  <2>4. \A i \in BlocksOf(calls) : /\ i - (-1) \in BlocksOf(calls')
                                   /\ calls'[i - (-1)].node = calls[i].node
    <3>1. ASSUME NEW i \in BlocksOf(calls)
          PROVE  /\ i - (-1) \in BlocksOf(calls') /\ calls'[i - (-1)].node = calls[i].node
      <4>1. i \in 1 .. Len(calls) /\ IsBlock(calls[i]) /\ i - (-1) = i + 1
        BY <1>2
      <4>2. i + 1 \in 1 .. Len(calls') /\ IsBlock(calls'[i + 1])
            /\ calls'[i + 1].node = calls[i].node
        BY <2>2, <4>1
      <4> QED
        BY <1>2, <4>1, <4>2
    <3> QED
      BY <3>1
  <2>5. -1 \in Int
    OBVIOUS
  <2> QED
    BY <1>1, <2>3, <2>4, <2>5, ScopeMoves
<1> QED
  BY <1>3, <1>4, <1>5, <1>6 DEF Quiet

(* What a block begins with.                                               *)
NewBlock(s) == [Node("brace", <<>>, <<>>) EXCEPT !.outer = s]

LEMMA NewBlockIs ==
    ASSUME NEW m \in Nat, NEW s \in 0 .. m
    PROVE  /\ NewBlock(s) \in NodeType(m) /\ NewBlock(s).kind = "brace"
           /\ NewBlock(s).outer = s
<1>1. NewBlock(s) = [kind |-> "brace", toks |-> <<>>, kids |-> <<>>, decls |-> <<>>, outer |-> s]
  BY DEF NewBlock, Node
<1>2. <<>> \in Seq(0 .. n) /\ <<>> \in Seq(1 .. m) /\ "brace" \in NodeKinds
  BY EmptyList DEF NodeKinds
<1> QED
  BY <1>1, <1>2 DEF NodeType

LEMMA OpenBraceKeeps ==
    ASSUME Typed, Scoped, OpenBrace
    PROVE  /\ Typed' /\ Scoped' /\ Extends(nodes, nodes') /\ PlainNodes(nodes, nodes', reported')
           /\ reported' = reported /\ CallsPlain /\ outcome' = outcome
<1> DEFINE u == NewBlock(scope)
           a == Owner("stmts", NewId)
           m == Len(nodes) + 1
<1>1. /\ Running("brace") /\ UNCHANGED <<input, outcome, decls, ret, reported>>
      /\ window' \in WindowType
      /\ nodes' = Append(nodes, u) /\ scope' = NewId /\ Goto(<<a>>)
  BY DeclWindows DEF OpenBrace, NewBlock, Owner, Keep
<1>2. /\ calls # <<>> /\ This.at = "brace" /\ This = calls[1] /\ calls \in Seq(CallType)
      /\ Len(nodes) \in Nat /\ m \in Nat /\ NewId = m /\ scope \in 0 .. m
      /\ scope \in 0 .. Len(nodes) /\ ret \in 0 .. m /\ outcome = "run"
      /\ nodes \in Seq(NodeType(Len(nodes)))
  <2>1. /\ calls # <<>> /\ This.at = "brace" /\ This = calls[1] /\ calls \in Seq(CallType)
        /\ Len(nodes) \in Nat /\ NewId = m /\ scope \in 0 .. Len(nodes)
        /\ ret \in 0 .. Len(nodes) /\ outcome = "run"
    BY <1>1, Innermost
  <2> QED
    BY <2>1 DEF Typed
<1>3. u \in NodeType(m) /\ u.kind = "brace" /\ u.outer = scope
  BY <1>2, NewBlockIs
<1> HIDE DEF u
<1>4. /\ Extends(nodes, nodes') /\ PlainNodes(nodes, nodes', FALSE)
      /\ Len(nodes') = m /\ nodes'[m] = u
  <2> DEFINE all == Append(nodes, u)
  <2>1. u.kind # "binary" /\ u \in NodeType(Len(nodes) + 1)
    BY <1>3
  <2>2. /\ Extends(nodes, all) /\ PlainNodes(nodes, all, u.kind = "error")
        /\ Len(all) = Len(nodes) + 1 /\ all[Len(nodes) + 1] = u
    BY <1>2, <2>1, NodeAdded
  <2> QED
    BY <1>1, <1>3, <2>2 DEF PlainNodes
<1>5. PlainNodes(nodes, nodes', reported')
  BY <1>4 DEF PlainNodes
<1>6. CallOK(input, a, nodes') /\ a.at = "stmts" /\ a.node = NewId
  <2> DEFINE ns == nodes'
             d == NewId
  <2>1. Len(ns) \in Nat /\ d \in 1 .. Len(ns) /\ ns[d].kind # "binary"
    BY <1>2, <1>3, <1>4
  <2>2. a = Owner("stmts", d)
    BY DEF a
  <2> HIDE DEF ns, d, a
  <2>3. "stmts" \in Owners \cup {"stmts"}
    OBVIOUS
  <2>4. /\ CallOK(input, Owner("stmts", d), ns)
        /\ Owner("stmts", d).at = "stmts" /\ Owner("stmts", d).node = d
    BY <2>1, <2>3, OwnerCall
  <2> QED
    BY <2>2, <2>4 DEF ns, d
<1> HIDE DEF a
<1>7. /\ a \in CallType /\ a.node # 0 /\ Puts(a) /\ a.at # "gather" /\ IsBlock(a)
      /\ a.at \notin Waiting /\ a.at \notin ExprLabels /\ This.at \notin ExprLabels
      /\ ~IsBlock(This)
  BY <1>1, <1>2, <1>6 DEF CallOK, Goto, Puts, IsBlock, ListLabels, Waiting, ExprLabels, Operands,
     Primaries, Infixes
<1>8. /\ CallsOK' /\ Len(calls') = Len(calls) /\ Len(calls) \in Nat /\ Len(calls) >= 1
      /\ This' = a /\ calls'[1] = a
      /\ \A i \in 2 .. Len(calls) : calls'[i] = calls[i]
  BY <1>1, <1>4, <1>6, <1>7, CallsPut
<1>9. Typed'
  <2>1. ret' \in 0 .. Len(nodes') /\ scope' \in 0 .. Len(nodes') /\ reported' \in BOOLEAN
        /\ outcome' \in {"run", "done", "abort", "undefined"}
    BY <1>1, <1>2, <1>4 DEF Typed
  <2> QED
    BY <1>1, <1>4, <1>7, <1>8, <2>1, RestTyped
<1>10. CallsPlain
  BY <1>2, <1>7 DEF CallsPlain
<1>11. /\ BlocksOf(calls) \subseteq 1 .. Len(calls) /\ BlocksOf(calls) \subseteq Int
       /\ BlocksOf(calls') \subseteq 1 .. Len(calls') /\ BlocksOf(calls') \subseteq Int
       /\ \A i \in 1 .. Len(calls) : i \in BlocksOf(calls) <=> IsBlock(calls[i])
       /\ \A i \in 1 .. Len(calls') : i \in BlocksOf(calls') <=> IsBlock(calls'[i])
  <2>1. calls' \in Seq(CallType)
    BY <1>8 DEF CallsOK
  <2> QED
    BY <1>2, <2>1, BlocksAre
<1>12. \A i \in 2 .. Len(calls) : i \in BlocksOf(calls') <=> i \in BlocksOf(calls)
  <2>1. \A i \in 2 .. Len(calls) : i \in 1 .. Len(calls) /\ i \in 1 .. Len(calls')
    BY <1>8
  <2> QED
    BY <1>8, <1>11, <2>1
<1>13. 1 \in BlocksOf(calls') /\ 1 \notin BlocksOf(calls)
  BY <1>2, <1>7, <1>8, <1>11
<1>14. FirstBelow(calls', 0, scope')
  <2>1. scope' = calls'[1].node
    BY <1>1, <1>6, <1>8
  <2>2. \A j \in BlocksOf(calls') : j > 0 => 1 <= j
    BY <1>11
  <2> QED
    BY <1>13, <2>1, <2>2 DEF FirstBelow
<1>15. ASSUME NEW i \in Int, NEW k \in Int, i >= 0, k >= 1, i = k \/ (i = 0 /\ k = 1), NEW s,
              FirstBelow(calls, i, s)
       PROVE  FirstBelow(calls', k, s)
  <2>1. \A j \in BlocksOf(calls') : j > k => j + 0 \in BlocksOf(calls) /\ j + 0 > i
    <3>1. ASSUME NEW j \in BlocksOf(calls'), j > k PROVE j + 0 \in BlocksOf(calls) /\ j + 0 > i
      <4>1. j \in 2 .. Len(calls) /\ j + 0 = j
        BY <1>8, <1>11, <1>15, <3>1
      <4> QED
        BY <1>12, <1>15, <3>1, <4>1
    <3> QED
      BY <3>1
  <2>2. \A j \in BlocksOf(calls) : j > i => /\ j - 0 \in BlocksOf(calls') /\ j - 0 > k
                                            /\ calls'[j - 0].node = calls[j].node
    <3>1. ASSUME NEW j \in BlocksOf(calls), j > i
          PROVE  /\ j - 0 \in BlocksOf(calls') /\ j - 0 > k
                 /\ calls'[j - 0].node = calls[j].node
      <4>1. j # 1
        BY <1>13
      <4>2. j \in 2 .. Len(calls) /\ j - 0 = j /\ j > k
        BY <1>8, <1>11, <1>15, <3>1, <4>1
      <4> QED
        BY <1>8, <1>12, <4>2
    <3> QED
      BY <3>1
  <2> QED
    BY <1>11, <1>15, <2>1, <2>2, BelowMoves, SMTT(30)
<1>16. ASSUME NEW i \in BlocksOf(calls')
       PROVE  FirstBelow(calls', i, nodes'[calls'[i].node].outer)
  <2>1. CASE i = 1
    <3>1. nodes'[calls'[i].node].outer = scope
      BY <1>2, <1>3, <1>4, <1>6, <1>8, <2>1
    <3>2. FirstBelow(calls, 0, scope)
      BY <1>2 DEF Scoped
    <3>3. FirstBelow(calls', 1, scope)
      BY <1>15, <3>2
    <3> QED
      BY <2>1, <3>1, <3>3
  <2>2. CASE i # 1
    <3>1. i \in 2 .. Len(calls)
      BY <1>8, <1>11, <2>2
    <3>2. i \in BlocksOf(calls) /\ calls'[i] = calls[i] /\ i \in Int /\ i >= 1
      BY <1>8, <1>12, <3>1
    <3> DEFINE s == nodes[calls[i].node].outer
    <3>3. FirstBelow(calls, i, s)
      BY <1>2, <3>2 DEF Scoped
    <3>4. nodes'[calls'[i].node].outer = s
      BY <1>4, <3>2, OuterStays
    <3> HIDE DEF s
    <3>5. FirstBelow(calls', i, s)
      BY <1>15, <3>2, <3>3
    <3> QED
      BY <3>4, <3>5
  <2> QED
    BY <2>1, <2>2
<1>17. Scoped'
  BY <1>14, <1>16 DEF Scoped
<1> QED
  BY <1>1, <1>4, <1>5, <1>9, <1>10, <1>17

LEMMA CloseBraceKeeps ==
    ASSUME Typed, Scoped, CloseBrace
    PROVE  /\ Typed' /\ Scoped' /\ Extends(nodes, nodes') /\ PlainNodes(nodes, nodes', reported')
           /\ (reported => reported') /\ CallsPlain /\ outcome' = outcome
<1> DEFINE d == This.node
           ks == This.list
<1>1. /\ Running("stmts") /\ d # 0 /\ UNCHANGED <<input, outcome, decls>>
      /\ nodes' = [nodes EXCEPT ![d].kids = ks] /\ scope' = nodes[d].outer
      /\ window' \in WindowType /\ Report(Current = "end") /\ Return(d)
  BY DeclWindows DEF CloseBrace, Keep
<1>2. /\ calls # <<>> /\ This.at = "stmts" /\ This = calls[1] /\ calls \in Seq(CallType)
      /\ Len(nodes) \in Nat /\ outcome = "run" /\ CallOK(input, This, nodes)
      /\ nodes \in Seq(NodeType(Len(nodes)))
  <2>1. /\ calls # <<>> /\ This.at = "stmts" /\ This = calls[1] /\ calls \in Seq(CallType)
        /\ Len(nodes) \in Nat /\ outcome = "run" /\ CallOK(input, This, nodes)
    BY <1>1, Innermost
  <2> QED
    BY <2>1 DEF Typed
<1>3. /\ d \in 1 .. Len(nodes) /\ nodes[d].kind # "binary" /\ ks \in Seq(1 .. Len(nodes))
      /\ IsBlock(This) /\ This.at \notin ExprLabels
  BY <1>1, <1>2 DEF CallOK, NodeLists, ListLabels, IsBlock, ExprLabels, Operands, Primaries, Infixes
<1>4. nodes[d].outer \in 0 .. Len(nodes) /\ d = calls[1].node
  BY <1>2, <1>3, NodeFields
<1> HIDE DEF d, ks
<1>5. Extends(nodes, nodes') /\ PlainNodes(nodes, nodes', FALSE) /\ Len(nodes') = Len(nodes)
  <2> DEFINE ns2 == [nodes EXCEPT ![d].kids = ks]
  <2>1. Extends(nodes, ns2) /\ PlainNodes(nodes, ns2, FALSE) /\ Len(ns2) = Len(nodes)
    BY <1>2, <1>3, KidsSet
  <2>2. nodes' = ns2
    BY <1>1
  <2> HIDE DEF ns2
  <2> QED
    BY <2>1, <2>2
<1>6. PlainNodes(nodes, nodes', reported') /\ reported' \in BOOLEAN /\ (reported => reported')
  BY <1>1, <1>5, Reports DEF PlainNodes
<1>7. Pops /\ ret' \in 0 .. Len(nodes') /\ ret' # 0
  BY <1>1, <1>2, <1>3, <1>5 DEF Pops, Return
<1>8. /\ CallsOK' /\ Len(calls') = Len(calls) - 1
      /\ \A i \in 1 .. Len(calls) - 1 : calls'[i] = calls[i + 1]
  BY <1>1, <1>5, <1>7, CallsPop
<1>9. Typed'
  <2>1. scope' \in 0 .. Len(nodes') /\ outcome' \in {"run", "done", "abort", "undefined"}
    BY <1>1, <1>2, <1>4, <1>5
  <2> QED
    BY <1>1, <1>5, <1>6, <1>7, <1>8, <2>1, RestTyped
<1>10. CallsPlain
  BY <1>2, <1>3, <1>7 DEF CallsPlain
<1>11. /\ BlocksOf(calls) \subseteq 1 .. Len(calls) /\ BlocksOf(calls) \subseteq Int
       /\ BlocksOf(calls') \subseteq 1 .. Len(calls') /\ BlocksOf(calls') \subseteq Int
       /\ \A i \in 1 .. Len(calls) : i \in BlocksOf(calls) <=> IsBlock(calls[i])
       /\ \A i \in 1 .. Len(calls') : i \in BlocksOf(calls') <=> IsBlock(calls'[i])
       /\ Len(calls) \in Nat
  <2>1. calls' \in Seq(CallType)
    BY <1>8 DEF CallsOK
  <2> QED
    BY <1>2, <2>1, BlocksAre
<1>12. /\ \A j \in BlocksOf(calls') : j + 1 \in BlocksOf(calls)
       /\ \A j \in BlocksOf(calls) : j > 1 => /\ j - 1 \in BlocksOf(calls')
                                              /\ calls'[j - 1].node = calls[j].node
  <2>1. ASSUME NEW j \in BlocksOf(calls') PROVE j + 1 \in BlocksOf(calls)
    BY <1>8, <1>11
  <2>2. ASSUME NEW j \in BlocksOf(calls), j > 1
        PROVE  j - 1 \in BlocksOf(calls') /\ calls'[j - 1].node = calls[j].node
    <3>1. j - 1 \in 1 .. Len(calls) - 1 /\ (j - 1) + 1 = j
      BY <1>11, <2>2
    <3>2. calls'[j - 1] = calls[j]
      BY <1>8, <3>1
    <3> QED
      BY <1>8, <1>11, <3>1, <3>2
  <2> QED
    BY <2>1, <2>2
<1>13. ASSUME NEW i \in Int, i >= 0, NEW s, FirstBelow(calls, i + 1, s)
       PROVE  FirstBelow(calls', i, s)
  <2>1. /\ \A j \in BlocksOf(calls') : j > i => j + 1 \in BlocksOf(calls) /\ j + 1 > i + 1
        /\ \A j \in BlocksOf(calls) : j > i + 1 => /\ j - 1 \in BlocksOf(calls') /\ j - 1 > i
                                                   /\ calls'[j - 1].node = calls[j].node
    BY <1>11, <1>12, <1>13
  <2> DEFINE k == i + 1
  <2>2. k \in Int /\ 1 \in Int /\ FirstBelow(calls, k, s)
    BY <1>13
  <2>3. /\ \A j \in BlocksOf(calls') : j > i => j + 1 \in BlocksOf(calls) /\ j + 1 > k
        /\ \A j \in BlocksOf(calls) : j > k => /\ j - 1 \in BlocksOf(calls') /\ j - 1 > i
                                               /\ calls'[j - 1].node = calls[j].node
    BY <2>1
  <2> HIDE DEF k
  <2> QED
    BY <1>11, <1>13, <2>2, <2>3, BelowMoves
<1>14. FirstBelow(calls', 0, scope')
  <2>1. 1 \in BlocksOf(calls)
    <3>1. 1 \in 1 .. Len(calls)
      BY <1>2, Replaced
    <3> QED
      BY <1>2, <1>3, <1>11, <3>1
  <2> DEFINE s == nodes[d].outer
  <2>2. FirstBelow(calls, 0 + 1, s)
    BY <1>2, <1>4, <2>1 DEF Scoped
  <2> HIDE DEF s
  <2>3. FirstBelow(calls', 0, s)
    BY <1>13, <2>2
  <2> QED
    BY <1>1, <2>3 DEF s
<1>15. ASSUME NEW i \in BlocksOf(calls')
       PROVE  FirstBelow(calls', i, nodes'[calls'[i].node].outer)
  <2> DEFINE k == i + 1
             s == nodes[calls[k].node].outer
  <2>1. k \in BlocksOf(calls) /\ i \in Int /\ i >= 0
    BY <1>11, <1>12
  <2>2. calls'[i].node = calls[k].node
    BY <1>8, <1>11
  <2>3. nodes'[calls'[i].node].outer = s
    BY <1>5, <2>1, <2>2, OuterStays
  <2>4. FirstBelow(calls, i + 1, s)
    BY <1>2, <2>1 DEF Scoped
  <2> HIDE DEF s
  <2>5. FirstBelow(calls', i, s)
    BY <1>13, <2>1, <2>4
  <2> QED
    BY <2>3, <2>5
<1>16. Scoped'
  BY <1>14, <1>15 DEF Scoped
<1> QED
  BY <1>1, <1>5, <1>6, <1>9, <1>10, <1>16

-----------------------------------------------------------------------------
(* The end of the source.                                                  *)

LEMMA Gathering ==
    ASSUME Typed, Running("gather")
    PROVE  /\ Len(calls) = 2 /\ calls[2].at = "run" /\ This = calls[1] /\ This.at = "gather"
           /\ calls \in Seq(CallType) /\ This \in CallType /\ calls[2] \in CallType
           /\ CallOK(input, This, nodes) /\ CallOK(input, calls[2], nodes)
           /\ This.list \in Seq(1 .. Len(nodes)) /\ Run \in Seq(1 .. Len(nodes))
           /\ Len(nodes) \in Nat /\ BlocksOf(calls) = {} /\ outcome = "run"
<1>1. /\ calls # <<>> /\ This = calls[1] /\ This.at = "gather" /\ calls \in Seq(CallType)
      /\ This \in CallType /\ CallOK(input, This, nodes) /\ Len(nodes) \in Nat
      /\ DOMAIN calls = 1 .. Len(calls) /\ outcome = "run"
  BY Innermost
<1>2. Len(calls) = 2 /\ calls[2].at = "run"
  BY <1>1 DEF Typed, CallsOK
<1>3. calls[2] \in CallType /\ CallOK(input, calls[2], nodes)
  <2>1. 2 \in DOMAIN calls
    BY <1>1, <1>2
  <2> QED
    BY <1>1, <2>1 DEF Typed, CallsOK
<1>4. "gather" \in NodeLists /\ "run" \in NodeLists /\ "gather" \notin ListLabels
      /\ "run" \notin ListLabels
  BY DEF NodeLists, ListLabels
<1>5. This.list \in Seq(1 .. Len(nodes)) /\ Run \in Seq(1 .. Len(nodes))
  BY <1>1, <1>2, <1>3, <1>4 DEF CallOK, Run
<1>6. BlocksOf(calls) = {}
  BY <1>1, <1>2, <1>4 DEF BlocksOf, IsBlock
<1> QED
  BY <1>1, <1>2, <1>3, <1>5, <1>6

(* Two calls are left, and none of them is a block.                        *)
LEMMA GatheringOn ==
    ASSUME Typed, Scoped, Running("gather"), Extends(nodes, nodes'),
           UNCHANGED <<input, window, ret, scope, reported, outcome>>,
           NEW a, CallOK(input, a, nodes'), a.at = "gather",
           NEW b, CallOK(input, b, nodes'), b.at = "run", calls' = <<a, b>>,
           decls' \in Seq(1 .. Len(nodes'))
    PROVE  /\ Typed' /\ Scoped' /\ Len(calls') = 2
           /\ calls'[1].at = "gather" /\ calls'[2].at = "run"
<1>1. /\ a \in CallType /\ b \in CallType /\ "gather" \notin ListLabels \cup Waiting
      /\ "run" \notin ListLabels /\ "run" \in Waiting
  BY DEF CallOK, ListLabels, Waiting
<1>2. /\ calls' \in Seq(CallType) /\ Len(calls') = 2 /\ calls'[1] = a /\ calls'[2] = b
      /\ calls' # <<>> /\ This' = a /\ DOMAIN calls' = 1 .. 2
  <2>1. calls' \in Seq(CallType) /\ Len(calls') = 2 /\ calls'[1] = a /\ calls'[2] = b
    BY <1>1
  <2>2. calls' # <<>>
    BY <2>1, EmptySeq
  <2>3. This' = calls'[1]
    BY <2>1, <2>2, Replaced DEF This
  <2> QED
    BY <2>1, <2>2, <2>3, LenProperties
<1>3. CallsOK'
  <2>1. ASSUME NEW i \in DOMAIN calls'
        PROVE  /\ CallOK(input', calls'[i], nodes')
               /\ i > 1 => calls'[i].at \in Waiting
               /\ calls'[i].at \in ListLabels /\ calls'[i].node = 0 => i = Len(calls')
    <3>1. i = 1 \/ i = 2
      BY <1>2
    <3>2. CallOK(input', calls'[i], nodes')
      BY <1>2, <3>1
    <3> QED
      BY <1>1, <1>2, <3>1, <3>2
  <2> QED
    BY <1>1, <1>2, <2>1 DEF CallsOK, This
<1>4. Len(nodes) \in Nat /\ Len(nodes') \in Nat /\ Len(nodes) <= Len(nodes')
  BY LenProperties DEF Extends, Typed
<1>5. Typed'
  <2>1. /\ ret' \in 0 .. Len(nodes') /\ scope' \in 0 .. Len(nodes') /\ reported' \in BOOLEAN
        /\ outcome' \in {"run", "done", "abort", "undefined"} /\ window' \in WindowType
    BY <1>4 DEF Typed
  <2> QED
    BY <1>1, <1>2, <1>3, <2>1, AllTyped
<1>6. BlocksOf(calls') = {}
  BY <1>1, <1>2 DEF BlocksOf, IsBlock
<1>7. scope' = 0
  <2>1. FirstBelow(calls, 0, scope) /\ BlocksOf(calls) = {}
    BY Gathering DEF Scoped
  <2> QED
    BY <2>1 DEF FirstBelow
<1>8. Scoped'
  BY <1>6, <1>7 DEF Scoped, FirstBelow
<1> QED
  BY <1>2, <1>5, <1>8

LEMMA GatherList ==
    ASSUME Typed, Running("gather"), Extends(nodes, nodes'), NEW s \in Seq(1 .. Len(nodes'))
    PROVE  /\ CallOK(input, [This EXCEPT !.list = s], nodes')
           /\ [This EXCEPT !.list = s].at = "gather"
<1>1. This \in CallType /\ This.at = "gather"
  BY Gathering
<1>2. [This EXCEPT !.list = s] = Listed(This, "gather", s)
  <2>1. [This EXCEPT !.list = s] = [at |-> This.at, node |-> This.node, level |-> This.level,
                                    list |-> s, from |-> This.from]
    BY <1>1, CallAt
  <2>2. [This EXCEPT !.at = "gather", !.list = s]
          = [at |-> "gather", node |-> This.node, level |-> This.level,
             list |-> s, from |-> This.from]
    BY <1>1, CallAt
  <2> QED
    BY <1>1, <2>1, <2>2 DEF Listed
<1>3. /\ "gather" \in Labels /\ "gather" \notin {"rhs", "operators", "operand"}
      /\ "gather" \notin Owners \cup TokenLists
  BY DEF Labels, Owners, TokenLists
<1>4. s \in Seq(Int)
  <2>1. Len(nodes') \in Nat
    BY LenProperties DEF Extends
  <2> QED
    BY <2>1, IntSeq
<1>5. CallOK(input, Listed(This, "gather", s), nodes') /\ Listed(This, "gather", s).at = "gather"
  BY <1>3, <1>4, Relisted
<1> QED
  BY <1>2, <1>5

LEMMA RunCall ==
    ASSUME NEW in, NEW ns, Len(ns) \in Nat
    PROVE  CallOK(in, Call("run"), ns) /\ Call("run").at = "run"
<1>1. "run" \in Labels \ (Owners \cup {"operators", "operand", "rhs"})
  BY DEF Labels, Owners
<1> QED
  BY <1>1, NewCall

LEMMA GatherStmtKeeps ==
    ASSUME Typed, Scoped, GatherStmt
    PROVE  /\ Typed' /\ Scoped' /\ Extends(nodes, nodes') /\ PlainNodes(nodes, nodes', reported')
           /\ reported' = reported /\ Len(calls') = 2
           /\ calls'[1].at = "gather" /\ calls'[2].at = "run"
<1> DEFINE s == Tail(This.list)
           c == calls[2]
           r == Append(c.list, Head(This.list))
           a == [This EXCEPT !.list = s]
           b == [c EXCEPT !.list = r]
<1>1. /\ Running("gather") /\ This.list # <<>> /\ calls' = <<a, b>>
      /\ UNCHANGED <<input, outcome, decls, window, ret, nodes, scope, reported>>
  BY DEF GatherStmt, Keep
<1>2. /\ Len(calls) = 2 /\ c.at = "run" /\ c \in CallType /\ CallOK(input, c, nodes)
      /\ This.list \in Seq(1 .. Len(nodes)) /\ c.list \in Seq(1 .. Len(nodes))
      /\ Len(nodes) \in Nat
  BY <1>1, Gathering DEF Run
<1>3. /\ Extends(nodes, nodes') /\ PlainNodes(nodes, nodes', reported') /\ nodes' = nodes
  BY <1>1, NodesKept
<1>4. s \in Seq(1 .. Len(nodes')) /\ r \in Seq(1 .. Len(nodes))
  BY <1>1, <1>2, <1>3, HeadTailProperties, AppendProperties
<1> HIDE DEF s, c, r
<1>5. CallOK(input, a, nodes') /\ a.at = "gather"
  BY <1>1, <1>3, <1>4, GatherList
<1>6. CallOK(input, b, nodes') /\ b.at = "run"
  <2>1. b = [at |-> c.at, node |-> c.node, level |-> c.level, list |-> r, from |-> c.from]
    BY <1>2, CallAt
  <2> HIDE DEF b
  <2>2. c.level \in 1 .. Shift /\ c.node \in Nat /\ c.from \in Int
    BY <1>2, CallFields
  <2>3. r \in Seq(Int)
    BY <1>2, <1>4, IntSeq
  <2>4. /\ "run" \in Labels /\ "run" \notin {"rhs", "operators", "operand"}
        /\ "run" \notin Owners \cup TokenLists
    BY DEF Labels, Owners, TokenLists
  <2>5. c.node # 0 => c.node \in 1 .. Len(nodes) /\ nodes[c.node].kind # "binary"
    BY <1>2 DEF CallOK
  <2>6. CallOK(input, [at |-> "run", node |-> c.node, level |-> c.level, list |-> r,
                       from |-> c.from], nodes)
    BY <1>2, <1>4, <2>2, <2>3, <2>4, <2>5, CallIs
  <2> QED
    BY <1>2, <1>3, <2>1, <2>6
<1> HIDE DEF a, b
<1>7. decls' \in Seq(1 .. Len(nodes'))
  BY <1>1, <1>3 DEF Typed
<1>8. /\ Typed' /\ Scoped' /\ Len(calls') = 2
      /\ calls'[1].at = "gather" /\ calls'[2].at = "run"
  BY <1>1, <1>3, <1>5, <1>6, <1>7, GatheringOn
<1> QED
  BY <1>1, <1>3, <1>8

LEMMA WrapRunKeeps ==
    ASSUME Typed, Scoped, WrapRun
    PROVE  /\ Typed' /\ Scoped' /\ Extends(nodes, nodes') /\ PlainNodes(nodes, nodes', reported')
           /\ reported' = reported /\ Len(calls') = 2
           /\ calls'[1].at = "gather" /\ calls'[2].at = "run"
<1> DEFINE ts == <<>>
           ks == Run
           u == Node("top", ts, ks)
           m == Len(nodes) + 1
           a == This
           b == Call("run")
<1>1. /\ Running("gather") /\ calls' = <<a, b>> /\ nodes' = Append(nodes, u)
      /\ decls' = Append(decls, NewId)
      /\ UNCHANGED <<input, window, ret, scope, reported, outcome>>
  BY DEF WrapRun, New
<1>2. /\ Run \in Seq(1 .. Len(nodes)) /\ Len(nodes) \in Nat /\ CallOK(input, This, nodes)
      /\ This.at = "gather" /\ m \in Nat /\ NewId = m /\ nodes \in Seq(NodeType(Len(nodes)))
  <2>1. /\ Run \in Seq(1 .. Len(nodes)) /\ Len(nodes) \in Nat /\ CallOK(input, This, nodes)
        /\ This.at = "gather"
    BY <1>1, Gathering
  <2> QED
    BY <2>1 DEF NewId, Typed
<1>3. ts \in Seq(0 .. n) /\ ks \in Seq(1 .. m)
  <2>1. Len(nodes) <= m
    BY <1>2
  <2> QED
    BY <1>2, <2>1, BelowGrows, EmptyList
<1>4. u \in NodeType(m) /\ u.kind = "top"
  <2>1. "top" \in NodeKinds
    BY DEF NodeKinds
  <2> HIDE DEF ts, ks, m
  <2> QED
    BY <1>2, <1>3, <2>1, NodeIs
<1> HIDE DEF u
<1>5. Extends(nodes, nodes') /\ PlainNodes(nodes, nodes', u.kind = "error") /\ Len(nodes') = m
  <2> DEFINE all == Append(nodes, u)
  <2>1. u.kind # "binary"
    BY <1>4
  <2>2. /\ Extends(nodes, all) /\ PlainNodes(nodes, all, u.kind = "error")
        /\ Len(all) = Len(nodes) + 1
    BY <1>2, <1>4, <2>1, NodeAdded
  <2> QED
    BY <1>1, <2>2
<1>6. PlainNodes(nodes, nodes', reported')
  BY <1>4, <1>5 DEF PlainNodes
<1>7. CallOK(input, a, nodes') /\ CallOK(input, b, nodes') /\ b.at = "run"
  BY <1>2, <1>5, CallGrows, RunCall
<1>8. decls' \in Seq(1 .. Len(nodes'))
  <2>1. decls \in Seq(1 .. m)
    <3>1. Len(nodes) <= m
      BY <1>2
    <3> QED
      BY <1>2, <3>1, BelowGrows DEF Typed
  <2>2. NewId \in 1 .. m
    BY <1>2
  <2> QED
    BY <1>1, <1>5, <2>1, <2>2, AppendProperties
<1> HIDE DEF b
<1>9. /\ Typed' /\ Scoped' /\ Len(calls') = 2
      /\ calls'[1].at = "gather" /\ calls'[2].at = "run"
  BY <1>1, <1>2, <1>5, <1>7, <1>8, GatheringOn
<1> QED
  BY <1>1, <1>5, <1>6, <1>9

LEMMA GatherDeclKeeps ==
    ASSUME Typed, Scoped, GatherDecl
    PROVE  /\ Typed' /\ Scoped' /\ Extends(nodes, nodes') /\ PlainNodes(nodes, nodes', reported')
           /\ reported' = reported /\ Len(calls') = 2
           /\ calls'[1].at = "gather" /\ calls'[2].at = "run"
<1> DEFINE s == Tail(This.list)
           a == [This EXCEPT !.list = s]
           b == Call("run")
<1>1. /\ Running("gather") /\ This.list # <<>> /\ calls' = <<a, b>>
      /\ decls' = Append(decls, Head(This.list))
      /\ UNCHANGED <<input, window, ret, nodes, scope, reported, outcome>>
  BY DEF GatherDecl, GathersDecl
<1>2. This.list \in Seq(1 .. Len(nodes)) /\ Len(nodes) \in Nat
  BY <1>1, Gathering
<1>3. /\ Extends(nodes, nodes') /\ PlainNodes(nodes, nodes', reported') /\ nodes' = nodes
  BY <1>1, NodesKept
<1>4. s \in Seq(1 .. Len(nodes')) /\ Head(This.list) \in 1 .. Len(nodes)
  BY <1>1, <1>2, <1>3, HeadTailProperties
<1> HIDE DEF s
<1>5. CallOK(input, a, nodes') /\ a.at = "gather"
  BY <1>1, <1>3, <1>4, GatherList
<1>6. CallOK(input, b, nodes') /\ b.at = "run"
  BY <1>2, <1>3, RunCall
<1> HIDE DEF a, b
<1>7. decls' \in Seq(1 .. Len(nodes'))
  BY <1>1, <1>3, <1>4, AppendProperties DEF Typed
<1>8. /\ Typed' /\ Scoped' /\ Len(calls') = 2
      /\ calls'[1].at = "gather" /\ calls'[2].at = "run"
  BY <1>1, <1>3, <1>5, <1>6, <1>7, GatheringOn
<1> QED
  BY <1>1, <1>3, <1>8

LEMMA FinishKeeps ==
    ASSUME Typed, Finish
    PROVE  /\ Typed' /\ Scoped' /\ Extends(nodes, nodes') /\ PlainNodes(nodes, nodes', reported')
           /\ calls' = <<>>
<1>1. /\ calls' = <<>> /\ outcome' = "done"
      /\ UNCHANGED <<input, window, ret, nodes, scope, reported, decls>>
  BY DEF Finish
<1>2. Extends(nodes, nodes') /\ PlainNodes(nodes, nodes', reported') /\ nodes' = nodes
  BY <1>1, NodesKept
<1>3. CallsOK'
  <2> DEFINE e == <<>>
  <2>1. e \in Seq(CallType) /\ DOMAIN e = {}
    BY EmptyList
  <2>2. calls' = e
    BY <1>1
  <2> HIDE DEF e
  <2> QED
    BY <1>1, <2>1, <2>2 DEF CallsOK
<1>4. Typed'
  <2>1. /\ ret' \in 0 .. Len(nodes') /\ scope' \in 0 .. Len(nodes') /\ reported' \in BOOLEAN
        /\ outcome' \in {"run", "done", "abort", "undefined"} /\ window' \in WindowType
    BY <1>1, <1>2 DEF Typed
  <2> QED
    BY <1>1, <1>2, <1>3, <2>1, RestTyped
<1>5. Scoped'
  BY <1>1 DEF Scoped
<1> QED
  BY <1>1, <1>2, <1>4, <1>5

-----------------------------------------------------------------------------
(* The window and the loop of statements.                                  *)

(* From one window to a later one: unless tokens were consumed the next    *)
(* one is the same, and what was consumed was there.                       *)
Forward(w, w2) ==
    /\ w2 \in WindowType /\ WindowOK(w2)
    /\ Ate(w) \in Int /\ Ate(w2) \in Int /\ Ate(w2) >= Ate(w)
    /\ Ate(w2) = Ate(w) => Kind(w2) = Kind(w) /\ (PastEnd(w2) <=> PastEnd(w))
    /\ Ate(w2) > Ate(w) => ~PastEnd(w2)

LEMMA AteType ==
    ASSUME input \in Seq(Token), NEW w \in WindowType
    PROVE  Ate(w) \in Int
  BY WindowFields DEF Ate

LEMMA ForwardSelf ==
    ASSUME input \in Seq(Token), NEW w \in WindowType, WindowOK(w)
    PROVE  Forward(w, w)
  BY AteType DEF Forward

LEMMA ForwardPeek ==
    ASSUME input \in Seq(Token), NEW w, NEW v, Forward(w, v)
    PROVE  Forward(w, Peeked(v, n)) /\ Ate(Peeked(v, n)) = Ate(v)
<1>1. v \in WindowType /\ WindowOK(v)
  BY DEF Forward
<1> DEFINE p == Peeked(v, n)
<1>2. p \in WindowType
  BY <1>1, PeekType
<1>3. WindowOK(p) /\ Ate(p) = Ate(v) /\ (PastEnd(p) <=> PastEnd(v)) /\ Kind(p) = Kind(v)
  BY <1>1, PeekOK
<1> HIDE DEF p
<1>4. Forward(w, p) /\ Ate(p) = Ate(v)
  BY <1>2, <1>3 DEF Forward
<1> QED
  BY <1>4 DEF p

LEMMA ForwardTake ==
    ASSUME input \in Seq(Token), NEW w, NEW v, Forward(w, v), Kind(v) # "end"
    PROVE  Forward(w, Take(v)) /\ Ate(Take(v)) > Ate(w)
<1>1. v \in WindowType /\ WindowOK(v)
  BY DEF Forward
<1> DEFINE t == Take(v)
<1>2. t \in WindowType
  BY <1>1, TakeType
<1>3. WindowOK(t) /\ Ate(t) = Ate(v) + 1 /\ ~PastEnd(t)
  BY <1>1, TakeOK
<1> HIDE DEF t
<1>4. Forward(w, t) /\ Ate(t) > Ate(w)
  BY <1>2, <1>3 DEF Forward
<1> QED
  BY <1>4 DEF t

(* Behind the end there is nothing.                                        *)
LEMMA NothingBehind ==
    ASSUME input \in Seq(Token), NEW w \in WindowType, WindowOK(w), PastEnd(w)
    PROVE  Kind(w) = "end"
<1>1. w.end + 1 = w.start /\ w.read = n
  BY WindowFields DEF WindowOK, PastEnd
<1>2. ~HasToken(w, n)
  BY <1>1, WindowFields DEF HasToken
<1> QED
  BY <1>2, KindIs

(* The windows an action may leave behind.                                 *)
LEMMA OneStep ==
    ASSUME Typed, Windowed, RoomAtEnd
    PROVE  /\ Forward(window, window) /\ Forward(window, Look)
           /\ Current # "end" => /\ Forward(window, Take(window))
                                 /\ Ate(Take(window)) > Ate(window)
<1>1. input \in Seq(Token) /\ window \in WindowType /\ WindowOK(window)
  BY DEF Typed, Windowed
<1>2. Forward(window, window)
  BY <1>1, ForwardSelf
<1> QED
  BY <1>1, <1>2, ForwardPeek, ForwardTake DEF Look, Current

LEMMA KindNext ==
    ASSUME UNCHANGED input
    PROVE  n' = n /\ Current' = Kind(window')
<1>1. n' = n
  BY DEF n
<1> QED
  BY <1>1 DEF Current, Kind

LEMMA RoomBefore ==
    ASSUME UNCHANGED input, reported => reported', RoomAtEnd'
    PROVE  RoomAtEnd
  BY DEF RoomAtEnd, n

(* Where the statements that wait come from.                               *)
Waits == \A i \in DOMAIN calls' : calls'[i].at = "stmt_done" =>
             \/ \E j \in DOMAIN calls : calls[j] = calls'[i]
             \/ Starts(This', calls'[i])

(* What calls may do for that.                                             *)
Moves ==
    \/ calls' = calls
    \/ Pops
    \/ \E a \in CallType : Puts(a) /\ a.at # "stmt_done"
    \/ \E a, b \in CallType :
         Calls(a, b) /\ a.at # "stmt_done" /\ (b.at = "stmt_done" => Starts(a, b))

LEMMA MovesWaits ==
    ASSUME Typed, Typed', Moves
    PROVE  Waits
<1> SUFFICES ASSUME NEW i \in DOMAIN calls', calls'[i].at = "stmt_done"
             PROVE  \/ \E j \in DOMAIN calls : calls[j] = calls'[i]
                    \/ Starts(This', calls'[i])
  BY DEF Waits
<1>1. calls \in Seq(CallType) /\ calls' \in Seq(CallType)
  BY DEF Typed, CallsOK
<1>2. DOMAIN calls = 1 .. Len(calls) /\ DOMAIN calls' = 1 .. Len(calls')
      /\ Len(calls) \in Nat /\ Len(calls') \in Nat
  BY <1>1, LenProperties
<1>3. CASE calls' = calls
  <2>1. i \in DOMAIN calls /\ calls[i] = calls'[i]
    BY <1>3
  <2> QED
    BY <2>1
<1>4. CASE Pops
  <2>1. Len(calls') = Len(calls) - 1 /\ calls'[i] = calls[i + 1]
    BY <1>1, <1>2, <1>4, Replaced DEF Pops
  <2>2. i + 1 \in DOMAIN calls
    BY <1>2, <2>1
  <2> QED
    BY <2>1, <2>2
<1>5. ASSUME NEW a \in CallType, Puts(a), a.at # "stmt_done"
      PROVE  \E j \in DOMAIN calls : calls[j] = calls'[i]
  <2>1. Len(calls') = Len(calls) /\ calls'[1] = a
        /\ \A j \in 2 .. Len(calls) : calls'[j] = calls[j]
    BY <1>1, <1>5, Replaced DEF Puts
  <2>2. i \in 2 .. Len(calls)
    BY <1>2, <1>5, <2>1
  <2> QED
    BY <1>2, <2>1, <2>2
<1>6. ASSUME NEW a \in CallType, NEW b \in CallType, Calls(a, b), a.at # "stmt_done",
             b.at = "stmt_done" => Starts(a, b)
      PROVE  \/ \E j \in DOMAIN calls : calls[j] = calls'[i]
             \/ Starts(This', calls'[i])
  <2>1. Len(calls') = Len(calls) + 1 /\ calls'[1] = a /\ calls'[2] = b
        /\ \A j \in 3 .. Len(calls) + 1 : calls'[j] = calls[j - 1]
    BY <1>1, <1>6, Replaced DEF Calls
  <2>2. i \in 2 .. Len(calls) + 1
    BY <1>2, <1>6, <2>1
  <2>3. CASE i = 2
    <3>1. calls' # <<>>
      BY <1>2, <2>1, EmptySeq
    <3>2. This' = a
      BY <1>1, <2>1, <3>1, Replaced DEF This
    <3> QED
      BY <1>6, <2>1, <2>3, <3>2
  <2>4. CASE i # 2
    <3>1. calls'[i] = calls[i - 1] /\ i - 1 \in DOMAIN calls
      BY <1>2, <2>1, <2>2, <2>4
    <3> QED
      BY <3>1
  <2> QED
    BY <2>3, <2>4
<1> QED
  BY <1>3, <1>4, <1>5, <1>6 DEF Moves

LEMMA QuietWaits ==
    ASSUME Typed, Typed', Quiet
    PROVE  Waits
<1>1. Moves
  BY DEF Quiet, Moves
<1> QED
  BY <1>1, MovesWaits

(* What keeps the window and the loop going.  A function that begins, or   *)
(* goes on, where a token is needed follows one that did or a token that   *)
(* is there; and one that began does not end without taking its token.     *)
LEMMA Feeds ==
    ASSUME Typed, Typed', Windowed, Fed, UNCHANGED input, reported => reported', Waits,
           calls # <<>>,
           RoomAtEnd => Forward(window, window'),
           RoomAtEnd /\ calls' # <<>> =>
             /\ This'.at \in Begins \cup {"item"} =>
                  \/ This.at \in Begins \cup {"item"}
                  \/ Current # "end" \/ Ate(window') > Ate(window)
             /\ This'.at \in Keywords => Kind(window') # "end"
             /\ This.at \in Begins /\ Current # "end" =>
                  Ate(window') > Ate(window) \/ This'.at \in Begins
    PROVE  Windowed' /\ Fed'
<1>1. n' = n /\ Current' = Kind(window')
  BY KindNext
<1>2. input \in Seq(Token) /\ window \in WindowType
  BY DEF Typed
<1>3. ASSUME RoomAtEnd' PROVE RoomAtEnd /\ WindowOK(window) /\ Forward(window, window')
  BY <1>3, RoomBefore DEF Windowed
<1>4. Windowed'
  <2> SUFFICES ASSUME RoomAtEnd'
               PROVE  /\ WindowOK(window')
                      /\ PastEnd(window') =>
                           reported' /\ (calls' # <<>> => This'.at \notin Begins \cup {"item"})
                      /\ calls' # <<>> /\ This'.at \in Keywords => Kind(window') # "end"
    <3>1. WindowOK(window)' <=> WindowOK(window')
      BY <1>1 DEF WindowOK, Ate
    <3>2. PastEnd(window)' <=> PastEnd(window')
      BY DEF PastEnd
    <3> QED
      BY <1>1, <3>1, <3>2 DEF Windowed
  <2>1. WindowOK(window')
    BY <1>3 DEF Forward
  <2>2. ASSUME PastEnd(window')
        PROVE  reported' /\ (calls' # <<>> => This'.at \notin Begins \cup {"item"})
    <3>1. Ate(window') = Ate(window) /\ PastEnd(window)
      BY <1>3, <2>2 DEF Forward
    <3>2. Current = "end"
      BY <1>2, <1>3, <3>1, NothingBehind DEF Current
    <3>3. reported /\ This.at \notin Begins \cup {"item"}
      BY <1>3, <3>1 DEF Windowed
    <3>4. ~(Ate(window') > Ate(window))
      BY <1>3, <3>1 DEF Forward
    <3> QED
      BY <1>3, <3>2, <3>3, <3>4
  <2> QED
    BY <1>3, <2>1, <2>2
<1>5. Fed'
  <2> SUFFICES ASSUME RoomAtEnd', NEW i \in DOMAIN calls', calls'[i].at = "stmt_done"
               PROVE  /\ calls'[i].from <= Ate(window')
                      /\ calls'[i].from = Ate(window') =>
                           This'.at \in Begins /\ Kind(window') # "end"
    <3>1. Eaten' = Ate(window')
      BY DEF Eaten, Ate
    <3> QED
      BY <1>1, <3>1 DEF Fed
  <2>1. calls' # <<>>
    <3>1. calls' \in Seq(CallType)
      BY DEF Typed, CallsOK
    <3> QED
      BY <3>1, EmptySeq, LenProperties
  <2>2. Eaten = Ate(window) /\ Forward(window, window')
    BY <1>3, EatenType
  <2>3. CASE \E j \in DOMAIN calls : calls[j] = calls'[i]
    <3>1. PICK j \in DOMAIN calls : calls[j] = calls'[i]
      BY <2>3
    <3>2. /\ calls'[i].from <= Ate(window)
          /\ calls'[i].from = Ate(window) => This.at \in Begins /\ Current # "end"
      BY <1>3, <2>2, <3>1 DEF Fed
    <3>3. calls'[i].from \in Int
      <4>1. calls'[i] \in CallType
        BY DEF Typed, CallsOK
      <4> QED
        BY <4>1, CallFields
    <3>4. Ate(window) \in Int /\ Ate(window') \in Int /\ Ate(window') >= Ate(window)
          /\ (Ate(window') = Ate(window) => Kind(window') = Current)
      BY <2>2 DEF Forward, Current
    <3>5. calls'[i].from <= Ate(window')
      BY <3>2, <3>3, <3>4
    <3>6. ASSUME calls'[i].from = Ate(window')
          PROVE  This'.at \in Begins /\ Kind(window') # "end"
      <4>1. Ate(window') = Ate(window) /\ ~(Ate(window') > Ate(window))
        BY <3>2, <3>3, <3>4, <3>6
      <4>2. This.at \in Begins /\ Current # "end"
        BY <3>2, <3>6, <4>1
      <4> QED
        BY <1>3, <2>1, <3>4, <4>1, <4>2
    <3> QED
      BY <3>5, <3>6
  <2>4. CASE Starts(This', calls'[i])
    <3>1. /\ This'.at = "stmt" /\ calls'[i].from = Ate(window) /\ Current # "end"
          /\ window' = Look
      BY <2>2, <2>4 DEF Starts
    <3>2. Ate(window') = Ate(window) /\ Kind(window') = Current
      BY <1>2, <1>3, <3>1, PeekOK DEF Look, Current
    <3>3. This'.at \in Begins /\ Ate(window) \in Int
      BY <1>2, <3>1, AteType DEF Begins
    <3> QED
      BY <3>1, <3>2, <3>3
  <2> QED
    BY <2>3, <2>4 DEF Waits
<1> QED
  BY <1>4, <1>5

LEMMA Disjoint ==
    /\ Waiting \cap (Begins \cup {"item"}) = {}
    /\ Keywords \subseteq Begins
    /\ "item" \notin Begins
  BY DEF Waiting, Begins, Keywords, DeclLabels

(* What a return uncovers is waiting.                                      *)
LEMMA Uncovers ==
    ASSUME Typed, Typed', calls # <<>>, calls' = Tail(calls), calls' # <<>>
    PROVE  This'.at \in Waiting
<1>1. calls \in Seq(CallType) /\ calls' \in Seq(CallType)
  BY DEF Typed, CallsOK
<1>2. This' = calls'[1] /\ Len(calls') \in Nat /\ Len(calls') >= 1
  BY <1>1, Replaced DEF This
<1>3. Len(calls') = Len(calls) - 1 /\ Len(calls) \in Nat
  BY <1>1, Replaced
<1>4. calls'[1] = calls[1 + 1]
  BY <1>1, <1>2, <1>3, Replaced
<1>5. 1 + 1 \in DOMAIN calls /\ 1 + 1 > 1
  BY <1>1, <1>2, <1>3, LenProperties
<1>6. calls[1 + 1].at \in Waiting
  BY <1>5 DEF Typed, CallsOK
<1> QED
  BY <1>2, <1>4, <1>6

(* The innermost call returns.                                             *)
LEMMA PopFeeds ==
    ASSUME Typed, Typed', Windowed, Fed, UNCHANGED input, reported => reported', Waits,
           NEW l, Running(l), calls' = Tail(calls),
           RoomAtEnd => /\ Forward(window, window')
                        /\ l \in Begins => Current = "end" \/ Ate(window') > Ate(window)
    PROVE  Windowed' /\ Fed'
<1>1. calls # <<>> /\ This.at = l
  BY Innermost
<1>2. ASSUME calls' # <<>> PROVE This'.at \notin Begins \cup {"item"} /\ This'.at \notin Keywords
  BY <1>1, <1>2, Uncovers, Disjoint
<1> QED
  BY <1>1, <1>2, Feeds

(* It goes on, or calls another function, that is at the label m.          *)
LEMMA GoFeeds ==
    ASSUME Typed, Typed', Windowed, Fed, UNCHANGED input, reported => reported', Waits,
           NEW l, Running(l), NEW m, This'.at = m,
           RoomAtEnd =>
             /\ Forward(window, window')
             /\ m \in Begins \cup {"item"} =>
                  l \in Begins \cup {"item"} \/ Current # "end" \/ Ate(window') > Ate(window)
             /\ m \in Keywords => Kind(window') # "end"
             /\ l \in Begins /\ Current # "end" => Ate(window') > Ate(window) \/ m \in Begins
    PROVE  Windowed' /\ Fed'
<1>1. calls # <<>> /\ This.at = l
  BY Innermost
<1> QED
  BY <1>1, Feeds

LEMMA FirstIs ==
    ASSUME NEW S, NEW t \in Seq(S), NEW a, NEW b
    PROVE  Head(<<a>> \o t) = a /\ Head(<<a, b>> \o t) = a
<1> DEFINE T == S \cup {a, b}
<1>1. t \in Seq(T) /\ <<a>> \in Seq(T) /\ <<a, b>> \in Seq(T)
  BY SeqGrows
<1>2. /\ Len(<<a>> \o t) = Len(t) + 1 /\ (<<a>> \o t)[1] = a /\ <<a>> \o t \in Seq(T)
      /\ Len(<<a, b>> \o t) = Len(t) + 2 /\ (<<a, b>> \o t)[1] = a /\ <<a, b>> \o t \in Seq(T)
  BY <1>1, ConcatProperties
<1>3. Len(t) \in Nat
  BY LenProperties
<1>4. <<a>> \o t # <<>> /\ <<a, b>> \o t # <<>>
  BY <1>2, <1>3, EmptySeq
<1> QED
  BY <1>2, <1>4, HeadTailProperties

LEMMA GoesTo ==
    ASSUME Typed, NEW l, Running(l), NEW a, Goto(<<a>>) \/ \E b : Goto(<<a, b>>)
    PROVE  This' = a
<1>1. Tail(calls) \in Seq(CallType)
  BY Innermost, Replaced
<1>2. CASE Goto(<<a>>)
  BY <1>1, <1>2, FirstIs DEF Goto, This
<1>3. CASE \E b : Goto(<<a, b>>)
  BY <1>1, <1>3, FirstIs DEF Goto, This
<1> QED
  BY <1>2, <1>3

(* The places of calls.                                                    *)
LEMMA PlacesAre ==
    ASSUME NEW c \in CallType, NEW m
    PROVE  /\ Call(m).at = m /\ At(c, m).at = m
           /\ \A s : Listed(c, m, s).at = m
           /\ \A f : Since(c, f).at = "stmt_done"
<1>1. Call(m).at = m
  BY DEF Call
<1>2. At(c, m).at = m
  BY CallAt DEF At
<1>3. ASSUME NEW s PROVE Listed(c, m, s).at = m
  BY CallAt DEF Listed
<1>4. ASSUME NEW f PROVE Since(c, f).at = "stmt_done"
  BY CallAt DEF Since
<1> QED
  BY <1>1, <1>2, <1>3, <1>4

(* What is known of a step before its window is looked at.                 *)
Ready ==
    /\ Typed /\ Typed' /\ Windowed /\ Fed
    /\ input' = input /\ (reported => reported') /\ Waits

LEMMA ReadyIs ==
    ASSUME Typed, Windowed, Fed, Typed', Changes, Keep
    PROVE  Ready
<1>1. Waits
  BY QuietWaits DEF Changes
<1> QED
  BY <1>1 DEF Ready, Changes, Keep

(* At most one token is peeked at, or one that is there is consumed.       *)
Step1 == window' \in {window, Look} \/ (Current # "end" /\ window' = Take(window))

LEMMA Step1Forward ==
    ASSUME Typed, Windowed, RoomAtEnd, Step1
    PROVE  /\ Forward(window, window')
           /\ window' = Take(window) /\ Current # "end" => Ate(window') > Ate(window)
  BY OneStep DEF Step1

(* Elsewhere than at the beginning of a function.                          *)
LEMMA Steady ==
    ASSUME Ready, NEW l, l \notin Begins, Running(l), Step1,
           NEW m, This'.at = m, m \notin Begins \cup {"item"}
    PROVE  Windowed' /\ Fed'
<1>1. m \notin Keywords
  BY Disjoint
<1> QED
  BY <1>1, Step1Forward, GoFeeds DEF Ready

LEMMA SteadyPop ==
    ASSUME Ready, NEW l, l \notin Begins, Running(l), Step1, calls' = Tail(calls)
    PROVE  Windowed' /\ Fed'
  BY Step1Forward, PopFeeds DEF Ready

(* A function that begins, and consumes a token.                           *)
LEMMA Takes ==
    ASSUME Ready, NEW l, l \in Begins, Running(l), Current # "end", window' = Take(window),
           NEW m, This'.at = m, m \notin Keywords
    PROVE  Windowed' /\ Fed'
<1>1. Step1
  BY DEF Step1
<1> QED
  BY <1>1, Step1Forward, GoFeeds DEF Ready

LEMMA TakesPop ==
    ASSUME Ready, NEW l, l \in Begins, Running(l), calls' = Tail(calls),
           \/ Current # "end" /\ window' = Take(window)
           \/ Current = "end" /\ window' \in {window, Look}
    PROVE  Windowed' /\ Fed'
<1>1. Step1
  BY DEF Step1
<1> QED
  BY <1>1, Step1Forward, PopFeeds DEF Ready

(* A keyword is there when its function begins.                            *)
LEMMA KeywordThere ==
    ASSUME Typed, Windowed, RoomAtEnd, NEW l \in Keywords, Running(l)
    PROVE  Current # "end" /\ l \in Begins
  BY Innermost, Disjoint DEF Windowed

(* A call that leads to another.                                           *)
LEMMA Leads ==
    ASSUME Ready, NEW l, l \in Begins, Running(l), window' \in {window, Look},
           NEW m, This'.at = m, m \in Begins \ Keywords
    PROVE  Windowed' /\ Fed'
<1>1. Step1
  BY DEF Step1
<1> QED
  BY <1>1, Step1Forward, GoFeeds DEF Ready

LEMMA CompletedFeeds ==
    ASSUME Typed, Windowed, Fed, Completed
    PROVE  Windowed' /\ Fed'
<1>1. Ready /\ Running("complete") /\ calls' = Tail(calls) /\ Step1
  BY CompletedTypes, ReadyIs DEF Completed, Return, Step1
<1>2. "complete" \notin Begins
  BY DEF Begins, Keywords, DeclLabels
<1> QED
  BY <1>1, <1>2, SteadyPop

LEMMA NextParamFeeds ==
    ASSUME Typed, Windowed, Fed, NextParam
    PROVE  Windowed' /\ Fed'
<1> DEFINE a == At(This, "param")
<1>1. Ready /\ Running("params") /\ Goto(<<a>>) /\ Step1
  BY NextParamTypes, ReadyIs DEF NextParam, At, Step1
<1>2. a.at = "param"
  BY <1>1, PlacesAre, Innermost
<1> HIDE DEF a
<1>3. This' = a
  BY <1>1, GoesTo
<1>4. {"params", "param"} \cap (Begins \cup {"item"}) = {}
  BY DEF Begins, Keywords, DeclLabels
<1> QED
  BY <1>1, <1>2, <1>3, <1>4, Steady

LEMMA NoParamFeeds ==
    ASSUME Typed, Windowed, Fed, NoParam
    PROVE  Windowed' /\ Fed'
<1> DEFINE a == At(This, "params")
<1>1. Ready /\ Running("param") /\ Goto(<<a>>) /\ Step1
  BY NoParamTypes, ReadyIs DEF NoParam, At, Step1
<1>2. a.at = "params"
  BY <1>1, PlacesAre, Innermost
<1> HIDE DEF a
<1>3. This' = a
  BY <1>1, GoesTo
<1>4. {"params", "param"} \cap (Begins \cup {"item"}) = {}
  BY DEF Begins, Keywords, DeclLabels
<1> QED
  BY <1>1, <1>2, <1>3, <1>4, Steady

(* A token is consumed in the loop of a function.                          *)
LEMMA SkipFeeds ==
    ASSUME Typed, Windowed, Fed, SkipComma \/ SkipSemicolon \/ RecoverSkips
    PROVE  Windowed' /\ Fed'
<1>1. Ready
  <2>1. Typed' /\ Changes /\ Keep
    BY SkipCommaTypes, SkipSemicolonTypes, RecoverTypes DEF SkipComma, SkipSemicolon, RecoverSkips
  <2> QED
    BY <2>1, ReadyIs
<1>2. calls' = calls /\ This' = This /\ Step1
  BY DEF SkipComma, SkipSemicolon, RecoverSkips, AtDelimiter, This, Step1
<1>3. Current # "end" /\ window' = Take(window)
  BY DEF SkipComma, SkipSemicolon, RecoverSkips, AtDelimiter
<1>4. PICK l \in {"param", "item", "stmts", "recover"} : Running(l)
  BY DEF SkipComma, SkipSemicolon, RecoverSkips
<1>5. l \notin Begins /\ l \notin Keywords
  BY DEF Begins, Keywords, DeclLabels
<1>6. This'.at = l
  BY <1>2, <1>4 DEF Running
<1> QED
  BY <1>1, <1>2, <1>3, <1>4, <1>5, <1>6, Step1Forward, GoFeeds DEF Ready

LEMMA ListedAt ==
    ASSUME NEW c \in CallType, NEW m, NEW s
    PROVE  Listed(c, m, s).at = m
  BY CallAt DEF Listed

(* What returns from elsewhere than its beginning.                         *)
LEMMA ReturnFeeds ==
    ASSUME Typed, Windowed, Fed,
           NoOperator \/ Operand \/ CloseParen \/ PostfixDone \/ WrapExpr
    PROVE  Windowed' /\ Fed'
<1>1. Ready
  <2>1. Typed' /\ Changes /\ Keep
    BY NoOperatorTypes, OperandTypes, CloseParenTypes, PostfixDoneTypes, WrapExprTypes
       DEF NoOperator, Operand, CloseParen, PostfixDone, WrapExpr
  <2> QED
    BY <2>1, ReadyIs
<1>2. PICK l \in {"operators", "operand", "paren", "postfix", "expr_stmt"} : Running(l)
  BY DEF NoOperator, Operand, CloseParen, PostfixDone, WrapExpr
<1>3. calls' = Tail(calls)
  BY DEF NoOperator, Operand, CloseParen, PostfixDone, WrapExpr, Return
<1>4. Step1
  BY DEF NoOperator, Operand, CloseParen, PostfixDone, WrapExpr, Step1
<1>5. l \notin Begins
  BY DEF Begins, Keywords, DeclLabels
<1> QED
  BY <1>1, <1>2, <1>3, <1>4, <1>5, SteadyPop

(* What returns with the token it consumes, or finds none.                 *)
LEMMA TokenFeeds ==
    ASSUME Typed, Windowed, Fed, Atom \/ NoExpr \/ StmtAtEnd
    PROVE  Windowed' /\ Fed'
<1>1. Ready
  <2>1. Typed' /\ Changes /\ Keep
    BY AtomTypes, NoExprTypes, StmtAtEndTypes DEF Atom, NoExpr, StmtAtEnd
  <2> QED
    BY <2>1, ReadyIs
<1>2. PICK l \in {"primary", "stmt"} : Running(l)
  BY DEF Atom, NoExpr, StmtAtEnd
<1>3. calls' = Tail(calls)
  BY DEF Atom, NoExpr, StmtAtEnd, Return
<1>4. \/ Current # "end" /\ window' = Take(window)
      \/ Current = "end" /\ window' \in {window, Look}
  BY DEF Atom, NoExpr, StmtAtEnd
<1>5. l \in Begins
  BY DEF Begins
<1> QED
  BY <1>1, <1>2, <1>3, <1>4, <1>5, TakesPop

LEMMA InfixFeeds ==
    ASSUME Typed, Windowed, Fed, Infix
    PROVE  Windowed' /\ Fed'
<1> DEFINE a == Call("prefix")
<1>1. /\ Ready /\ Running("infix") /\ Goto(<<a, At(This, "lhs")>>)
      /\ window' \in {window, Look}
  BY InfixTypes, ReadyIs DEF Infix, At
<1>2. This' = a /\ a.at = "prefix"
  BY <1>1, GoesTo, PlacesAre, Innermost
<1>3. "infix" \in Begins /\ "prefix" \in Begins \ Keywords
  BY DEF Begins, Keywords, DeclLabels
<1> QED
  BY <1>1, <1>2, <1>3, Leads

LEMMA NoPrefixFeeds ==
    ASSUME Typed, Windowed, Fed, NoPrefix
    PROVE  Windowed' /\ Fed'
<1> DEFINE a == Call("primary")
<1>1. /\ Ready /\ Running("prefix") /\ Goto(<<a, Call("postfix")>>)
      /\ window' \in {window, Look}
  BY NoPrefixTypes, ReadyIs DEF NoPrefix
<1>2. This' = a /\ a.at = "primary"
  BY <1>1, GoesTo, PlacesAre, Innermost
<1>3. "prefix" \in Begins /\ "primary" \in Begins \ Keywords
  BY DEF Begins, Keywords, DeclLabels
<1> QED
  BY <1>1, <1>2, <1>3, Leads

LEMMA ExprStmtFeeds ==
    ASSUME Typed, Windowed, Fed, ExprStmt
    PROVE  Windowed' /\ Fed'
<1>1. /\ Ready /\ Running("stmt") /\ Goto(<<Expr, Call("expr_stmt")>>)
      /\ window' \in {window, Look}
  BY ExprStmtTypes, ReadyIs DEF ExprStmt
<1>2. This' = Expr /\ Expr.at = "infix"
  BY <1>1, GoesTo, PlacesAre, Innermost DEF Expr
<1>3. "stmt" \in Begins /\ "infix" \in Begins \ Keywords
  BY DEF Begins, Keywords, DeclLabels
<1> QED
  BY <1>1, <1>2, <1>3, Leads

LEMMA LhsFeeds ==
    ASSUME Typed, Windowed, Fed, Lhs
    PROVE  Windowed' /\ Fed'
<1> DEFINE s == <<ret>>
           a == Listed(This, "operators", s)
<1>1. Ready /\ Running("lhs") /\ Step1
  BY LhsTypes, ReadyIs DEF Lhs, Step1
<1>2. {"lhs", "operators"} \cap (Begins \cup {"item"}) = {}
  BY DEF Begins, Keywords, DeclLabels
<1>3. CASE calls' = Tail(calls)
  BY <1>1, <1>2, <1>3, SteadyPop
<1>4. CASE Goto(<<a>>)
  <2> HIDE DEF s
  <2>1. a.at = "operators"
    BY <1>1, ListedAt, Innermost
  <2> HIDE DEF a
  <2>2. This' = a
    BY <1>1, <1>4, GoesTo
  <2> QED
    BY <1>1, <1>2, <2>1, <2>2, Steady
<1> QED
  BY <1>3, <1>4 DEF Lhs, Return, Listed

LEMMA OperatorFeeds ==
    ASSUME Typed, Windowed, Fed, Operator
    PROVE  Windowed' /\ Fed'
<1> DEFINE a == RightOf(Current)
           b == [This EXCEPT !.at = "rhs", !.list = Append(@, TokenAt(window, n))]
<1>1. /\ Ready /\ Running("operators") /\ Goto(<<a, b>>)
      /\ window' = Take(window) /\ Current \in DOMAIN Level
  BY OperatorTypes, ReadyIs DEF Operator, IsInfix
<1>2. This' = a
  BY <1>1, GoesTo
<1>3. a.at \in {"prefix", "infix"}
  <2>1. Call("prefix").at = "prefix"
    BY DEF Call
  <2>2. ASSUME NEW v PROVE [Expr EXCEPT !.level = v].at = "infix"
    BY DEF Expr, Call
  <2> QED
    BY <2>1, <2>2 DEF RightOf
<1> HIDE DEF a, b
<1>4. Current # "end" /\ Step1
  BY <1>1 DEF Step1, Level
<1>5. "operators" \notin Begins /\ a.at \notin Keywords
  BY <1>3 DEF Begins, Keywords, DeclLabels
<1> QED
  BY <1>1, <1>2, <1>4, <1>5, Step1Forward, GoFeeds DEF Ready

LEMMA RhsFeeds ==
    ASSUME Typed, Windowed, Fed, Rhs
    PROVE  Windowed' /\ Fed'
<1> DEFINE s == <<NewId>>
           a == Listed(This, "operators", s)
<1>1. Running("rhs") /\ Step1 /\ Goto(<<a>>) /\ input' = input
  BY DEF Rhs, Step1, Listed, Keep
<1>2. Typed' /\ Quiet /\ reported' = reported
  BY RhsTypes
<1>3. Ready
  BY <1>1, <1>2, QuietWaits DEF Ready
<1>4. {"rhs", "operators"} \cap (Begins \cup {"item"}) = {}
  BY DEF Begins, Keywords, DeclLabels
<1> HIDE DEF s
<1>5. a.at = "operators"
  BY <1>1, ListedAt, Innermost
<1> HIDE DEF a
<1>6. This' = a
  BY <1>1, GoesTo
<1> QED
  BY <1>1, <1>3, <1>4, <1>5, <1>6, Steady

(* What consumes a token, then parses an expression.                       *)
LEMMA OpenFeeds ==
    ASSUME Typed, Windowed, Fed, PrefixOperator \/ OpenParen
    PROVE  Windowed' /\ Fed'
<1>1. Ready
  <2>1. Typed' /\ Changes /\ Keep
    BY PrefixOperatorTypes, OpenParenTypes DEF PrefixOperator, OpenParen
  <2> QED
    BY <2>1, ReadyIs
<1>2. PICK l \in {"prefix", "primary"} : Running(l)
  BY DEF PrefixOperator, OpenParen
<1>3. \E b : Goto(<<Expr, b>>)
  BY DEF PrefixOperator, OpenParen
<1>4. This' = Expr /\ Expr.at = "infix"
  BY <1>2, <1>3, GoesTo, PlacesAre, Innermost DEF Expr, Ready
<1>5. Current # "end" /\ window' = Take(window)
  BY DEF PrefixOperator, OpenParen, PrefixKinds
<1>6. l \in Begins /\ "infix" \notin Keywords
  BY DEF Begins, Keywords, DeclLabels
<1> QED
  BY <1>1, <1>2, <1>4, <1>5, <1>6, Takes

LEMMA OpenArgsFeeds ==
    ASSUME Typed, Windowed, Fed, OpenArgs
    PROVE  Windowed' /\ Fed'
<1> DEFINE s == <<ret>>
           a == [Call("args") EXCEPT !.list = s]
<1>1. Ready /\ Running("postfix") /\ Step1 /\ Goto(<<a>>)
  BY OpenArgsTypes, ReadyIs DEF OpenArgs, Step1
<1> HIDE DEF s
<1>2. a.at = "args"
  BY DEF Call
<1> HIDE DEF a
<1>3. This' = a
  BY <1>1, GoesTo
<1>4. {"postfix", "args"} \cap (Begins \cup {"item"}) = {}
  BY DEF Begins, Keywords, DeclLabels
<1> QED
  BY <1>1, <1>2, <1>3, <1>4, Steady

LEMMA NextArgFeeds ==
    ASSUME Typed, Windowed, Fed, NextArg
    PROVE  Windowed' /\ Fed'
<1> DEFINE a == At(This, "item")
<1>1. Ready /\ Running("args") /\ Goto(<<a>>) /\ Step1 /\ Current # "end"
  BY NextArgTypes, ReadyIs DEF NextArg, At, Step1
<1>2. a.at = "item"
  BY <1>1, PlacesAre, Innermost
<1> HIDE DEF a
<1>3. This' = a
  BY <1>1, GoesTo
<1>4. "args" \notin Begins /\ "item" \notin Keywords
  BY DEF Begins, Keywords, DeclLabels
<1> QED
  BY <1>1, <1>2, <1>3, <1>4, Step1Forward, GoFeeds DEF Ready

LEMMA ArgFeeds ==
    ASSUME Typed, Windowed, Fed, Arg
    PROVE  Windowed' /\ Fed'
<1>1. Ready /\ Running("item") /\ (\E b : Goto(<<Expr, b>>)) /\ Step1
  BY ArgTypes, ReadyIs DEF Arg, Step1
<1>2. This' = Expr /\ Expr.at = "infix"
  BY <1>1, GoesTo, PlacesAre, Innermost DEF Expr
<1>3. "item" \notin Begins /\ "infix" \notin Keywords
  BY DEF Begins, Keywords, DeclLabels
<1> QED
  BY <1>1, <1>2, <1>3, Step1Forward, GoFeeds DEF Ready

LEMMA ArgParsedFeeds ==
    ASSUME Typed, Windowed, Fed, ArgParsed, ~Overflow
    PROVE  Windowed' /\ Fed'
<1> DEFINE s == Append(This.list, ret)
           a == Listed(This, "args", s)
<1>1. /\ Running("arg") /\ Keep /\ Goto(<<a>>)
      /\ window' = IF Current = "comma" THEN Take(window) ELSE Look
  BY DEF ArgParsed, Listed
<1>2. Ready
  BY <1>1, ArgParsedTypes, ReadyIs
<1>3. Step1
  BY <1>1 DEF Step1
<1> HIDE DEF s
<1>4. a.at = "args"
  BY <1>1, ListedAt, Innermost DEF Ready
<1> HIDE DEF a
<1>5. This' = a
  BY <1>1, GoesTo
<1>6. {"arg", "args"} \cap (Begins \cup {"item"}) = {}
  BY DEF Begins, Keywords, DeclLabels
<1> QED
  BY <1>1, <1>2, <1>3, <1>4, <1>5, <1>6, Steady

LEMMA CloseArgsFeeds ==
    ASSUME Typed, Windowed, Fed, CloseArgs
    PROVE  Windowed' /\ Fed'
<1> DEFINE a == Call("postfix")
<1>1. Ready /\ Running("args") /\ Goto(<<a>>) /\ Step1
  BY CloseArgsTypes, ReadyIs DEF CloseArgs, Step1
<1>2. This' = a /\ a.at = "postfix"
  BY <1>1, GoesTo, PlacesAre, Innermost
<1>3. {"postfix", "args"} \cap (Begins \cup {"item"}) = {}
  BY DEF Begins, Keywords, DeclLabels
<1> QED
  BY <1>1, <1>2, <1>3, Steady

(* The only tokens consumed that are not there.                            *)
LEMMA ExprAtEndFeeds ==
    ASSUME Typed, Windowed, Fed, ExprAtEnd
    PROVE  Windowed' /\ Fed'
<1>1. /\ Ready /\ Running("primary") /\ calls' = Tail(calls) /\ reported' = TRUE
      /\ Current = "end" /\ window' = Take(window)
  BY NoExprTypes, ReadyIs DEF ExprAtEnd, Return
<1>2. calls # <<>> /\ This.at = "primary" /\ "primary" \in Begins
  BY <1>1, Innermost DEF Begins
<1>3. calls' # <<>> => This'.at \notin Begins \cup {"item"} /\ This'.at \notin Keywords
  BY <1>1, <1>2, Uncovers, Disjoint DEF Ready
<1>4. n' = n /\ input \in Seq(Token) /\ window \in WindowType
  BY <1>1, KindNext DEF Typed, Ready
<1>5. ASSUME RoomAtEnd'
      PROVE  RoomAtEnd /\ WindowOK(window') /\ Ate(window') = Ate(window) + 1
  <2>1. RoomAtEnd /\ n % WindowLength # WindowLength - 1
    BY <1>1, <1>4, <1>5, RoomBefore DEF RoomAtEnd, Ready
  <2>2. WindowOK(window) /\ ~PastEnd(window)
    BY <1>2, <2>1 DEF Windowed
  <2> QED
    BY <1>1, <1>4, <2>1, <2>2, TakeEndOK DEF Current
<1>6. Windowed'
  <2>1. WindowOK(window)' <=> WindowOK(window')
    BY <1>4 DEF WindowOK, Ate
  <2> QED
    BY <1>1, <1>3, <1>5, <2>1 DEF Windowed
<1>7. Fed'
  <2> SUFFICES ASSUME RoomAtEnd', NEW i \in DOMAIN calls', calls'[i].at = "stmt_done"
               PROVE  calls'[i].from < Ate(window')
    <3>1. Eaten' = Ate(window')
      BY DEF Eaten, Ate
    <3>2. Ate(window') \in Int /\ \A i \in DOMAIN calls' : calls'[i].from \in Int
      <4>1. \A i \in DOMAIN calls' : calls'[i] \in CallType
        BY <1>1 DEF Ready, Typed, CallsOK
      <4>2. Ate(window') \in Int
        BY <1>1, <1>4, TakeType, AteType
      <4> QED
        BY <4>1, <4>2, CallFields
    <3> QED
      BY <3>1, <3>2 DEF Fed
  <2>1. PICK j \in DOMAIN calls : calls[j] = calls'[i]
    BY <1>1 DEF Ready, Waits, Starts
  <2>2. calls[j].from <= Ate(window) /\ Ate(window) \in Int
    BY <1>4, <1>5, <2>1, EatenType, AteType DEF Fed
  <2>3. calls[j].from \in Int
    BY CallFields DEF Typed, CallsOK
  <2> QED
    BY <1>5, <2>1, <2>2, <2>3
<1> QED
  BY <1>6, <1>7

LEMMA NextStmtFeeds ==
    ASSUME Typed, Windowed, Fed, NextStmt
    PROVE  Windowed' /\ Fed'
<1> DEFINE a == Call("stmt")
<1>1. /\ Ready /\ Running("stmts") /\ (\E b : Goto(<<a, b>>)) /\ Step1
      /\ Current # "end"
  BY NextStmtTypes, ReadyIs DEF NextStmt, Step1
<1>2. This' = a /\ a.at = "stmt"
  BY <1>1, GoesTo, PlacesAre, Innermost
<1>3. "stmts" \notin Begins /\ "stmt" \notin Keywords
  BY DEF Begins, Keywords, DeclLabels
<1> QED
  BY <1>1, <1>2, <1>3, Step1Forward, GoFeeds DEF Ready

LEMMA StmtParsedFeeds ==
    ASSUME Typed, Windowed, Fed, StmtParsed, ~Overflow
    PROVE  Windowed' /\ Fed'
<1> DEFINE m == IF nodes[ret].kind = "error" THEN "recover" ELSE "stmts"
           s == Append(This.list, ret)
           a == Listed(This, m, s)
<1>1. Running("stmt_done") /\ Keep /\ window' = window /\ Goto(<<a>>)
  <2>1. ~Stop("undefined")
    BY DEF Overflow
  <2> QED
    BY <2>1 DEF StmtParsed, Listed
<1>2. Ready /\ Step1
  BY <1>1, StmtParsedTypes, ReadyIs DEF Step1
<1>3. {"stmt_done", m} \cap (Begins \cup {"item"}) = {}
  BY DEF Begins, Keywords, DeclLabels
<1> HIDE DEF m, s
<1>4. a.at = m
  BY <1>1, ListedAt, Innermost
<1> HIDE DEF a
<1>5. This' = a
  BY <1>1, GoesTo
<1> QED
  BY <1>1, <1>2, <1>3, <1>4, <1>5, Steady

LEMMA RecoveredFeeds ==
    ASSUME Typed, Windowed, Fed, Recovered
    PROVE  Windowed' /\ Fed'
<1> DEFINE a == At(This, "stmts")
<1>1. Ready /\ Running("recover") /\ Goto(<<a>>) /\ Step1
  BY RecoveredTypes, ReadyIs DEF Recovered, At, Step1
<1>2. a.at = "stmts"
  BY <1>1, PlacesAre, Innermost
<1> HIDE DEF a
<1>3. This' = a
  BY <1>1, GoesTo
<1>4. {"recover", "stmts"} \cap (Begins \cup {"item"}) = {}
  BY DEF Begins, Keywords, DeclLabels
<1> QED
  BY <1>1, <1>2, <1>3, <1>4, Steady

LEMMA EndOfSourceFeeds ==
    ASSUME Typed, Windowed, Fed, EndOfSource
    PROVE  Windowed' /\ Fed'
<1> DEFINE a == At(This, "gather")
<1>1. Ready /\ Running("stmts") /\ (\E b : Goto(<<a, b>>)) /\ Step1
  BY EndOfSourceTypes, ReadyIs DEF EndOfSource, At, Step1
<1>2. a.at = "gather"
  BY <1>1, PlacesAre, Innermost
<1> HIDE DEF a
<1>3. This' = a
  BY <1>1, GoesTo
<1>4. {"gather", "stmts"} \cap (Begins \cup {"item"}) = {}
  BY DEF Begins, Keywords, DeclLabels
<1> QED
  BY <1>1, <1>2, <1>3, <1>4, Steady

(* A production begins where its keyword is.                               *)
LEMMA ProductionFeeds ==
    ASSUME Typed, Windowed, Fed, Production
    PROVE  Windowed' /\ Fed'
<1> DEFINE k == Productions[Current]
           a == Call(k)
<1>1. /\ Ready /\ Running("stmt") /\ Goto(<<a>>) /\ window' = Look
      /\ Current \in DOMAIN Productions
  BY ProductionTypes, ReadyIs DEF Production
<1>2. Current # "end" /\ Step1
  BY <1>1 DEF Productions, Step1
<1>3. k \in Keywords /\ "stmt" \in Begins
  BY <1>1, Produced DEF Begins
<1> HIDE DEF k
<1>4. This' = a /\ a.at = k
  BY <1>1, GoesTo, PlacesAre, Innermost
<1>5. k \in Begins
  BY <1>3, Disjoint
<1>6. RoomAtEnd => Kind(window') # "end"
  BY <1>1, <1>2, PeekOK DEF Look, Current, Windowed, Typed
<1> QED
  BY <1>1, <1>2, <1>3, <1>4, <1>5, <1>6, Step1Forward, GoFeeds DEF Ready

LEMMA OpenBraceFeeds ==
    ASSUME Typed, Scoped, Windowed, Fed, OpenBrace
    PROVE  Windowed' /\ Fed'
<1> DEFINE a == Owner("stmts", NewId)
<1>1. /\ Running("brace") /\ Goto(<<a>>) /\ window' = Take(window) /\ input' = input
  BY DEF OpenBrace, Owner, Keep
<1>2. Typed' /\ reported' = reported
  BY OpenBraceKeeps
<1>3. a.at = "stmts"
  <2> DEFINE d == NewId
  <2> HIDE DEF d
  <2>1. [Call("stmts") EXCEPT !.node = d].at = "stmts"
    BY DEF Call
  <2> QED
    BY <2>1 DEF Owner, d
<1> HIDE DEF a
<1>4. This' = a /\ calls # <<>>
  BY <1>1, GoesTo, Innermost
<1>5. calls' # <<>> => a \in CallType
  <2>1. calls' \in Seq(CallType)
    BY <1>2 DEF Typed, CallsOK
  <2> QED
    BY <1>4, <2>1, Replaced DEF This
<1>6. Waits
  <2>1. ASSUME calls' # <<>> PROVE Moves
    BY <1>1, <1>3, <1>4, <1>5, <2>1 DEF Moves, Puts, Goto
  <2>2. calls' = <<>> => Waits
    BY DEF Waits
  <2> QED
    BY <1>2, <2>1, <2>2, MovesWaits
<1>7. "brace" \in Keywords /\ "stmts" \notin Begins \cup {"item"} /\ "stmts" \notin Keywords
  BY DEF Begins, Keywords, DeclLabels
<1>8. RoomAtEnd => Forward(window, window') /\ Ate(window') > Ate(window)
  BY <1>1, <1>7, KeywordThere, OneStep
<1> QED
  BY <1>1, <1>2, <1>3, <1>4, <1>6, <1>7, <1>8, GoFeeds

LEMMA CloseBraceFeeds ==
    ASSUME Typed, Scoped, Windowed, Fed, CloseBrace
    PROVE  Windowed' /\ Fed'
<1>1. /\ Running("stmts") /\ calls' = Tail(calls) /\ input' = input
      /\ window' = IF Current = "r_brace" THEN Take(window) ELSE Look
  BY DEF CloseBrace, Return, Keep
<1>2. Typed' /\ (reported => reported')
  BY CloseBraceKeeps
<1>3. Waits
  <2>1. Moves
    BY <1>1, Innermost DEF Moves, Pops
  <2> QED
    BY <1>2, <2>1, MovesWaits
<1>4. Ready /\ Step1
  BY <1>1, <1>2, <1>3 DEF Ready, Step1
<1>5. "stmts" \notin Begins
  BY DEF Begins, Keywords, DeclLabels
<1> QED
  BY <1>1, <1>4, <1>5, SteadyPop

LEMMA KeywordFeeds ==
    ASSUME Typed, Windowed, Fed, IfStmt \/ WhileStmt \/ RetStmt
    PROVE  Windowed' /\ Fed'
<1>1. PICK l \in {"if", "while", "ret"} :
        Running(l) /\ (\E b : Goto(<<Expr, b>>)) /\ window' = Take(window) /\ Keep
  BY DEF IfStmt, WhileStmt, RetStmt, Keyword
<1>2. Ready
  BY <1>1, KeywordsTypes, ReadyIs
<1>3. This' = Expr /\ Expr.at = "infix"
  BY <1>1, GoesTo, PlacesAre, Innermost DEF Expr
<1>4. l \in Keywords /\ "infix" \notin Keywords
  BY DEF Keywords, DeclLabels
<1>5. RoomAtEnd => Forward(window, window') /\ Ate(window') > Ate(window) /\ l \in Begins
  BY <1>1, <1>4, KeywordThere, OneStep
<1> QED
  BY <1>1, <1>2, <1>3, <1>4, <1>5, GoFeeds DEF Ready

LEMMA KeywordPopFeeds ==
    ASSUME Typed, Windowed, Fed, BrkOrNxt \/ DeclAtEnd
    PROVE  Windowed' /\ Fed'
<1>1. /\ window' = Take(window) /\ Keep /\ calls' = Tail(calls)
      /\ \E l \in {"brk", "nxt"} \cup DeclKinds : Running(l)
  BY DEF BrkOrNxt, DeclAtEnd, AfterKeyword, Return
<1>2. PICK l \in {"brk", "nxt"} \cup DeclKinds : Running(l)
  BY <1>1
<1>3. Ready
  BY <1>1, BrkOrNxtTypes, DeclAtEndTypes, ReadyIs
<1>4. l \in Keywords
  BY DEF Keywords, DeclLabels, DeclKinds
<1>5. RoomAtEnd => Forward(window, window') /\ Ate(window') > Ate(window)
  BY <1>1, <1>2, <1>4, KeywordThere, OneStep
<1> QED
  BY <1>1, <1>2, <1>3, <1>5, PopFeeds DEF Ready

(* A block is called where its brace is.                                   *)
LEMMA BraceFeeds ==
    ASSUME Ready, NEW l, Running(l), l \notin Begins, Current = "l_brace", window' = Look,
           NEW b, Goto(<<Call("brace"), b>>)
    PROVE  Windowed' /\ Fed'
<1> DEFINE a == Call("brace")
<1>1. This' = a /\ a.at = "brace"
  BY GoesTo, PlacesAre, Innermost DEF Ready
<1>2. Current # "end" /\ Step1
  BY DEF Step1
<1>3. RoomAtEnd => Kind(window') # "end"
  BY <1>2, PeekOK DEF Look, Current, Windowed, Typed, Ready
<1> QED
  BY <1>1, <1>2, <1>3, Step1Forward, GoFeeds DEF Ready

LEMMA ThenFeeds ==
    ASSUME Typed, Windowed, Fed, Then
    PROVE  Windowed' /\ Fed'
<1> DEFINE s == <<ret>>
           a == Listed(This, "else", s)
<1>1. /\ Running("then") /\ window' = Look
      /\ IF Current = "l_brace" THEN Goto(<<Call("brace"), a>>) ELSE Goto(<<a>>)
  BY DEF Then, Listed
<1>2. Ready /\ Step1
  BY <1>1, ThenTypes, ReadyIs DEF Then, Step1
<1>3. {"then", "else"} \cap (Begins \cup {"item"}) = {}
  BY DEF Begins, Keywords, DeclLabels
<1> HIDE DEF s
<1>4. a.at = "else"
  BY <1>1, ListedAt, Innermost
<1> HIDE DEF a
<1>5. CASE Current = "l_brace"
  BY <1>1, <1>2, <1>3, <1>5, BraceFeeds
<1>6. CASE Current # "l_brace"
  <2>1. This' = a
    BY <1>1, <1>6, GoesTo
  <2> QED
    BY <1>1, <1>2, <1>3, <1>4, <2>1, Steady
<1> QED
  BY <1>5, <1>6

LEMMA BodyFeeds ==
    ASSUME Typed, Windowed, Fed, Body
    PROVE  Windowed' /\ Fed'
<1>1. /\ Running("body") /\ window' = Look
      /\ IF Current = "l_brace" THEN \E b : Goto(<<Call("brace"), b>>)
         ELSE calls' = Tail(calls)
  BY DEF Body, Return
<1>2. Ready /\ Step1
  BY <1>1, BodyTypes, ReadyIs DEF Body, Step1
<1>3. "body" \notin Begins
  BY DEF Begins, Keywords, DeclLabels
<1>4. CASE Current = "l_brace"
  BY <1>1, <1>2, <1>3, <1>4, BraceFeeds
<1>5. CASE Current # "l_brace"
  BY <1>1, <1>2, <1>3, <1>5, SteadyPop
<1> QED
  BY <1>4, <1>5

LEMMA ElseFeeds ==
    ASSUME Typed, Windowed, Fed, Else
    PROVE  Windowed' /\ Fed'
<1> DEFINE a == Call("stmt")
<1>1. /\ Running("else")
      /\ IF Current = "else" THEN (\E b : Goto(<<a, b>>)) /\ window' = Take(window)
         ELSE calls' = Tail(calls) /\ window' = Look
  BY DEF Else, Return
<1>2. Ready /\ Step1
  BY <1>1, ElseTypes, ReadyIs DEF Else, Step1
<1>3. "else" \notin Begins /\ "stmt" \notin Keywords
  BY DEF Begins, Keywords, DeclLabels
<1>4. CASE Current = "else"
  <2>1. This' = a /\ a.at = "stmt"
    BY <1>1, <1>4, GoesTo, PlacesAre, Innermost
  <2>2. Current # "end"
    BY <1>4
  <2> QED
    BY <1>1, <1>2, <1>3, <2>1, <2>2, Step1Forward, GoFeeds DEF Ready
<1>5. CASE Current # "else"
  BY <1>1, <1>2, <1>3, <1>5, SteadyPop
<1> QED
  BY <1>4, <1>5

(* The windows of a declaration.                                           *)
LEMMA NameForward ==
    ASSUME Typed, Windowed, RoomAtEnd, NEW k \in DeclKinds, NameOf(k)
    PROVE  /\ Forward(window, AfterName) /\ Ate(AfterName) > Ate(window)
           /\ Kind(AfterName) # "end" => /\ Forward(window, Take(AfterName))
                                         /\ Ate(Take(AfterName)) > Ate(window)
           /\ k \in Begins
<1>1. input \in Seq(Token) /\ window \in WindowType /\ Running(k) /\ Kind(AfterKeyword) # "end"
      /\ k \in Keywords
  BY DEF Typed, NameOf, Keywords, DeclLabels, DeclKinds
<1>2. Current # "end" /\ k \in Begins
  BY <1>1, KeywordThere
<1>3. Forward(window, AfterKeyword) /\ Ate(AfterKeyword) > Ate(window)
  BY <1>2, OneStep DEF AfterKeyword
<1>4. Forward(window, AfterName) /\ Ate(AfterName) > Ate(window)
  <2>1. CASE NameMissing
    <3>1. /\ Forward(window, Peeked(AfterKeyword, n))
          /\ Ate(Peeked(AfterKeyword, n)) = Ate(AfterKeyword)
      BY <1>1, <1>3, ForwardPeek
    <3> QED
      BY <1>3, <2>1, <3>1 DEF AfterName
  <2>2. CASE ~NameMissing
    <3>1. Forward(window, Take(AfterKeyword)) /\ Ate(Take(AfterKeyword)) > Ate(window)
      BY <1>1, <1>3, ForwardTake
    <3> QED
      BY <2>2, <3>1 DEF AfterName
  <2> QED
    BY <2>1, <2>2
<1>5. Kind(AfterName) # "end" => /\ Forward(window, Take(AfterName))
                                 /\ Ate(Take(AfterName)) > Ate(window)
  BY <1>1, <1>4, ForwardTake
<1> QED
  BY <1>2, <1>4, <1>5

LEMMA VarFeeds ==
    ASSUME Typed, Windowed, Fed, VarWithInit \/ VarWithout
    PROVE  Windowed' /\ Fed'
<1>1. Keep /\ NameOf("var") /\ Running("var") /\ "var" \in DeclKinds
  BY DEF VarWithInit, VarWithout, NameOf, DeclKinds
<1>2. Ready
  BY <1>1, VarWithInitTypes, VarWithoutTypes, ReadyIs
<1>3. CASE VarWithInit
  <2>1. This' = Expr /\ Expr.at = "infix"
    BY <1>1, <1>3, GoesTo, PlacesAre, Innermost DEF Expr, VarWithInit
  <2>2. window' = Take(AfterName) /\ Kind(AfterName) # "end" /\ "infix" \notin Keywords
    BY <1>3 DEF VarWithInit, Keywords, DeclLabels
  <2>3. RoomAtEnd => Forward(window, window') /\ Ate(window') > Ate(window) /\ "var" \in Begins
    BY <1>1, <2>2, NameForward
  <2> QED
    BY <1>1, <1>2, <2>1, <2>2, <2>3, GoFeeds DEF Ready
<1>4. CASE VarWithout
  <2>1. calls' = Tail(calls) /\ window' = AfterName
    BY <1>4 DEF VarWithout, Return
  <2>2. RoomAtEnd => Forward(window, window') /\ Ate(window') > Ate(window)
    BY <1>1, <2>1, NameForward
  <2> QED
    BY <1>1, <1>2, <2>1, <2>2, PopFeeds DEF Ready
<1> QED
  BY <1>3, <1>4

LEMMA FunDeclFeeds ==
    ASSUME Typed, Windowed, Fed, FunDecl
    PROVE  Windowed' /\ Fed'
<1> DEFINE a == Owner("params", NewId)
<1>1. /\ Keep /\ NameOf("fun") /\ Running("fun") /\ "fun" \in DeclKinds
      /\ Goto(<<a>>) /\ window' = Take(AfterName) /\ Kind(AfterName) # "end"
  BY DEF FunDecl, NameOf, DeclKinds, Owner
<1>2. Ready
  BY <1>1, FunDeclTypes, ReadyIs
<1>3. a.at = "params"
  <2> DEFINE d == NewId
  <2> HIDE DEF d
  <2>1. [Call("params") EXCEPT !.node = d].at = "params"
    BY DEF Call
  <2> QED
    BY <2>1 DEF Owner, d
<1> HIDE DEF a
<1>4. This' = a
  BY <1>1, GoesTo
<1>5. "params" \notin Begins \cup {"item"} /\ "params" \notin Keywords
  BY DEF Begins, Keywords, DeclLabels
<1>6. RoomAtEnd => Forward(window, window') /\ Ate(window') > Ate(window) /\ "fun" \in Begins
  BY <1>1, NameForward
<1> QED
  BY <1>1, <1>2, <1>3, <1>4, <1>5, <1>6, GoFeeds DEF Ready

LEMMA ObjDeclFeeds ==
    ASSUME Typed, Windowed, Fed, ObjDecl
    PROVE  Windowed' /\ Fed'
<1> DEFINE a == Call("brace")
<1>1. /\ Keep /\ NameOf("obj") /\ Running("obj") /\ "obj" \in DeclKinds
      /\ window' = AfterName
      /\ IF Kind(AfterName) = "l_brace" THEN \E b : Goto(<<a, b>>) ELSE calls' = Tail(calls)
  BY DEF ObjDecl, NameOf, DeclKinds, Return
<1>2. Ready
  BY <1>1, ObjDeclTypes, ReadyIs
<1>3. RoomAtEnd => Forward(window, window') /\ Ate(window') > Ate(window) /\ "obj" \in Begins
  BY <1>1, NameForward
<1>4. CASE Kind(AfterName) = "l_brace"
  <2>1. This' = a /\ a.at = "brace"
    BY <1>1, <1>4, GoesTo, PlacesAre, Innermost
  <2>2. Kind(window') # "end"
    BY <1>1, <1>4
  <2> QED
    BY <1>1, <1>2, <1>3, <2>1, <2>2, GoFeeds DEF Ready
<1>5. CASE Kind(AfterName) # "l_brace"
  BY <1>1, <1>2, <1>3, <1>5, PopFeeds DEF Ready
<1> QED
  BY <1>4, <1>5

LEMMA ParamFeeds ==
    ASSUME Typed, Windowed, Fed, Param, ~Overflow
    PROVE  Windowed' /\ Fed'
<1> DEFINE named == Current = "name"
           rest  == IF named THEN Take(window) ELSE Look
           token == IF named THEN TokenAt(window, n) ELSE 0
           s     == Append(This.list, token)
           a     == Listed(This, "params", s)
<1>1. /\ Running("param") /\ Keep /\ Goto(<<a>>)
      /\ window' = IF Kind(rest) = "comma" THEN Take(rest) ELSE Peeked(rest, n)
  BY DEF Param, Listed
<1>2. Ready
  BY <1>1, ParamTypes, ReadyIs
<1>3. RoomAtEnd => Forward(window, window')
  <2> SUFFICES ASSUME RoomAtEnd PROVE Forward(window, window')
    OBVIOUS
  <2>1. Forward(window, rest)
    BY OneStep
  <2> HIDE DEF rest
  <2>2. input \in Seq(Token)
    BY DEF Typed
  <2>3. Kind(rest) = "comma" => Forward(window, Take(rest))
    BY <2>1, <2>2, ForwardTake
  <2>4. Forward(window, Peeked(rest, n))
    BY <2>1, <2>2, ForwardPeek
  <2> QED
    BY <1>1, <2>3, <2>4
<1> HIDE DEF s
<1>4. a.at = "params"
  BY <1>1, ListedAt, Innermost
<1> HIDE DEF a
<1>5. This' = a
  BY <1>1, GoesTo
<1>6. {"param", "params"} \cap (Begins \cup Keywords \cup {"item"}) = {}
  BY DEF Begins, Keywords, DeclLabels
<1> QED
  BY <1>1, <1>2, <1>3, <1>4, <1>5, <1>6, GoFeeds DEF Ready

LEMMA CloseParamsFeeds ==
    ASSUME Typed, Windowed, Fed, CloseParams
    PROVE  Windowed' /\ Fed'
<1> DEFINE rest == IF Current = "r_paren" THEN Take(window) ELSE Look
           a    == Call("brace")
<1>1. /\ Running("params") /\ Keep /\ window' = Peeked(rest, n)
      /\ Current \in {"end", "r_paren"}
      /\ IF Kind(rest) = "l_brace" THEN \E b : Goto(<<a, b>>) ELSE calls' = Tail(calls)
  BY DEF CloseParams, Return
<1>2. Ready
  BY <1>1, CloseParamsTypes, ReadyIs
<1>3. input \in Seq(Token) /\ window \in WindowType
  BY DEF Typed
<1>4. RoomAtEnd => Forward(window, rest)
  BY OneStep
<1>5. RoomAtEnd => Forward(window, window') /\ Kind(window') = Kind(rest)
  <2> HIDE DEF rest
  <2> QED
    BY <1>1, <1>3, <1>4, ForwardPeek, PeekOK DEF Forward
<1>6. "params" \notin Begins
  BY DEF Begins, Keywords, DeclLabels
<1>7. CASE Kind(rest) = "l_brace"
  <2>1. This' = a /\ a.at = "brace"
    BY <1>1, <1>7, GoesTo, PlacesAre, Innermost
  <2>2. ASSUME RoomAtEnd PROVE Current # "end"
    <3>1. Kind(Look) = Current
      BY <1>3, <2>2, PeekOK DEF Look, Current, Windowed
    <3> QED
      BY <1>1, <1>7, <3>1
  <2>3. "brace" # "item"
    OBVIOUS
  <2> QED
    BY <1>1, <1>2, <1>5, <1>6, <1>7, <2>1, <2>2, GoFeeds DEF Ready
<1>8. CASE Kind(rest) # "l_brace"
  BY <1>1, <1>2, <1>5, <1>6, <1>8, PopFeeds DEF Ready
<1> QED
  BY <1>7, <1>8

LEMMA MemberFeeds ==
    ASSUME Typed, Windowed, Fed, Member
    PROVE  Windowed' /\ Fed'
<1> DEFINE rest == Take(window)
<1>1. /\ Running("postfix") /\ Keep /\ Current = "dot"
      /\ IF Kind(rest) = "name" THEN window' = Take(rest) /\ calls' = calls
         ELSE window' = Peeked(rest, n) /\ calls' = Tail(calls)
  BY DEF Member, Return
<1>2. Ready
  BY <1>1, MemberTypes, ReadyIs
<1>3. input \in Seq(Token)
  BY DEF Typed
<1>4. RoomAtEnd => Forward(window, rest)
  BY <1>1, OneStep
<1>5. RoomAtEnd => Forward(window, window')
  <2> HIDE DEF rest
  <2> QED
    BY <1>1, <1>3, <1>4, ForwardPeek, ForwardTake
<1>6. "postfix" \notin Begins \cup Keywords \cup {"item"}
  BY DEF Begins, Keywords, DeclLabels
<1>7. CASE Kind(rest) = "name"
  <2>1. This' = This /\ This.at = "postfix"
    BY <1>1, <1>7, Innermost DEF This
  <2> QED
    BY <1>1, <1>2, <1>5, <1>6, <2>1, GoFeeds DEF Ready
<1>8. CASE Kind(rest) # "name"
  BY <1>1, <1>2, <1>5, <1>6, <1>8, PopFeeds DEF Ready
<1> QED
  BY <1>7, <1>8

(* When the declarations are gathered no statement waits.                  *)
LEMMA GatherFeeds ==
    ASSUME Typed, Scoped, Windowed, Fed, GatherStmt \/ WrapRun \/ GatherDecl
    PROVE  Windowed' /\ Fed'
<1>1. /\ Typed' /\ reported' = reported /\ Len(calls') = 2
      /\ calls'[1].at = "gather" /\ calls'[2].at = "run"
  BY GatherStmtKeeps, WrapRunKeeps, GatherDeclKeeps
<1>2. input' = input /\ window' = window
  BY DEF GatherStmt, WrapRun, GatherDecl, Keep
<1>3. Running("gather")
  BY DEF GatherStmt, WrapRun, GatherDecl
<1>4. calls' \in Seq(CallType)
  BY <1>1 DEF Typed, CallsOK
<1>5. DOMAIN calls' = {1, 2}
  <2>1. DOMAIN calls' = 1 .. 2
    BY <1>1, <1>4, LenProperties
  <2> QED
    BY <2>1
<1>6. Waits
  BY <1>1, <1>5 DEF Waits
<1>7. This'.at = "gather"
  <2>1. calls' # <<>>
    BY <1>5
  <2> QED
    BY <1>1, <1>4, <2>1, Replaced DEF This
<1>8. Ready /\ Step1
  BY <1>1, <1>2, <1>6 DEF Ready, Step1
<1>9. "gather" \notin Begins \cup {"item"}
  BY DEF Begins, Keywords, DeclLabels
<1> QED
  BY <1>3, <1>7, <1>8, <1>9, Steady

LEMMA FinishFeeds ==
    ASSUME Typed, Windowed, Fed, Finish
    PROVE  Windowed' /\ Fed'
<1>1. Typed'
  BY FinishKeeps
<1>2. Running("gather") /\ calls' = <<>> /\ UNCHANGED <<input, window, reported>>
  BY DEF Finish
<1>3. Waits
  BY <1>2 DEF Waits
<1>4. calls # <<>>
  BY <1>2, Innermost
<1>5. RoomAtEnd => Forward(window, window')
  BY <1>2, OneStep
<1> QED
  BY <1>1, <1>2, <1>3, <1>4, <1>5, Feeds

(* A step that stops leaves everything.                                    *)
LEMMA StopFeeds ==
    ASSUME Typed, Windowed, Fed, NEW how \in {"abort", "undefined"}, Stop(how)
    PROVE  Windowed' /\ Fed'
<1>1. UNCHANGED <<input, window, calls, reported>>
  BY DEF Stop
<1> QED
  BY <1>1 DEF Windowed, Fed, RoomAtEnd, WindowOK, PastEnd, Ate, Eaten, This, Current, Kind,
              n

LEMMA StopScoped ==
    ASSUME Typed, Scoped, NEW how \in {"abort", "undefined"}, Stop(how)
    PROVE  Scoped'
  BY DEF Stop, Scoped

-----------------------------------------------------------------------------
(* The levels of infix operators.                                          *)

LEMMA LevelledNext ==
    ASSUME UNCHANGED input
    PROVE  Levelled' <=> LevelledAt(calls', nodes', ret', reported', Kind(window'))
<1>1. n' = n /\ Current' = Kind(window')
  BY KindNext
<1> QED
  BY <1>1 DEF Levelled, LevelledAt, Above, BinaryOK, LeftOK, ReturnOK, LevelIn, LevelAt

(* Unless there is an error, the nodes that were there keep their levels.  *)
LEMMA LevelsStay ==
    ASSUME NEW ns, NEW ns2, Extends(ns, ns2), NEW id \in 1 .. Len(ns),
           Len(ns) \in Nat, \A d \in 1 .. Len(ns2) : ns2[d].kind # "error"
    PROVE  ns2[id].kind = ns[id].kind /\ LevelIn(ns2, id) = LevelIn(ns, id)
<1>1. Len(ns2) \in Nat /\ Len(ns2) >= Len(ns)
  BY LenProperties DEF Extends
<1>2. ns2[id].kind = ns[id].kind
  BY <1>1 DEF Extends
<1> QED
  BY <1>2 DEF Extends, LevelIn

(* What a step that adds no infix operation does to the nodes.             *)
LEMMA NodesLevelled ==
    ASSUME Typed, Typed', Levelled, Extends(nodes, nodes'),
           PlainNodes(nodes, nodes', reported'), reported => reported'
    PROVE  /\ \A id \in DOMAIN nodes' : nodes'[id].kind = "error" => reported'
           /\ ~reported' =>
                /\ \A id \in DOMAIN nodes' : BinaryOK(nodes', id)
                /\ \A id \in 1 .. Len(nodes) : /\ nodes'[id].kind = nodes[id].kind
                                               /\ LevelIn(nodes', id) = LevelIn(nodes, id)
                /\ \A c : CallOK(input, c, nodes) /\ LeftOK(c, nodes) => LeftOK(c, nodes')
<1>1. /\ nodes \in Seq(NodeType(Len(nodes))) /\ nodes' \in Seq(NodeType(Len(nodes')))
      /\ DOMAIN nodes = 1 .. Len(nodes) /\ DOMAIN nodes' = 1 .. Len(nodes')
      /\ Len(nodes) \in Nat /\ Len(nodes') \in Nat /\ Len(nodes') >= Len(nodes)
  BY LenProperties DEF Extends, Typed
<1>2. \A id \in DOMAIN nodes' : nodes'[id].kind = "error" => reported'
  <2>1. \A id \in DOMAIN nodes : nodes[id].kind = "error" => reported
    BY DEF Levelled, LevelledAt
  <2> QED
    BY <1>1, <2>1 DEF PlainNodes
<1> SUFFICES ASSUME ~reported'
             PROVE  /\ \A id \in DOMAIN nodes' : BinaryOK(nodes', id)
                    /\ \A id \in 1 .. Len(nodes) : /\ nodes'[id].kind = nodes[id].kind
                                                   /\ LevelIn(nodes', id) = LevelIn(nodes, id)
                    /\ \A c : CallOK(input, c, nodes) /\ LeftOK(c, nodes) => LeftOK(c, nodes')
  BY <1>2
<1>3. \A id \in 1 .. Len(nodes) : /\ nodes'[id].kind = nodes[id].kind
                                  /\ LevelIn(nodes', id) = LevelIn(nodes, id)
  BY <1>1, <1>2, LevelsStay
<1>4. ASSUME NEW id \in DOMAIN nodes', nodes'[id].kind = "binary"
      PROVE  BinaryOK(nodes', id)
  <2>1. id \in 1 .. Len(nodes)
    BY <1>1, <1>4 DEF PlainNodes
  <2>2. nodes[id].kind = "binary" /\ nodes'[id].kids = nodes[id].kids
        /\ nodes'[id].toks = nodes[id].toks
    BY <1>3, <1>4, <2>1 DEF Extends
  <2>3. BinaryOK(nodes, id)
    BY <1>1, <2>1 DEF Levelled, LevelledAt
  <2>4. nodes[id].kids \in Seq(1 .. Len(nodes)) /\ Len(nodes[id].kids) = 2
    BY <1>1, <2>1, <2>2, <2>3, NodeFields DEF BinaryOK
  <2>5. nodes[id].kids[1] \in 1 .. Len(nodes) /\ nodes[id].kids[2] \in 1 .. Len(nodes)
    BY <2>4
  <2>6. /\ LevelIn(nodes', nodes[id].kids[1]) = LevelIn(nodes, nodes[id].kids[1])
        /\ LevelIn(nodes', nodes[id].kids[2]) = LevelIn(nodes, nodes[id].kids[2])
        /\ LevelIn(nodes', id) = LevelIn(nodes, id)
    BY <1>3, <2>1, <2>5
  <2> QED
    BY <2>2, <2>3, <2>6 DEF BinaryOK
<1>5. \A id \in DOMAIN nodes' : BinaryOK(nodes', id)
  BY <1>4 DEF BinaryOK
<1>6. ASSUME NEW c, CallOK(input, c, nodes), LeftOK(c, nodes) PROVE LeftOK(c, nodes')
  <2>1. CASE c.at # "rhs"
    BY <2>1 DEF LeftOK
  <2>2. CASE c.at = "rhs"
    <3>1. c.list[1] \in 1 .. Len(nodes)
      BY <1>6, <2>2 DEF CallOK
    <3> QED
      BY <1>3, <1>6, <2>2, <3>1 DEF LeftOK
  <2> QED
    BY <2>1, <2>2
<1> QED
  BY <1>3, <1>5, <1>6

(* A call that goes on as another one, for the calls below it.             *)
SameClass(c, d) ==
    /\ c.at \in Operands => d.at \in Operands
    /\ c.at \in Primaries => d.at \in Primaries
    /\ c.at \in Infixes => d.at \in Infixes /\ d.level = c.level

LEMMA AboveStays ==
    ASSUME NEW c, NEW d, NEW b, Above(c, b), SameClass(c, d)
    PROVE  Above(d, b)
<1>1. CASE b.at = "lhs"
  BY <1>1 DEF Above, SameClass
<1>2. CASE b.at = "postfix"
  BY <1>2 DEF Above, SameClass
<1>3. CASE b.at = "rhs"
  <2>1. CASE LevelAt(b.list[2]) = Shift
    BY <1>3, <2>1 DEF Above, SameClass
  <2>2. CASE LevelAt(b.list[2]) # Shift
    BY <1>3, <2>2 DEF Above, SameClass
  <2> QED
    BY <2>1, <2>2
<1>4. CASE b.at \notin {"lhs", "postfix", "rhs"}
  BY <1>4 DEF Above
<1> QED
  BY <1>1, <1>2, <1>3, <1>4

(* What a step has to show of the calls it leaves.                         *)
LevelStep ==
    /\ Typed /\ Typed' /\ Levelled /\ UNCHANGED input
    /\ Extends(nodes, nodes') /\ PlainNodes(nodes, nodes', reported')
    /\ reported => reported'

LEMMA LevelsKept ==
    ASSUME LevelStep,
           \A i \in DOMAIN calls' : i + 1 \in DOMAIN calls' => Above(calls'[i], calls'[i + 1]),
           ~reported' => /\ \A i \in DOMAIN calls' : LeftOK(calls'[i], nodes')
                         /\ calls' # <<>> =>
                              ReturnOK(calls'[1], nodes', ret', Kind(window'))
    PROVE  Levelled'
<1>1. /\ \A id \in DOMAIN nodes' : nodes'[id].kind = "error" => reported'
      /\ ~reported' => \A id \in DOMAIN nodes' : BinaryOK(nodes', id)
  BY NodesLevelled DEF LevelStep
<1> DEFINE k == Kind(window')
<1> HIDE DEF k
<1>2. LevelledAt(calls', nodes', ret', reported', k)
  BY <1>1 DEF LevelledAt, k
<1> QED
  BY <1>2, LevelledNext DEF LevelStep, k

(* The calls that were there.                                              *)
LEMMA LeftsKept ==
    ASSUME LevelStep, ~reported', NEW i \in DOMAIN calls
    PROVE  LeftOK(calls[i], nodes')
<1>1. CallOK(input, calls[i], nodes)
  BY DEF LevelStep, Typed, CallsOK
<1>2. LeftOK(calls[i], nodes)
  BY DEF LevelStep, Levelled, LevelledAt
<1> QED
  BY <1>1, <1>2, NodesLevelled DEF LevelStep

LEMMA LevelSame ==
    ASSUME LevelStep, NEW l, Running(l), calls' = calls,
           ~reported' => ReturnOK(This, nodes', ret', Kind(window'))
    PROVE  Levelled'
<1>1. This = calls[1]
  BY Innermost DEF LevelStep
<1>2. \A i \in DOMAIN calls : i + 1 \in DOMAIN calls => Above(calls[i], calls[i + 1])
  BY DEF LevelStep, Levelled, LevelledAt
<1>3. ~reported' => \A i \in DOMAIN calls : LeftOK(calls[i], nodes')
  BY LeftsKept
<1> QED
  BY <1>1, <1>2, <1>3, LevelsKept

(* A return to the call below, which is the second one.                    *)
LEMMA LevelPop ==
    ASSUME LevelStep, NEW l, Running(l), calls' = Tail(calls),
           ~reported' /\ Len(calls) > 1 /\ Above(This, calls[2]) /\ LeftOK(calls[2], nodes')
                      /\ CallOK(input, calls[2], nodes)
             => ReturnOK(calls[2], nodes', ret', Kind(window'))
    PROVE  Levelled'
<1>1. /\ calls \in Seq(CallType) /\ calls # <<>> /\ This = calls[1]
      /\ Len(calls) \in Nat /\ Len(calls) >= 1 /\ DOMAIN calls = 1 .. Len(calls)
  BY Innermost DEF LevelStep
<1>2. /\ calls' \in Seq(CallType) /\ Len(calls') = Len(calls) - 1
      /\ \A i \in 1 .. Len(calls) - 1 : calls'[i] = calls[i + 1]
  BY <1>1, Replaced
<1>3. DOMAIN calls' = 1 .. Len(calls) - 1
  BY <1>2, LenProperties
<1>4. \A i \in DOMAIN calls : i + 1 \in DOMAIN calls => Above(calls[i], calls[i + 1])
  BY DEF LevelStep, Levelled, LevelledAt
<1>5. ASSUME NEW i \in DOMAIN calls', i + 1 \in DOMAIN calls'
      PROVE  Above(calls'[i], calls'[i + 1])
  <2> DEFINE j == i + 1
  <2>1. i \in 1 .. Len(calls) - 1 /\ j \in 1 .. Len(calls) - 1 /\ j + 1 \in 1 .. Len(calls)
        /\ j \in 1 .. Len(calls)
    BY <1>1, <1>3, <1>5
  <2> HIDE DEF j
  <2>2. calls'[i] = calls[j] /\ calls'[j] = calls[j + 1]
    BY <1>2, <2>1 DEF j
  <2>3. Above(calls[j], calls[j + 1])
    BY <1>1, <1>4, <2>1
  <2> QED
    BY <2>2, <2>3 DEF j
<1>6. ASSUME ~reported', NEW i \in DOMAIN calls' PROVE LeftOK(calls'[i], nodes')
  <2>1. calls'[i] = calls[i + 1] /\ i + 1 \in DOMAIN calls
    BY <1>1, <1>2, <1>3
  <2> QED
    BY <1>6, <2>1, LeftsKept
<1>7. ASSUME ~reported', calls' # <<>> PROVE ReturnOK(calls'[1], nodes', ret', Kind(window'))
  <2>1. Len(calls) > 1
    BY <1>1, <1>2, <1>7, EmptySeq
  <2>2. 1 \in DOMAIN calls /\ 2 \in DOMAIN calls /\ calls'[1] = calls[2]
    BY <1>1, <1>2, <2>1
  <2>3. Above(This, calls[2])
    <3> DEFINE o == 1
    <3>1. o \in DOMAIN calls /\ o + 1 \in DOMAIN calls /\ o + 1 = 2 /\ This = calls[o]
      BY <1>1, <2>2
    <3> HIDE DEF o
    <3> QED
      BY <1>4, <3>1
  <2>4. LeftOK(calls[2], nodes')
    BY <1>7, <2>2, LeftsKept
  <2>5. CallOK(input, calls[2], nodes)
    BY <2>2 DEF LevelStep, Typed, CallsOK
  <2> QED
    BY <1>7, <2>1, <2>2, <2>3, <2>4, <2>5
<1> QED
  BY <1>5, <1>6, <1>7, LevelsKept

LEMMA LevelPut ==
    ASSUME LevelStep, NEW l, Running(l), NEW a \in CallType, Puts(a), SameClass(This, a),
           ~reported' => LeftOK(a, nodes') /\ ReturnOK(a, nodes', ret', Kind(window'))
    PROVE  Levelled'
<1>1. /\ calls \in Seq(CallType) /\ calls # <<>> /\ This = calls[1]
      /\ Len(calls) \in Nat /\ Len(calls) >= 1 /\ DOMAIN calls = 1 .. Len(calls)
  BY Innermost DEF LevelStep
<1>2. /\ calls' \in Seq(CallType) /\ Len(calls') = Len(calls) /\ calls'[1] = a
      /\ \A i \in 2 .. Len(calls) : calls'[i] = calls[i]
  BY <1>1, Replaced DEF Puts
<1>3. DOMAIN calls' = 1 .. Len(calls)
  BY <1>2, LenProperties
<1>4. \A i \in DOMAIN calls : i + 1 \in DOMAIN calls => Above(calls[i], calls[i + 1])
  BY DEF LevelStep, Levelled, LevelledAt
<1>5. ASSUME NEW i \in DOMAIN calls', i + 1 \in DOMAIN calls'
      PROVE  Above(calls'[i], calls'[i + 1])
  <2> DEFINE j == i + 1
  <2>1. i \in 1 .. Len(calls) /\ j \in 2 .. Len(calls)
    BY <1>1, <1>3, <1>5
  <2>2. Above(calls[i], calls[j])
    BY <1>1, <1>4, <2>1
  <2>5. calls'[j] = calls[j]
    BY <1>2, <2>1
  <2>3. CASE i = 1
    BY <1>1, <1>2, <2>2, <2>3, <2>5, AboveStays
  <2>4. CASE i # 1
    BY <1>2, <2>1, <2>2, <2>4, <2>5
  <2> QED
    BY <2>3, <2>4
<1>6. ASSUME ~reported', NEW i \in DOMAIN calls' PROVE LeftOK(calls'[i], nodes')
  <2>1. CASE i = 1
    BY <1>2, <1>6, <2>1
  <2>2. CASE i # 1
    <3>1. i \in DOMAIN calls /\ calls'[i] = calls[i]
      BY <1>1, <1>2, <1>3, <2>2
    <3> QED
      BY <1>6, <3>1, LeftsKept
  <2> QED
    BY <2>1, <2>2
<1> QED
  BY <1>2, <1>5, <1>6, LevelsKept

LEMMA LevelCall ==
    ASSUME LevelStep, NEW l, Running(l), NEW a \in CallType, NEW b \in CallType, Calls(a, b),
           SameClass(This, b), Above(a, b),
           ~reported' => /\ LeftOK(a, nodes') /\ LeftOK(b, nodes')
                         /\ ReturnOK(a, nodes', ret', Kind(window'))
    PROVE  Levelled'
<1>1. /\ calls \in Seq(CallType) /\ calls # <<>> /\ This = calls[1]
      /\ Len(calls) \in Nat /\ Len(calls) >= 1 /\ DOMAIN calls = 1 .. Len(calls)
  BY Innermost DEF LevelStep
<1>2. /\ calls' \in Seq(CallType) /\ Len(calls') = Len(calls) + 1
      /\ calls'[1] = a /\ calls'[2] = b
      /\ \A i \in 3 .. Len(calls) + 1 : calls'[i] = calls[i - 1]
  BY <1>1, Replaced DEF Calls
<1>3. DOMAIN calls' = 1 .. Len(calls) + 1
  BY <1>2, LenProperties
<1>4. \A i \in DOMAIN calls : i + 1 \in DOMAIN calls => Above(calls[i], calls[i + 1])
  BY DEF LevelStep, Levelled, LevelledAt
<1>5. ASSUME NEW i \in DOMAIN calls', i + 1 \in DOMAIN calls'
      PROVE  Above(calls'[i], calls'[i + 1])
  <2> DEFINE j == i + 1
             h == i - 1
  <2>1. CASE i = 1
    BY <1>2, <2>1
  <2>2. CASE i # 1
    <3>1. h \in 1 .. Len(calls) /\ i \in 2 .. Len(calls) /\ j \in 3 .. Len(calls) + 1
      BY <1>1, <1>3, <1>5, <2>2
    <3>2. Above(calls[h], calls[i])
      <4>1. h \in DOMAIN calls /\ h + 1 \in DOMAIN calls /\ h + 1 = i
        BY <1>1, <3>1
      <4> HIDE DEF h
      <4> QED
        BY <1>4, <4>1
    <3>5. calls'[j] = calls[i]
      BY <1>2, <3>1
    <3>3. CASE i = 2
      BY <1>1, <1>2, <3>2, <3>3, <3>5, AboveStays
    <3>4. CASE i # 2
      <4>1. calls'[i] = calls[h]
        BY <1>2, <3>1, <3>4
      <4> QED
        BY <3>2, <3>5, <4>1
    <3> QED
      BY <3>3, <3>4
  <2> QED
    BY <2>1, <2>2
<1>6. ASSUME ~reported', NEW i \in DOMAIN calls' PROVE LeftOK(calls'[i], nodes')
  <2>1. CASE i \in {1, 2}
    BY <1>2, <1>6, <2>1
  <2>2. CASE i \notin {1, 2}
    <3> DEFINE h == i - 1
    <3>1. h \in DOMAIN calls /\ calls'[i] = calls[h]
      BY <1>1, <1>2, <1>3, <2>2
    <3> QED
      BY <1>6, <3>1, LeftsKept
  <2> QED
    BY <2>1, <2>2
<1> QED
  BY <1>2, <1>5, <1>6, LevelsKept

(* Where it relies on nothing.                                             *)
LEMMA ReturnsFreely ==
    ASSUME NEW c, c.at \notin {"lhs", "postfix", "operators", "rhs"}, NEW ns, NEW r, NEW k
    PROVE  ReturnOK(c, ns, r, k) /\ LeftOK(c, ns)
  BY DEF ReturnOK, LeftOK

(* Outside of expressions nothing is relied on.                            *)
LEMMA PlainLevelled ==
    ASSUME LevelStep, NEW l, Running(l), CallsPlain
    PROVE  Levelled'
<1>1. /\ calls \in Seq(CallType) /\ calls # <<>> /\ This = calls[1]
      /\ Len(calls) \in Nat /\ DOMAIN calls = 1 .. Len(calls)
      /\ This.at \notin ExprLabels
  BY Innermost DEF LevelStep, CallsPlain
<1>2. /\ {"lhs", "postfix", "operators", "rhs"} \subseteq ExprLabels
      /\ Operands \subseteq ExprLabels /\ Primaries \subseteq ExprLabels
      /\ Infixes \subseteq ExprLabels
  BY DEF ExprLabels, Operands, Primaries, Infixes
<1>3. CASE calls' = calls
  BY <1>1, <1>2, <1>3, ReturnsFreely, LevelSame
<1>4. CASE Pops
  <2>1. ASSUME Len(calls) > 1, Above(This, calls[2])
        PROVE  ReturnOK(calls[2], nodes', ret', Kind(window'))
    <3>1. 2 \in DOMAIN calls
      BY <1>1, <2>1
    <3>2. calls[2].at \in Waiting
      BY <3>1 DEF LevelStep, Typed, CallsOK
    <3>3. calls[2].at \notin {"lhs", "postfix", "rhs"}
      BY <1>1, <1>2, <2>1 DEF Above
    <3>4. calls[2].at # "operators"
      BY <3>2 DEF Waiting
    <3> QED
      BY <3>3, <3>4, ReturnsFreely
  <2>2. calls' = Tail(calls)
    BY <1>4 DEF Pops
  <2> QED
    BY <2>1, <2>2, LevelPop
<1>5. ASSUME NEW a \in CallType, Puts(a), a.at \notin ExprLabels PROVE Levelled'
  <2>1. SameClass(This, a)
    BY <1>1, <1>2 DEF SameClass
  <2>2. LeftOK(a, nodes') /\ ReturnOK(a, nodes', ret', Kind(window'))
    BY <1>2, <1>5, ReturnsFreely
  <2> QED
    BY <1>5, <2>1, <2>2, LevelPut
<1>6. ASSUME NEW a \in CallType, NEW b \in CallType, Calls(a, b), b.at \notin ExprLabels,
             a.at \notin {"lhs", "postfix", "operators", "rhs"}
      PROVE  Levelled'
  <2>1. SameClass(This, b) /\ Above(a, b)
    BY <1>1, <1>2, <1>6 DEF SameClass, Above
  <2>2. LeftOK(b, nodes')
    BY <1>2, <1>6, ReturnsFreely
  <2>3. LeftOK(a, nodes') /\ ReturnOK(a, nodes', ret', Kind(window'))
    BY <1>6, ReturnsFreely
  <2> QED
    BY <1>6, <2>1, <2>2, <2>3, LevelCall
<1> QED
  BY <1>3, <1>4, <1>5, <1>6 DEF CallsPlain

(* The end of the source.                                                  *)
LEMMA GatherLevelled ==
    ASSUME LevelStep, Len(calls') = 2, calls'[1].at = "gather", calls'[2].at = "run"
    PROVE  Levelled'
<1>1. DOMAIN calls' = 1 .. 2
  BY LenProperties DEF LevelStep, Typed, CallsOK
<1>2. \A i \in DOMAIN calls' : calls'[i].at \in {"gather", "run"}
  BY <1>1
<1>3. ASSUME NEW i \in DOMAIN calls', i + 1 \in DOMAIN calls'
      PROVE  Above(calls'[i], calls'[i + 1])
  BY <1>2, <1>3 DEF Above
<1>4. \A i \in DOMAIN calls' : LeftOK(calls'[i], nodes')
  BY <1>2, ReturnsFreely
<1>5. ReturnOK(calls'[1], nodes', ret', Kind(window'))
  BY ReturnsFreely
<1> QED
  BY <1>3, <1>4, <1>5, LevelsKept

LEMMA FinishLevelled ==
    ASSUME LevelStep, calls' = <<>>
    PROVE  Levelled'
<1>1. DOMAIN calls' = {}
  OBVIOUS
<1> QED
  BY <1>1, LevelsKept

LEMMA StopLevelled ==
    ASSUME Levelled, UNCHANGED <<input, window, calls, ret, nodes, reported>>
    PROVE  Levelled'
<1>1. n' = n /\ Current' = Current
  BY KindNext DEF Current
<1> QED
  BY <1>1 DEF Levelled, LevelledAt, Above, BinaryOK, LeftOK, ReturnOK, LevelIn, LevelAt

LEMMA LevelStepIs ==
    ASSUME Typed, Levelled, Typed', Changes, Keep
    PROVE  LevelStep
  BY DEF LevelStep, Changes, Keep

(* Peeking does not change the token that comes next.                      *)
LEMMA SamePeek ==
    ASSUME Typed, Windowed, ~reported, window' \in {window, Look}
    PROVE  Kind(window') = Current
<1>1. WindowOK(window) /\ window \in WindowType /\ input \in Seq(Token)
  BY DEF Windowed, RoomAtEnd, Typed
<1>2. Kind(Peeked(window, n)) = Kind(window)
  BY <1>1, PeekOK
<1> QED
  BY <1>2 DEF Current, Look

LEMMA SecondWaits ==
    ASSUME LevelStep, Len(calls) > 1
    PROVE  calls[2].at \in Waiting /\ calls[2].at # "operators"
<1>1. DOMAIN calls = 1 .. Len(calls) /\ Len(calls) \in Nat
  BY LenProperties DEF LevelStep, Typed, CallsOK
<1>2. 2 \in DOMAIN calls /\ 2 > 1
  BY <1>1
<1>3. calls[2].at \in Waiting
  BY <1>2 DEF LevelStep, Typed, CallsOK
<1> QED
  BY <1>3 DEF Waiting

(* No operator has a level above the highest.                              *)
LEMMA NoHigher == \A k : ~IsInfix(k, Shift + 1)
  BY DEF IsInfix, Level, Shift

(* Returning what is no infix operation, from an operand.                  *)
LEMMA OperandReturns ==
    ASSUME LevelStep, NEW l, l \in Operands \cup Primaries, Running(l), calls' = Tail(calls),
           ~reported' => nodes'[ret'].kind # "binary"
    PROVE  Levelled'
<1>1. This.at = l /\ l \notin Infixes
  BY Innermost DEF LevelStep, Operands, Primaries, Infixes
<1>2. ASSUME ~reported', Len(calls) > 1, Above(This, calls[2])
      PROVE  ReturnOK(calls[2], nodes', ret', Kind(window'))
  <2> DEFINE b == calls[2]
             k == Kind(window')
             id == ret'
             ns == nodes'
  <2>1. b.at # "operators" /\ Above(This, b) /\ ns[id].kind # "binary"
    BY <1>2, SecondWaits
  <2> HIDE DEF b, k, id, ns
  <2>2. ASSUME b.at = "rhs" PROVE LevelIn(ns, id) > LevelAt(b.list[2])
                                  /\ ~IsInfix(k, LevelAt(b.list[2]) + 1)
    <3>1. LevelAt(b.list[2]) = Shift
      BY <1>1, <2>1, <2>2 DEF Above
    <3>2. LevelIn(ns, id) = Shift + 1
      BY <2>1 DEF LevelIn
    <3> QED
      BY <3>1, <3>2, NoHigher DEF Shift
  <2>3. ReturnOK(b, ns, id, k)
    BY <2>1, <2>2 DEF ReturnOK
  <2> QED
    BY <2>3 DEF b, k, id, ns
<1> QED
  BY <1>2, LevelPop

LEMMA OperandReturnsLevelled ==
    ASSUME Typed, Levelled,
           Operand \/ Atom \/ NoExpr \/ ExprAtEnd \/ CloseParen \/ PostfixDone
    PROVE  Levelled'
<1>1. LevelStep
  <2>1. Typed' /\ Changes /\ Keep
    BY OperandTypes, AtomTypes, NoExprTypes, CloseParenTypes, PostfixDoneTypes
       DEF Operand, Atom, NoExpr, ExprAtEnd, CloseParen, PostfixDone
  <2> QED
    BY <2>1, LevelStepIs
<1>2. PICK l \in {"operand", "primary", "paren", "postfix"} : Running(l)
  BY DEF Operand, Atom, NoExpr, ExprAtEnd, CloseParen, PostfixDone
<1>3. calls' = Tail(calls)
  BY DEF Operand, Atom, NoExpr, ExprAtEnd, CloseParen, PostfixDone, Return
<1>4. l \in Operands \cup Primaries
  BY DEF Operands, Primaries
<1>5. ASSUME ~reported' PROVE nodes'[ret'].kind # "binary"
  <2>1. CASE Operand
    BY <2>1, OperandTypes
  <2>2. CASE Atom
    BY <2>2, AtomTypes DEF Atom
  <2>3. CASE NoExpr \/ ExprAtEnd
    BY <1>5, <2>3 DEF NoExpr, ExprAtEnd
  <2>4. CASE CloseParen
    BY <2>4, CloseParenTypes
  <2>5. CASE PostfixDone
    <3>1. Running("postfix") /\ nodes' = nodes /\ ret' = ret
      BY <2>5 DEF PostfixDone, Return
    <3>2. calls # <<>> /\ This.at = "postfix" /\ This = calls[1] /\ reported' = reported
      BY <2>5, <3>1, Innermost DEF PostfixDone
    <3>3. nodes[ret].kind # "binary"
      BY <1>5, <3>2 DEF Levelled, LevelledAt, ReturnOK
    <3> QED
      BY <3>1, <3>3
  <2> QED
    BY <2>1, <2>2, <2>3, <2>4, <2>5
<1> QED
  BY <1>1, <1>2, <1>3, <1>4, <1>5, OperandReturns

LEMMA MemberLevelled ==
    ASSUME Typed, Levelled, Member
    PROVE  Levelled'
<1>1. LevelStep /\ nodes'[ret'].kind # "binary"
  BY MemberTypes, LevelStepIs DEF Member
<1>2. Running("postfix")
  BY DEF Member
<1>3. CASE calls' = Tail(calls)
  BY <1>1, <1>2, <1>3, OperandReturns DEF Operands
<1>4. CASE calls' = calls
  <2>1. This.at = "postfix"
    BY <1>2, Innermost
  <2>2. ReturnOK(This, nodes', ret', Kind(window'))
    BY <1>1, <2>1 DEF ReturnOK
  <2> QED
    BY <1>1, <1>2, <1>4, <2>2, LevelSame
<1> QED
  BY <1>3, <1>4 DEF Member, Return

(* A call that goes on as another one, of which nothing is relied on.      *)
LEMMA OperandGoesOn ==
    ASSUME LevelStep, NEW l \in Operands, Running(l), NEW a \in CallType, Goto(<<a>>),
           a.at \in Operands, ~reported' => ReturnOK(a, nodes', ret', Kind(window'))
    PROVE  Levelled'
<1>1. This.at = l /\ Puts(a)
  BY Innermost DEF LevelStep, Goto, Puts
<1>2. SameClass(This, a) /\ a.at # "rhs"
  BY <1>1 DEF SameClass, Operands, Primaries, Infixes
<1>3. LeftOK(a, nodes')
  BY <1>2 DEF LeftOK
<1> QED
  BY <1>1, <1>2, <1>3, LevelPut

LEMMA OpenArgsLevelled ==
    ASSUME Typed, Levelled, OpenArgs
    PROVE  Levelled'
<1> DEFINE s == <<ret>>
           a == With("args", s)
<1>1. LevelStep /\ Running("postfix") /\ Goto(<<a>>) /\ UNCHANGED nodes
  BY OpenArgsTypes, LevelStepIs DEF OpenArgs, With
<1>2. a \in CallType /\ a.at = "args"
  <2>1. ret \in 1 .. Len(nodes) /\ Len(nodes) \in Nat /\ "postfix" \in Waiting
    BY <1>1, Innermost, ExprLabelsAre, ExprLabel
  <2>2. s \in Seq(Int) /\ s \in Seq(1 .. Len(nodes))
    BY <2>1
  <2> HIDE DEF s
  <2>3. "args" \in {"operand", "args"} /\ "args" # "operand"
    OBVIOUS
  <2>4. CallOK(input, a, nodes) /\ a.at = "args"
    BY <2>1, <2>2, <2>3, WithCall
  <2> QED
    BY <2>4 DEF CallOK
<1> HIDE DEF a
<1>3. ReturnOK(a, nodes', ret', Kind(window'))
  BY <1>2, ReturnsFreely
<1> QED
  BY <1>1, <1>2, <1>3, OperandGoesOn DEF Operands

LEMMA NextArgLevelled ==
    ASSUME Typed, Levelled, NextArg
    PROVE  Levelled'
<1> DEFINE a == At(This, "item")
<1>1. LevelStep /\ Running("args") /\ Goto(<<a>>)
  BY NextArgTypes, LevelStepIs DEF NextArg, At
<1>2. a \in CallType /\ a.at = "item"
  <2>1. /\ "item" \in Labels /\ "item" \notin {"rhs", "operators", "operand"}
        /\ "item" \notin Owners \cup TokenLists /\ "args" \in NodeLists
    BY ExprLabel, ExprLabelsAre
  <2>2. CallOK(input, At(This, "item"), nodes') /\ At(This, "item").at = "item"
    BY <1>1, <2>1, Relabelled DEF LevelStep
  <2> QED
    BY <2>2 DEF CallOK
<1> HIDE DEF a
<1>3. ReturnOK(a, nodes', ret', Kind(window'))
  BY <1>2, ReturnsFreely
<1> QED
  BY <1>1, <1>2, <1>3, OperandGoesOn DEF Operands

LEMMA ArgParsedLevelled ==
    ASSUME Typed, Levelled, ArgParsed, ~Overflow
    PROVE  Levelled'
<1> DEFINE s == Append(This.list, ret)
           a == Listed(This, "args", s)
<1>1. LevelStep /\ Running("arg") /\ Goto(<<a>>) /\ UNCHANGED nodes
  BY ArgParsedTypes, LevelStepIs DEF ArgParsed, Listed
<1>2. a \in CallType /\ a.at = "args"
  <2>1. /\ ret \in 1 .. Len(nodes) /\ Len(nodes) \in Nat /\ This \in CallType
        /\ CallOK(input, This, nodes) /\ This.at = "arg"
    BY <1>1, Innermost, ExprLabelsAre, ExprLabel
  <2>2. This.list \in Seq(1 .. Len(nodes))
    BY <2>1, ExprLabelsAre, ExprLabel DEF CallOK
  <2>3. s \in Seq(1 .. Len(nodes))
    BY <2>1, <2>2, AppendProperties
  <2>4. s \in Seq(Int)
    BY <2>1, <2>3, IntSeq
  <2> HIDE DEF s
  <2>5. "args" \in Labels /\ "args" # "rhs" /\ "args" \notin Owners \cup TokenLists
        /\ "args" \notin {"operators", "operand"}
    BY ExprLabel, ExprLabelsAre
  <2>6. s \in Seq(1 .. Len(nodes'))
    BY <1>1, <2>3
  <2>7. CallOK(input, a, nodes') /\ a.at = "args"
    BY <1>1, <2>4, <2>5, <2>6, Relisted DEF LevelStep
  <2> QED
    BY <2>7 DEF CallOK
<1> HIDE DEF a
<1>3. ReturnOK(a, nodes', ret', Kind(window'))
  BY <1>2, ReturnsFreely
<1> QED
  BY <1>1, <1>2, <1>3, OperandGoesOn DEF Operands

LEMMA CloseArgsLevelled ==
    ASSUME Typed, Levelled, CloseArgs
    PROVE  Levelled'
<1> DEFINE a == Call("postfix")
<1>1. LevelStep /\ Running("args") /\ Goto(<<a>>) /\ nodes'[ret'].kind = "apply"
  BY CloseArgsTypes, LevelStepIs DEF CloseArgs
<1>2. a \in CallType /\ a.at = "postfix"
  <2>1. CallOK(input, a, nodes) /\ a.at = "postfix"
    BY <1>1, Innermost, PlainCall DEF LevelStep
  <2> QED
    BY <2>1 DEF CallOK
<1> HIDE DEF a
<1>3. ReturnOK(a, nodes', ret', Kind(window'))
  BY <1>1, <1>2 DEF ReturnOK
<1> QED
  BY <1>1, <1>2, <1>3, OperandGoesOn DEF Operands

LEMMA SkipCommaLevelled ==
    ASSUME Typed, Levelled, SkipComma
    PROVE  Levelled'
<1>1. LevelStep /\ calls' = calls
  BY SkipCommaTypes, LevelStepIs DEF SkipComma
<1>2. PICK l \in {"param", "item"} : Running(l)
  BY DEF SkipComma
<1>3. This.at = l
  BY <1>2, Innermost
<1>4. ReturnOK(This, nodes', ret', Kind(window'))
  BY <1>3, ReturnsFreely
<1> QED
  BY <1>1, <1>2, <1>4, LevelSame

(* A call of a function that begins, on behalf of one that waits.          *)
LEMMA BeginLevelled ==
    ASSUME LevelStep, NEW l, Running(l), NEW a \in CallType, NEW b \in CallType,
           Goto(<<a, b>>), a.at \in {"prefix", "primary", "infix"}, b.at # "rhs",
           SameClass(This, b), Above(a, b)
    PROVE  Levelled'
<1>1. Calls(a, b)
  BY Innermost DEF LevelStep, Goto, Calls
<1>2. a.at \notin {"lhs", "postfix", "operators", "rhs"}
  OBVIOUS
<1>3. LeftOK(a, nodes') /\ ReturnOK(a, nodes', ret', Kind(window'))
  BY <1>2, ReturnsFreely
<1>4. LeftOK(b, nodes')
  BY DEF LeftOK
<1> QED
  BY <1>1, <1>3, <1>4, LevelCall

LEMMA InfixLevelled ==
    ASSUME Typed, Levelled, Infix
    PROVE  Levelled'
<1> DEFINE a == Call("prefix")
           b == At(This, "lhs")
<1>1. LevelStep /\ Running("infix") /\ Goto(<<a, b>>)
  BY InfixTypes, LevelStepIs DEF Infix, At
<1>2. This.at = "infix" /\ Len(nodes) \in Nat
  BY <1>1, Innermost
<1>3. a \in CallType /\ a.at = "prefix"
  <2>1. "prefix" \in Begins
    BY ExprLabel, ExprLabelsAre
  <2>2. CallOK(input, a, nodes) /\ a.at = "prefix"
    BY <1>2, <2>1, Begin
  <2> QED
    BY <2>2 DEF CallOK
<1>4. b \in CallType /\ b.at = "lhs" /\ b.level = This.level
  <2>1. /\ "lhs" \in Labels /\ "lhs" \notin {"rhs", "operators", "operand"}
        /\ "lhs" \notin Owners \cup NodeLists \cup TokenLists
    BY ExprLabel, ExprLabelsAre
  <2>2. CallOK(input, b, nodes') /\ b.at = "lhs" /\ b.level = This.level
    BY <1>1, <2>1, Relabelled DEF LevelStep
  <2> QED
    BY <2>2 DEF CallOK
<1> HIDE DEF a, b
<1>5. SameClass(This, b) /\ Above(a, b)
  BY <1>2, <1>3, <1>4 DEF SameClass, Above, Operands, Primaries, Infixes
<1> QED
  BY <1>1, <1>3, <1>4, <1>5, BeginLevelled

LEMMA PrefixOperatorLevelled ==
    ASSUME Typed, Levelled, PrefixOperator
    PROVE  Levelled'
<1> DEFINE t == TokenAt(window, n)
           s == <<t>>
           b == With("operand", s)
<1>1. /\ LevelStep /\ Running("prefix") /\ Goto(<<Expr, b>>) /\ Current \in PrefixKinds
  BY PrefixOperatorTypes, LevelStepIs DEF PrefixOperator, With
<1>2. This.at = "prefix" /\ Len(nodes) \in Nat
  BY <1>1, Innermost
<1>3. Expr \in CallType /\ Expr.at = "infix"
  <2>1. CallOK(input, Expr, nodes) /\ Expr.at = "infix"
    BY <1>2, BeginExpr
  <2> QED
    BY <2>1 DEF CallOK
<1>4. b \in CallType /\ b.at = "operand"
  <2>1. Current # "end" /\ Current # "error"
    BY <1>1 DEF PrefixKinds
  <2>2. t \in 1 .. n /\ n \in Nat
    BY <2>1, KindIs, DeclWindows DEF Typed, Current
  <2>3. s \in Seq(Int) /\ s \in Seq(0 .. Len(input)) /\ Len(s) = 1
    BY <2>2 DEF n
  <2> HIDE DEF s
  <2>4. "operand" \in {"operand", "args"} /\ "operand" # "args"
    OBVIOUS
  <2>5. CallOK(input, b, nodes) /\ b.at = "operand"
    BY <1>2, <2>3, <2>4, WithCall
  <2> QED
    BY <2>5 DEF CallOK
<1> HIDE DEF b
<1>5. SameClass(This, b) /\ Above(Expr, b)
  BY <1>2, <1>3, <1>4 DEF SameClass, Above, Operands, Primaries, Infixes
<1> QED
  BY <1>1, <1>3, <1>4, <1>5, BeginLevelled

LEMMA NoPrefixLevelled ==
    ASSUME Typed, Levelled, NoPrefix
    PROVE  Levelled'
<1> DEFINE a == Call("primary")
           b == Call("postfix")
<1>1. LevelStep /\ Running("prefix") /\ Goto(<<a, b>>)
  BY NoPrefixTypes, LevelStepIs DEF NoPrefix
<1>2. This.at = "prefix" /\ Len(nodes) \in Nat
  BY <1>1, Innermost
<1>3. a \in CallType /\ a.at = "primary"
  <2>1. "primary" \in Begins
    BY ExprLabel, ExprLabelsAre
  <2>2. CallOK(input, a, nodes) /\ a.at = "primary"
    BY <1>2, <2>1, Begin
  <2> QED
    BY <2>2 DEF CallOK
<1>4. b \in CallType /\ b.at = "postfix"
  <2>1. CallOK(input, b, nodes) /\ b.at = "postfix"
    BY <1>2, PlainCall
  <2> QED
    BY <2>1 DEF CallOK
<1> HIDE DEF a, b
<1>5. SameClass(This, b) /\ Above(a, b)
  BY <1>2, <1>3, <1>4 DEF SameClass, Above, Operands, Primaries, Infixes
<1> QED
  BY <1>1, <1>3, <1>4, <1>5, BeginLevelled

LEMMA OpenParenLevelled ==
    ASSUME Typed, Levelled, OpenParen
    PROVE  Levelled'
<1> DEFINE b == Call("paren")
<1>1. LevelStep /\ Running("primary") /\ Goto(<<Expr, b>>)
  BY OpenParenTypes, LevelStepIs DEF OpenParen
<1>2. This.at = "primary" /\ Len(nodes) \in Nat
  BY <1>1, Innermost
<1>3. Expr \in CallType /\ Expr.at = "infix"
  <2>1. CallOK(input, Expr, nodes) /\ Expr.at = "infix"
    BY <1>2, BeginExpr
  <2> QED
    BY <2>1 DEF CallOK
<1>4. b \in CallType /\ b.at = "paren"
  <2>1. CallOK(input, b, nodes) /\ b.at = "paren"
    BY <1>2, PlainCall
  <2> QED
    BY <2>1 DEF CallOK
<1> HIDE DEF b
<1>5. SameClass(This, b) /\ Above(Expr, b)
  BY <1>2, <1>3, <1>4 DEF SameClass, Above, Operands, Primaries, Infixes
<1> QED
  BY <1>1, <1>3, <1>4, <1>5, BeginLevelled

LEMMA ArgLevelled ==
    ASSUME Typed, Levelled, Arg
    PROVE  Levelled'
<1> DEFINE b == At(This, "arg")
<1>1. LevelStep /\ Running("item") /\ Goto(<<Expr, b>>)
  BY ArgTypes, LevelStepIs DEF Arg, At
<1>2. This.at = "item" /\ Len(nodes) \in Nat
  BY <1>1, Innermost
<1>3. Expr \in CallType /\ Expr.at = "infix"
  <2>1. CallOK(input, Expr, nodes) /\ Expr.at = "infix"
    BY <1>2, BeginExpr
  <2> QED
    BY <2>1 DEF CallOK
<1>4. b \in CallType /\ b.at = "arg"
  <2>1. /\ "arg" \in Labels /\ "arg" \notin {"rhs", "operators", "operand"}
        /\ "arg" \notin Owners \cup TokenLists /\ "item" \in NodeLists
    BY ExprLabel, ExprLabelsAre
  <2>2. CallOK(input, b, nodes') /\ b.at = "arg"
    BY <1>1, <2>1, Relabelled DEF LevelStep
  <2> QED
    BY <2>2 DEF CallOK
<1> HIDE DEF b
<1>5. SameClass(This, b) /\ Above(Expr, b)
  BY <1>2, <1>3, <1>4 DEF SameClass, Above, Operands, Primaries, Infixes
<1> QED
  BY <1>1, <1>3, <1>4, <1>5, BeginLevelled

LEMMA LhsLevelled ==
    ASSUME Typed, Windowed, Levelled, Lhs
    PROVE  Levelled'
<1> DEFINE s == <<ret>>
           a == Listed(This, "operators", s)
<1>1. LevelStep /\ Running("lhs") /\ UNCHANGED <<nodes, ret, reported>> /\ window' = window
  BY LhsTypes, LevelStepIs DEF Lhs, Return
<1>2. /\ This.at = "lhs" /\ This \in CallType /\ This = calls[1] /\ calls # <<>>
      /\ ret \in 1 .. Len(nodes) /\ Len(nodes) \in Nat
  BY <1>1, Innermost, ExprLabel, ExprLabelsAre
<1>3. CASE nodes[ret].kind = "error"
  <2>1. reported' /\ calls' = Tail(calls)
    BY <1>1, <1>2, <1>3, LenProperties DEF Lhs, Return, Levelled, LevelledAt, Typed
  <2> QED
    BY <1>1, <2>1, LevelPop
<1>4. CASE nodes[ret].kind # "error"
  <2>1. Goto(<<a>>)
    BY <1>4 DEF Lhs, Listed
  <2>2. a \in CallType /\ a.at = "operators" /\ a.level = This.level /\ a.list = s
    <3>1. /\ "operators" \in Labels /\ "operators" # "rhs"
          /\ "operators" \notin Owners \cup TokenLists
      BY ExprLabel, ExprLabelsAre
    <3>2. s \in Seq(Int) /\ s \in Seq(1 .. Len(nodes')) /\ Len(s) = 1
      BY <1>1, <1>2
    <3> HIDE DEF s
    <3>3. /\ CallOK(input, a, nodes') /\ a.at = "operators" /\ a.level = This.level
          /\ a.list = s
      BY <1>1, <3>1, <3>2, Relisted DEF LevelStep
    <3> QED
      BY <3>3 DEF CallOK
  <2>3. a.list[1] = ret /\ a.level \in 1 .. Shift
    BY <1>2, <2>2, CallFields
  <2> HIDE DEF a
  <2>4. Puts(a) /\ SameClass(This, a)
    BY <1>2, <2>1, <2>2 DEF Goto, Puts, SameClass, Operands, Primaries, Infixes
  <2>5. ASSUME ~reported' PROVE LeftOK(a, nodes') /\ ReturnOK(a, nodes', ret', Kind(window'))
    <3>1. nodes[ret].kind # "binary"
      BY <1>1, <1>2, <2>5 DEF Levelled, LevelledAt, ReturnOK
    <3>2. LevelIn(nodes', a.list[1]) = Shift + 1
      BY <1>1, <2>3, <3>1 DEF LevelIn
    <3>3. ASSUME NEW k, IsInfix(k, a.level) PROVE Level[k] <= Shift + 1
      <4>1. a.level \in Nat /\ a.level > 0
        BY <2>3 DEF Shift
      <4>2. Level[k] \in 1 .. Shift
        BY <3>3, <4>1, LevelIs
      <4> QED
        BY <4>2 DEF Shift
    <3>4. LeftOK(a, nodes')
      BY <2>2 DEF LeftOK
    <3> DEFINE k == Kind(window')
    <3> HIDE DEF k
    <3>5. ReturnOK(a, nodes', ret', k)
      BY <2>2, <2>3, <3>2, <3>3 DEF ReturnOK, Shift
    <3> QED
      BY <3>4, <3>5 DEF k
  <2> QED
    BY <1>1, <2>2, <2>4, <2>5, LevelPut
<1> QED
  BY <1>3, <1>4

LEMMA OperatorLevelled ==
    ASSUME Typed, Levelled, Operator
    PROVE  Levelled'
<1> DEFINE a == RightOf(Current)
           b == Listed(This, "rhs", Append(This.list, TokenAt(window, n)))
           v == Level[Current]
<1>1. /\ LevelStep /\ Running("operators") /\ Goto(<<a, b>>) /\ UNCHANGED <<nodes, reported>>
      /\ IsInfix(Current, This.level)
  BY OperatorTypes, LevelStepIs DEF Operator, Listed
<1>2. /\ This.at = "operators" /\ This = calls[1] /\ calls # <<>> /\ Len(nodes) \in Nat
      /\ This.level \in 1 .. Shift
  BY <1>1, Innermost, CallFields
<1>3. IsInfix(Current, 1) /\ v \in 1 .. Shift
  <2>1. This.level \in Nat /\ This.level > 0
    BY <1>2 DEF Shift
  <2>2. v \in 1 .. Shift
    BY <1>1, <2>1, LevelIs
  <2> QED
    BY <1>1, <2>2 DEF IsInfix, Shift
<1>4. /\ CallOK(input, a, nodes)
      /\ v = Shift => a.at = "prefix"
      /\ v # Shift => a.at = "infix" /\ a.level = v + 1
  BY <1>2, <1>3, RightCall
<1>5. /\ CallOK(input, b, nodes') /\ b.at = "rhs" /\ b.level = This.level
      /\ b.list[1] = This.list[1] /\ LevelAt(b.list[2]) = v
  BY <1>1, RhsCall
<1>6. ~reported => LevelIn(nodes, This.list[1]) >= v
  BY <1>1, <1>2 DEF Levelled, LevelledAt, ReturnOK
<1> HIDE DEF a, b, v
<1>7. a \in CallType /\ b \in CallType
  BY <1>4, <1>5 DEF CallOK
<1>8. Calls(a, b)
  BY <1>1, <1>2 DEF Goto, Calls
<1>9. SameClass(This, b) /\ Above(a, b)
  BY <1>2, <1>4, <1>5 DEF SameClass, Above, Operands, Primaries, Infixes
<1>10. LeftOK(a, nodes') /\ ReturnOK(a, nodes', ret', Kind(window'))
  <2>1. a.at \notin {"lhs", "postfix", "operators", "rhs"}
    BY <1>4
  <2> QED
    BY <2>1, ReturnsFreely
<1>11. ~reported' => LeftOK(b, nodes')
  BY <1>1, <1>5, <1>6 DEF LeftOK
<1> QED
  BY <1>1, <1>7, <1>8, <1>9, <1>10, <1>11, LevelCall

LEMMA NoOperatorLevelled ==
    ASSUME Typed, Windowed, Levelled, NoOperator
    PROVE  Levelled'
<1>1. /\ LevelStep /\ Running("operators") /\ UNCHANGED <<nodes, reported>> /\ window' = Look
      /\ ret' = This.list[1] /\ calls' = Tail(calls) /\ ~IsInfix(Current, This.level)
  BY NoOperatorTypes, LevelStepIs DEF NoOperator, Return
<1>2. This.at = "operators" /\ This = calls[1] /\ calls # <<>> /\ This.level \in 1 .. Shift
  BY <1>1, Innermost, CallFields
<1>3. ASSUME ~reported', Len(calls) > 1, Above(This, calls[2]), LeftOK(calls[2], nodes'),
             CallOK(input, calls[2], nodes)
      PROVE  ReturnOK(calls[2], nodes', ret', Kind(window'))
  <2> DEFINE b == calls[2]
             k == Kind(window')
             id == ret'
             ns == nodes'
             c == This
  <2>1. b.at # "operators" /\ Above(c, b) /\ c.at = "operators"
    BY <1>1, <1>2, <1>3, SecondWaits
  <2>2. LevelIn(ns, id) >= c.level
    BY <1>1, <1>2, <1>3 DEF Levelled, LevelledAt, ReturnOK
  <2>3. ~IsInfix(k, c.level)
    BY <1>1, <1>3, SamePeek
  <2>4. LevelIn(ns, id) \in Int /\ c.level \in 1 .. Shift
    <3>1. id \in 1 .. Len(nodes) /\ Len(nodes) \in Nat /\ n \in Nat
          /\ nodes \in Seq(NodeType(Len(nodes)))
      <4>1. CallOK(input, This, nodes) /\ Len(nodes) \in Nat /\ n \in Nat
        BY <1>1, Innermost
      <4>2. This.list \in Seq(1 .. Len(nodes)) /\ Len(This.list) = 1
        BY <1>2, <4>1, ExprLabel, ExprLabelsAre DEF CallOK
      <4>3. This.list[1] \in 1 .. Len(nodes)
        BY <4>2, LenProperties
      <4> QED
        BY <1>1, <4>1, <4>3 DEF Typed
    <3>2. BinaryOK(ns, id)
      BY <1>1, <1>3, <3>1, LenProperties DEF Levelled, LevelledAt
    <3>3. nodes[id].kind = "binary" => LevelAt(nodes[id].toks[1]) \in 1 .. Shift
      <4>1. ASSUME NEW x, IsInfix(x, 1) PROVE Level[x] \in 1 .. Shift
        <5> DEFINE o == 1
        <5>1. o \in Nat /\ o > 0 /\ IsInfix(x, o)
          BY <4>1
        <5> HIDE DEF o
        <5> QED
          BY <5>1, LevelIs
      <4> QED
        BY <1>1, <3>2, <4>1 DEF BinaryOK, LevelAt
    <3>4. LevelIn(ns, id) \in Int
      BY <1>1, <3>3 DEF LevelIn, Shift
    <3> QED
      BY <1>2, <3>4
  <2> HIDE DEF b, k, id, ns, c
  <2>5. b.at \notin {"lhs", "postfix"}
    BY <2>1 DEF Above, Operands, Primaries
  <2>6. ASSUME b.at = "rhs" PROVE LevelIn(ns, id) > LevelAt(b.list[2])
                                  /\ ~IsInfix(k, LevelAt(b.list[2]) + 1)
    <3>1. c.level = LevelAt(b.list[2]) + 1
      BY <2>1, <2>6 DEF Above, Operands
    <3>2. CallOK(input, b, nodes)
      BY <1>3 DEF b
    <3>3. LevelAt(b.list[2]) \in Int
      <4>1. b.level \in 1 .. Shift
        BY <3>2, CallFields DEF CallOK
      <4>2. b.level \in Nat /\ b.level > 0 /\ IsInfix(input[b.list[2]].kind, b.level)
        BY <2>6, <3>2, <4>1 DEF CallOK, Shift
      <4>3. Level[input[b.list[2]].kind] \in 1 .. Shift
        BY <4>2, LevelIs
      <4> QED
        BY <4>3 DEF LevelAt, Shift
    <3> QED
      BY <2>2, <2>3, <2>4, <3>1, <3>3
  <2>7. ReturnOK(b, ns, id, k)
    BY <2>1, <2>5, <2>6 DEF ReturnOK
  <2> QED
    BY <2>7 DEF b, k, id, ns
<1> QED
  BY <1>1, <1>3, LevelPop

(* The operation that has got its right operand.                           *)
LEMMA RhsLevelled ==
    ASSUME Typed, Windowed, Levelled, Rhs
    PROVE  Levelled'
<1> DEFINE s == <<NewId>>
           a == Listed(This, "operators", s)
           c == This
           ns == nodes'
           k == Kind(window')
           x == input[c.list[2]].kind
<1>1. /\ Running("rhs") /\ UNCHANGED <<input, window, ret, reported>> /\ Goto(<<a>>)
      /\ Typed' /\ Extends(nodes, ns) /\ Len(ns) = Len(nodes) + 1
      /\ \A id \in 1 .. Len(nodes) : ns[id] = nodes[id]
      /\ ns[NewId].kind = "binary" /\ ns[NewId].toks = <<c.list[2]>>
      /\ ns[NewId].kids = <<c.list[1], ret>>
  BY RhsTypes DEF Rhs, Listed, Keep
<1>2. /\ c.at = "rhs" /\ c = calls[1] /\ CallOK(input, c, nodes) /\ c \in CallType
      /\ calls # <<>> /\ Len(nodes) \in Nat /\ NewId = Len(nodes) + 1
      /\ ret \in 1 .. Len(nodes) /\ DOMAIN calls = 1 .. Len(calls) /\ Len(calls) \in Nat
      /\ Len(calls) >= 1 /\ calls \in Seq(CallType) /\ n \in Nat
  BY <1>1, Innermost, ExprLabel, ExprLabelsAre
<1>3. /\ c.list[1] \in 1 .. Len(nodes) /\ c.list[2] \in 1 .. n /\ IsInfix(x, c.level)
      /\ c.level \in 1 .. Shift
  BY <1>2, CallFields DEF CallOK, n
<1>4. Level[x] \in 1 .. Shift /\ Level[x] >= c.level /\ IsInfix(x, 1)
  <2>1. c.level \in Nat /\ c.level > 0
    BY <1>3 DEF Shift
  <2>2. Level[x] \in 1 .. Shift /\ Level[x] >= c.level
    BY <1>3, <2>1, LevelIs
  <2> QED
    BY <1>3, <2>2 DEF IsInfix, Shift
<1>5. DOMAIN nodes = 1 .. Len(nodes) /\ DOMAIN ns = 1 .. Len(nodes) + 1
      /\ nodes \in Seq(NodeType(Len(nodes)))
  BY <1>1, LenProperties DEF Typed
<1>6. /\ a \in CallType /\ a.at = "operators" /\ a.list = s /\ a.level = c.level
  <2>1. /\ "operators" \in Labels /\ "operators" # "rhs"
        /\ "operators" \notin Owners \cup TokenLists
    BY ExprLabel, ExprLabelsAre
  <2>2. s \in Seq(Int) /\ s \in Seq(1 .. Len(nodes')) /\ Len(s) = 1
    BY <1>1, <1>2
  <2> HIDE DEF s
  <2>3. CallOK(input, a, nodes') /\ a.at = "operators" /\ a.list = s /\ a.level = c.level
    BY <1>1, <2>1, <2>2, Relisted
  <2> QED
    BY <2>3 DEF CallOK
<1>7. a.list[1] = NewId
  BY <1>6
<1>8. ~reported => /\ \A id \in 1 .. Len(nodes) : BinaryOK(nodes, id)
                   /\ \A i \in DOMAIN calls : LeftOK(calls[i], nodes)
                   /\ LevelIn(nodes, c.list[1]) >= Level[x]
                   /\ LevelIn(nodes, ret) > Level[x]
                   /\ ~IsInfix(k, Level[x] + 1)
  <2>1. ASSUME ~reported PROVE /\ \A id \in DOMAIN nodes : BinaryOK(nodes, id)
                               /\ \A i \in DOMAIN calls : LeftOK(calls[i], nodes)
                               /\ ReturnOK(c, nodes, ret, Current)
    BY <1>2, <2>1 DEF Levelled, LevelledAt
  <2>2. ASSUME ~reported PROVE LeftOK(c, nodes)
    <3>1. 1 \in DOMAIN calls
      BY <1>2
    <3> QED
      BY <1>2, <2>1, <2>2, <3>1
  <2>3. k = Current
    <3>1. Kind(window) = Current
      BY DEF Current
    <3> QED
      BY <1>1, <3>1, KindNext
  <2> QED
    BY <1>2, <1>5, <2>1, <2>2, <2>3 DEF LeftOK, ReturnOK, LevelAt
<1>9. \A id \in 1 .. Len(nodes) : LevelIn(ns, id) = LevelIn(nodes, id)
  BY <1>1 DEF LevelIn
<1>10. /\ ns[NewId].toks[1] = c.list[2] /\ Len(ns[NewId].toks) = 1
       /\ ns[NewId].kids[1] = c.list[1] /\ ns[NewId].kids[2] = ret
       /\ Len(ns[NewId].kids) = 2 /\ LevelIn(ns, NewId) = Level[x]
  BY <1>1 DEF LevelIn, LevelAt
<1>11. ASSUME ~reported, NEW id \in DOMAIN ns PROVE BinaryOK(ns, id)
  <2>1. CASE id = NewId
    <3>1. /\ LevelIn(ns, c.list[1]) = LevelIn(nodes, c.list[1])
          /\ LevelIn(ns, ret) = LevelIn(nodes, ret)
      BY <1>2, <1>3, <1>9
    <3> QED
      BY <1>3, <1>4, <1>8, <1>10, <1>11, <2>1, <3>1 DEF BinaryOK
  <2>2. CASE id # NewId
    <3>1. id \in 1 .. Len(nodes)
      BY <1>2, <1>5, <2>2
    <3>2. BinaryOK(nodes, id) /\ ns[id] = nodes[id] /\ LevelIn(ns, id) = LevelIn(nodes, id)
      BY <1>1, <1>8, <1>9, <1>11, <3>1
    <3>3. CASE nodes[id].kind # "binary"
      BY <3>2, <3>3 DEF BinaryOK
    <3>4. CASE nodes[id].kind = "binary"
      <4>1. nodes[id].kids \in Seq(1 .. Len(nodes)) /\ Len(nodes[id].kids) = 2
        BY <1>5, <3>1, <3>2, <3>4, NodeFields DEF BinaryOK
      <4>2. nodes[id].kids[1] \in 1 .. Len(nodes) /\ nodes[id].kids[2] \in 1 .. Len(nodes)
        BY <4>1
      <4>3. /\ LevelIn(ns, nodes[id].kids[1]) = LevelIn(nodes, nodes[id].kids[1])
            /\ LevelIn(ns, nodes[id].kids[2]) = LevelIn(nodes, nodes[id].kids[2])
        BY <1>9, <4>2
      <4> QED
        BY <3>2, <3>4, <4>3 DEF BinaryOK
    <3> QED
      BY <3>3, <3>4
  <2> QED
    BY <2>1, <2>2
<1>12. \A id \in DOMAIN ns : ns[id].kind = "error" => reported
  <2>1. \A id \in DOMAIN nodes : nodes[id].kind = "error" => reported
    BY DEF Levelled, LevelledAt
  <2>2. \A id \in DOMAIN ns : id = NewId \/ id \in 1 .. Len(nodes)
    BY <1>2, <1>5
  <2> QED
    BY <1>1, <1>5, <2>1, <2>2
<1> HIDE DEF a, k, ns, c, s, x
<1>13. /\ calls' \in Seq(CallType) /\ Len(calls') = Len(calls) /\ calls'[1] = a
       /\ \A i \in 2 .. Len(calls) : calls'[i] = calls[i]
  BY <1>1, <1>2, <1>6, Replaced DEF Goto
<1>14. DOMAIN calls' = 1 .. Len(calls)
  BY <1>13, LenProperties
<1>15. ASSUME NEW i \in DOMAIN calls', i + 1 \in DOMAIN calls'
       PROVE  Above(calls'[i], calls'[i + 1])
  <2> DEFINE j == i + 1
  <2>1. i \in 1 .. Len(calls) /\ j \in 2 .. Len(calls)
    BY <1>2, <1>14, <1>15
  <2>2. Above(calls[i], calls[j])
    BY <1>2, <2>1 DEF Levelled, LevelledAt
  <2>3. calls'[j] = calls[j]
    BY <1>13, <2>1
  <2>4. CASE i = 1
    <3>1. SameClass(c, a)
      BY <1>2, <1>6 DEF SameClass, Operands, Primaries, Infixes
    <3> QED
      BY <1>2, <1>13, <2>2, <2>3, <2>4, <3>1, AboveStays
  <2>5. CASE i # 1
    BY <1>13, <2>1, <2>2, <2>3, <2>5
  <2> QED
    BY <2>4, <2>5
<1>16. ASSUME ~reported, NEW i \in DOMAIN calls' PROVE LeftOK(calls'[i], ns)
  <2>1. CASE i = 1
    BY <1>6, <1>13, <2>1 DEF LeftOK
  <2>2. CASE i # 1
    <3>1. i \in DOMAIN calls /\ calls'[i] = calls[i]
      BY <1>2, <1>13, <1>14, <2>2
    <3>2. LeftOK(calls[i], nodes) /\ CallOK(input, calls[i], nodes)
      BY <1>8, <1>16, <3>1 DEF Typed, CallsOK
    <3>3. CASE calls[i].at = "rhs"
      <4>1. calls[i].list[1] \in 1 .. Len(nodes)
        BY <3>2, <3>3 DEF CallOK
      <4> QED
        BY <1>9, <3>1, <3>2, <3>3, <4>1 DEF LeftOK
    <3> QED
      BY <3>1, <3>3 DEF LeftOK
  <2> QED
    BY <2>1, <2>2
<1>17. ASSUME ~reported PROVE ReturnOK(calls'[1], ns, ret', k)
  <2>1. LevelIn(ns, a.list[1]) = Level[x]
    BY <1>7, <1>10
  <2>2. ASSUME IsInfix(k, a.level) PROVE Level[k] <= Level[x]
    <3>1. ~(k \in DOMAIN Level /\ Level[k] >= Level[x] + 1)
      BY <1>8, <1>17 DEF IsInfix
    <3>2. k \in DOMAIN Level /\ Level[k] \in Int
      <4>1. k \in DOMAIN Level
        BY <2>2 DEF IsInfix
      <4>2. \A y \in DOMAIN Level : Level[y] \in Int
        BY DEF Level
      <4> QED
        BY <4>1, <4>2
    <3> QED
      BY <1>4, <3>1, <3>2
  <2> QED
    BY <1>4, <1>6, <1>13, <2>1, <2>2 DEF ReturnOK
<1>18. LevelledAt(calls', ns, ret', reported', k)
  BY <1>1, <1>11, <1>12, <1>15, <1>16, <1>17 DEF LevelledAt
<1> QED
  BY <1>1, <1>18, LevelledNext DEF ns, k

-----------------------------------------------------------------------------
(* The invariant is inductive.                                             *)

LEMMA InitHolds ==
    ASSUME Init
    PROVE  IInv
<1> DEFINE c == Call("stmts")
<1>1. c = [at |-> "stmts", node |-> 0, level |-> 1, list |-> <<>>, from |-> 0]
  BY DEF Call
<1>2. /\ calls = <<c>> /\ This = c /\ calls # <<>> /\ Len(calls) = 1 /\ calls[1] = c
      /\ DOMAIN calls = {1}
  BY DEF Init, This
<1>3. /\ nodes = <<>> /\ Len(nodes) = 0 /\ DOMAIN nodes = {} /\ ret = 0 /\ scope = 0
      /\ reported = FALSE /\ outcome = "run" /\ decls = <<>> /\ input \in Seq(Token)
      /\ window = EmptyWindow
  BY BoundsAssumption DEF Init
<1>4. CallOK(input, c, nodes)
  <2>1. "stmts" \in Labels \ (Owners \cup {"operators", "operand", "rhs"})
    BY DEF Labels, Owners
  <2>2. Len(nodes) \in Nat
    BY <1>3
  <2> QED
    BY <2>1, <2>2, NewCall
<1>5. c.at = "stmts" /\ c.node = 0 /\ c \in CallType
  BY <1>1, <1>4 DEF CallOK
<1> HIDE DEF c
<1>6. window \in WindowType
  <2>1. n \in Nat /\ 0 \in 0 .. WindowLength - 1 /\ 0 \in 0 .. SizeRange - 1 /\ 0 \in 0 .. n
    BY <1>3, Length, WindowAssumption
  <2>2. window = [slots |-> [i \in 0 .. WindowLength - 1 |-> Unread],
                  start |-> 0, end |-> 0, read |-> 0]
    BY <1>3 DEF EmptyWindow
  <2> QED
    BY <2>1, <2>2 DEF WindowType
<1>7. Typed
  <2>1. calls \in Seq(CallType)
    BY <1>2, <1>5
  <2>2. nodes \in Seq(NodeType(Len(nodes))) /\ decls \in Seq(1 .. Len(nodes))
    BY <1>3, EmptyList
  <2>3. CallsOK
    BY <1>2, <1>4, <1>5, <2>1 DEF CallsOK
  <2>4. This.at \notin Waiting
    BY <1>2, <1>5 DEF Waiting
  <2>5. ret \in 0 .. Len(nodes) /\ scope \in 0 .. Len(nodes)
    BY <1>3
  <2>6. reported \in BOOLEAN
    BY <1>3, Zenon
  <2>7. outcome \in {"run", "done", "abort", "undefined"}
    BY <1>3
  <2> QED
    BY <1>3, <1>6, <2>2, <2>3, <2>4, <2>5, <2>6, <2>7 DEF Typed
<1>8. Scoped
  <2>1. BlocksOf(calls) = {}
    BY <1>2, <1>5 DEF BlocksOf, IsBlock
  <2> QED
    BY <1>3, <2>1 DEF Scoped, FirstBelow
<1>9. WindowOK(window)
  <2>1. window.start = 0 /\ window.end = 0 /\ window.read = 0
    BY <1>3 DEF EmptyWindow
  <2>2. Ate(window) = 0 * WindowLength + window.start
    BY <2>1, WindowAssumption DEF Ate
  <2> QED
    BY <2>1, <2>2 DEF WindowOK
<1>10. Windowed
  <2>1. ~PastEnd(window)
    BY <1>3 DEF EmptyWindow, PastEnd
  <2>2. This.at \notin Keywords
    BY <1>2, <1>5 DEF Keywords, DeclLabels
  <2> QED
    BY <1>9, <2>1, <2>2 DEF Windowed
<1>11. Fed
  BY <1>2, <1>5 DEF Fed
<1>12. Levelled
  <2> DEFINE k == Current
  <2> HIDE DEF k
  <2>1. LeftOK(c, nodes) /\ ReturnOK(c, nodes, ret, k)
    BY <1>5, ReturnsFreely
  <2>2. LevelledAt(calls, nodes, ret, reported, k)
    BY <1>2, <1>3, <2>1 DEF LevelledAt
  <2> QED
    BY <2>2 DEF Levelled, k
<1> QED
  BY <1>7, <1>8, <1>10, <1>11, <1>12 DEF IInv

(* A step that leaves the blocks.                                          *)
LEMMA QuietStep ==
    ASSUME IInv, Typed', Changes, Windowed', Fed', Levelled'
    PROVE  IInv'
<1>1. Scoped'
  BY QuietScoped DEF IInv, Changes
<1> QED
  BY <1>1 DEF IInv

(* A step outside of expressions.                                          *)
LEMMA PlainStep ==
    ASSUME IInv, Keep, Typed', Changes, CallsPlain, \E l : Running(l), Windowed', Fed'
    PROVE  IInv'
<1>1. LevelStep
  BY LevelStepIs DEF IInv
<1>2. Levelled'
  BY <1>1, PlainLevelled
<1> QED
  BY <1>2, QuietStep

LEMMA StopInv ==
    ASSUME IInv, NEW how \in {"abort", "undefined"}, Stop(how)
    PROVE  IInv'
<1>1. Typed' /\ UNCHANGED <<input, window, calls, ret, nodes, scope, reported, decls>>
  BY StopStep DEF IInv
<1>2. Scoped' /\ Windowed' /\ Fed'
  BY StopScoped, StopFeeds DEF IInv
<1>3. Levelled'
  BY <1>1, StopLevelled DEF IInv
<1> QED
  BY <1>1, <1>2, <1>3 DEF IInv

LEMMA OverflowInv == ASSUME IInv, Overflow PROVE IInv'
  BY StopInv DEF Overflow

LEMMA DeclarationInv ==
    ASSUME IInv, Declaration
    PROVE  IInv'
<1> USE DEF IInv
<1>1. CASE DeclAtEnd
  BY <1>1, DeclAtEndTypes, KeywordPopFeeds, PlainStep DEF DeclAtEnd
<1>2. CASE VarWithInit
  BY <1>2, VarWithInitTypes, VarFeeds, PlainStep DEF VarWithInit, NameOf
<1>3. CASE VarWithout
  BY <1>3, VarWithoutTypes, VarFeeds, PlainStep DEF VarWithout, NameOf
<1>4. CASE VarLast \/ FunNoParams \/ ObjLast
  BY <1>4, StopInv DEF VarLast, FunNoParams, ObjLast
<1>5. CASE FunDecl
  BY <1>5, FunDeclTypes, FunDeclFeeds, PlainStep DEF FunDecl, NameOf
<1>6. CASE NextParam
  BY <1>6, NextParamTypes, NextParamFeeds, PlainStep DEF NextParam
<1>7. CASE SkipComma
  BY <1>7, SkipCommaTypes, SkipFeeds, SkipCommaLevelled, QuietStep
<1>8. CASE NoParam
  BY <1>8, NoParamTypes, NoParamFeeds, PlainStep DEF NoParam
<1>9. CASE Param
  <2>1. CASE Overflow
    BY <2>1, OverflowInv
  <2>2. CASE ~Overflow
    BY <1>9, <2>2, ParamTypes, ParamFeeds, PlainStep DEF Param
  <2> QED
    BY <2>1, <2>2
<1>10. CASE CloseParams
  BY <1>10, CloseParamsTypes, CloseParamsFeeds, PlainStep DEF CloseParams
<1>11. CASE ObjDecl
  BY <1>11, ObjDeclTypes, ObjDeclFeeds, PlainStep DEF ObjDecl, NameOf
<1>12. CASE Completed
  BY <1>12, CompletedTypes, CompletedFeeds, PlainStep DEF Completed
<1> QED
  BY <1>1, <1>2, <1>3, <1>4, <1>5, <1>6, <1>7, <1>8, <1>9, <1>10, <1>11, <1>12
     DEF Declaration

LEMMA ExpressionInv ==
    ASSUME IInv, Expression
    PROVE  IInv'
<1> USE DEF IInv
<1>1. CASE Infix
  BY <1>1, InfixTypes, InfixFeeds, InfixLevelled, QuietStep
<1>2. CASE Lhs
  BY <1>2, LhsTypes, LhsFeeds, LhsLevelled, QuietStep
<1>3. CASE Operator
  BY <1>3, OperatorTypes, OperatorFeeds, OperatorLevelled, QuietStep
<1>4. CASE NoOperator
  BY <1>4, NoOperatorTypes, ReturnFeeds, NoOperatorLevelled, QuietStep
<1>5. CASE Rhs
  <2>1. Scoped'
    BY <1>5, RhsTypes, QuietScoped
  <2> QED
    BY <1>5, <2>1, RhsTypes, RhsFeeds, RhsLevelled
<1>6. CASE PrefixOperator
  BY <1>6, PrefixOperatorTypes, OpenFeeds, PrefixOperatorLevelled, QuietStep
<1>7. CASE NoPrefix
  BY <1>7, NoPrefixTypes, NoPrefixFeeds, NoPrefixLevelled, QuietStep
<1>8. CASE OpenParen
  BY <1>8, OpenParenTypes, OpenFeeds, OpenParenLevelled, QuietStep
<1>9. CASE Operand \/ Atom \/ NoExpr \/ ExprAtEnd \/ CloseParen \/ PostfixDone
  <2>1. Typed' /\ Changes
    BY <1>9, OperandTypes, AtomTypes, NoExprTypes, CloseParenTypes, PostfixDoneTypes
  <2>2. Windowed' /\ Fed'
    BY <1>9, ReturnFeeds, TokenFeeds, ExprAtEndFeeds
  <2> QED
    BY <1>9, <2>1, <2>2, OperandReturnsLevelled, QuietStep
<1>10. CASE Member
  BY <1>10, MemberTypes, MemberFeeds, MemberLevelled, QuietStep
<1>11. CASE OpenArgs
  BY <1>11, OpenArgsTypes, OpenArgsFeeds, OpenArgsLevelled, QuietStep
<1>12. CASE NextArg
  BY <1>12, NextArgTypes, NextArgFeeds, NextArgLevelled, QuietStep
<1>13. CASE Arg
  BY <1>13, ArgTypes, ArgFeeds, ArgLevelled, QuietStep
<1>14. CASE ArgParsed
  <2>1. CASE Overflow
    BY <2>1, OverflowInv
  <2>2. CASE ~Overflow
    BY <1>14, <2>2, ArgParsedTypes, ArgParsedFeeds, ArgParsedLevelled, QuietStep
  <2> QED
    BY <2>1, <2>2
<1>15. CASE CloseArgs
  BY <1>15, CloseArgsTypes, CloseArgsFeeds, CloseArgsLevelled, QuietStep
<1> QED
  BY <1>1, <1>2, <1>3, <1>4, <1>5, <1>6, <1>7, <1>8, <1>9, <1>10, <1>11, <1>12, <1>13,
     <1>14, <1>15 DEF Expression

LEMMA StatementInv ==
    ASSUME IInv, Statement
    PROVE  IInv'
<1> USE DEF IInv
<1>1. CASE SkipSemicolon
  BY <1>1, SkipSemicolonTypes, SkipFeeds, PlainStep DEF SkipSemicolon
<1>2. CASE NextStmt
  BY <1>2, NextStmtTypes, NextStmtFeeds, PlainStep DEF NextStmt
<1>3. CASE StmtParsed
  <2>1. CASE Overflow
    BY <2>1, OverflowInv
  <2>2. CASE ~Overflow
    <3>1. Keep
      BY <1>3, <2>2 DEF StmtParsed, Overflow
    <3> QED
      BY <1>3, <2>2, <3>1, StmtParsedTypes, StmtParsedFeeds, PlainStep DEF StmtParsed
  <2> QED
    BY <2>1, <2>2
<1>4. CASE RecoverSkips
  BY <1>4, RecoverTypes, SkipFeeds, PlainStep DEF RecoverSkips
<1>5. CASE Recovered
  BY <1>5, RecoveredTypes, RecoveredFeeds, PlainStep DEF Recovered
<1>6. CASE StmtAtEnd
  BY <1>6, StmtAtEndTypes, TokenFeeds, PlainStep DEF StmtAtEnd
<1>7. CASE Production
  BY <1>7, ProductionTypes, ProductionFeeds, PlainStep DEF Production
<1>8. CASE ExprStmt
  BY <1>8, ExprStmtTypes, ExprStmtFeeds, PlainStep DEF ExprStmt
<1>9. CASE WrapExpr
  BY <1>9, WrapExprTypes, ReturnFeeds, PlainStep DEF WrapExpr
<1>10. CASE OpenBrace \/ CloseBrace
  <2>1. /\ Typed' /\ Scoped' /\ Extends(nodes, nodes') /\ PlainNodes(nodes, nodes', reported')
        /\ (reported => reported') /\ CallsPlain
    BY <1>10, OpenBraceKeeps, CloseBraceKeeps
  <2>2. Windowed' /\ Fed'
    BY <1>10, OpenBraceFeeds, CloseBraceFeeds
  <2>3. LevelStep
    BY <1>10, <2>1 DEF LevelStep, OpenBrace, CloseBrace, Keep
  <2>4. PICK l \in {"brace", "stmts"} : Running(l)
    BY <1>10 DEF OpenBrace, CloseBrace
  <2>5. Levelled'
    BY <2>1, <2>3, <2>4, PlainLevelled
  <2> QED
    BY <2>1, <2>2, <2>5
<1>11. CASE IfStmt \/ WhileStmt \/ RetStmt
  <2>1. Typed' /\ Changes /\ CallsPlain
    BY <1>11, KeywordsTypes
  <2>2. Keep /\ \E l : Running(l)
    BY <1>11 DEF IfStmt, WhileStmt, RetStmt, Keyword
  <2> QED
    BY <1>11, <2>1, <2>2, KeywordFeeds, PlainStep
<1>12. CASE Then
  BY <1>12, ThenTypes, ThenFeeds, PlainStep DEF Then
<1>13. CASE Else
  BY <1>13, ElseTypes, ElseFeeds, PlainStep DEF Else
<1>14. CASE Body
  BY <1>14, BodyTypes, BodyFeeds, PlainStep DEF Body
<1>15. CASE BrkOrNxt
  BY <1>15, BrkOrNxtTypes, KeywordPopFeeds, PlainStep DEF BrkOrNxt
<1>16. CASE EndOfSource
  BY <1>16, EndOfSourceTypes, EndOfSourceFeeds, PlainStep DEF EndOfSource
<1>17. CASE GatherStmt \/ WrapRun \/ GatherDecl
  <2>1. /\ Typed' /\ Scoped' /\ Extends(nodes, nodes') /\ PlainNodes(nodes, nodes', reported')
        /\ reported' = reported /\ Len(calls') = 2
        /\ calls'[1].at = "gather" /\ calls'[2].at = "run"
    BY <1>17, GatherStmtKeeps, WrapRunKeeps, GatherDeclKeeps
  <2>2. LevelStep
    BY <1>17, <2>1 DEF LevelStep, GatherStmt, WrapRun, GatherDecl, Keep
  <2> QED
    BY <1>17, <2>1, <2>2, GatherLevelled, GatherFeeds
<1>18. CASE Finish
  <2>1. /\ Typed' /\ Scoped' /\ Extends(nodes, nodes') /\ PlainNodes(nodes, nodes', reported')
        /\ calls' = <<>>
    BY <1>18, FinishKeeps
  <2>2. LevelStep
    BY <1>18, <2>1 DEF LevelStep, Finish
  <2> QED
    BY <1>18, <2>1, <2>2, FinishLevelled, FinishFeeds
<1> QED
  BY <1>1, <1>2, <1>3, <1>4, <1>5, <1>6, <1>7, <1>8, <1>9, <1>10, <1>11, <1>12, <1>13,
     <1>14, <1>15, <1>16, <1>17, <1>18, RecoverWays DEF Statement

LEMMA IdleInv == ASSUME IInv, UNCHANGED vars PROVE IInv'
<1> USE DEF vars
<1>1. n' = n /\ Current' = Current
  BY KindNext DEF Current
<1>2. Typed'
  BY <1>1 DEF IInv, Typed, CallsOK, This, WindowType, NodeType
<1>3. Scoped'
  BY DEF IInv, Scoped
<1>4. Windowed' /\ Fed'
  BY <1>1 DEF IInv, Windowed, Fed, RoomAtEnd, WindowOK, Eaten, This
<1>5. Levelled'
  BY StopLevelled DEF IInv
<1> QED
  BY <1>2, <1>3, <1>4, <1>5 DEF IInv

LEMMA NextInv ==
    ASSUME IInv, [Next]_vars
    PROVE  IInv'
  BY DeclarationInv, ExpressionInv, StatementInv, IdleInv DEF Next

-----------------------------------------------------------------------------
(* The theorems.                                                           *)

(* Every reachable state satisfies the invariant.                          *)
THEOREM ParserInvariant == Spec => []IInv
<1>1. Init => IInv
  BY InitHolds
<1>2. IInv /\ [Next]_vars => IInv'
  BY NextInv
<1> QED
  BY <1>1, <1>2, PTL DEF Spec

LEMMA Items == ASSUME NEW T, NEW s \in Seq(T) PROVE \A i \in DOMAIN s : s[i] \in T
  OBVIOUS

LEMMA TypeHolds ==
    ASSUME IInv
    PROVE  TypeOK
<1>1. Typed
  BY DEF IInv
<1>2. /\ nodes \in Seq(NodeType(Len(nodes))) /\ DOMAIN nodes = 1 .. Len(nodes)
      /\ Len(nodes) \in Nat /\ n \in Nat
  BY <1>1, LenProperties, Length DEF Typed
<1>3. /\ window.start \in 0 .. WindowLength - 1 /\ window.end \in 0 .. SizeRange - 1
      /\ window.read \in 0 .. n
  BY <1>1, WindowFields DEF Typed
<1>4. ASSUME NEW i \in DOMAIN calls
      PROVE  calls[i].at \in Labels /\ calls[i].node \in 0 .. Len(nodes)
  <2>1. CallOK(input, calls[i], nodes)
    BY <1>1 DEF Typed, CallsOK
  <2>2. calls[i].at \in Labels /\ calls[i].node \in Nat
    BY <2>1, CallFields DEF CallOK
  <2>3. calls[i].node # 0 => calls[i].node \in 1 .. Len(nodes)
    BY <2>1 DEF CallOK
  <2> QED
    BY <1>2, <2>2, <2>3
<1>5. ASSUME NEW id \in DOMAIN nodes
      PROVE  /\ \A i \in DOMAIN nodes[id].kids : nodes[id].kids[i] \in DOMAIN nodes
             /\ \A i \in DOMAIN nodes[id].toks : nodes[id].toks[i] \in 0 .. n
             /\ \A i \in DOMAIN nodes[id].decls : nodes[id].decls[i] \in DOMAIN nodes
  <2>1. /\ nodes[id].toks \in Seq(0 .. n) /\ nodes[id].kids \in Seq(1 .. Len(nodes))
        /\ nodes[id].decls \in Seq(1 .. Len(nodes))
    BY <1>2, <1>5, NodeFields
  <2>2. \A i \in DOMAIN nodes[id].kids : nodes[id].kids[i] \in 1 .. Len(nodes)
    BY <2>1, Items
  <2>3. \A i \in DOMAIN nodes[id].toks : nodes[id].toks[i] \in 0 .. n
    BY <2>1, Items
  <2>4. \A i \in DOMAIN nodes[id].decls : nodes[id].decls[i] \in 1 .. Len(nodes)
    BY <2>1, Items
  <2> QED
    BY <1>2, <2>2, <2>3, <2>4
<1>6. \A i \in DOMAIN decls : decls[i] \in DOMAIN nodes
  BY <1>1, <1>2 DEF Typed
<1>7. ret \in 0 .. Len(nodes) /\ scope \in 0 .. Len(nodes)
  BY <1>1 DEF Typed
<1>8. outcome \in {"run", "done", "abort", "undefined"}
  BY <1>1 DEF Typed
<1> QED
  BY <1>3, <1>4, <1>5, <1>6, <1>7, <1>8 DEF TypeOK

(* The parser's indices stay inside the ring, the arena and the source:    *)
(* whatever is parsed, each node, child, token and declaration that is     *)
(* kept is one that exists (parser.c 16 to 61, ast.c).                     *)
THEOREM ParserIsTyped == Spec => []TypeOK
<1>1. IInv => TypeOK
  BY TypeHolds
<1> QED
  BY <1>1, ParserInvariant, PTL

LEMMA ScopeHolds ==
    ASSUME IInv
    PROVE  ScopeIsInnermost
<1> SUFFICES ASSUME outcome = "run"
             PROVE  \/ Blocks = {} /\ scope = 0
                    \/ \E i \in Blocks :
                         scope = calls[i].node /\ \A j \in Blocks : i <= j
  BY DEF ScopeIsInnermost
<1>1. Blocks = BlocksOf(calls)
  BY DEF Blocks, BlocksOf, IsBlock, ListLabels
<1>2. FirstBelow(calls, 0, scope)
  BY DEF IInv, Scoped
<1>3. \A j \in Blocks : j \in Nat /\ j > 0
  <2>1. DOMAIN calls = 1 .. Len(calls) /\ Len(calls) \in Nat
    BY LenProperties DEF IInv, Typed, CallsOK
  <2> QED
    BY <2>1 DEF Blocks
<1>4. CASE scope = 0 /\ \A j \in Blocks : j <= 0
  <2>1. Blocks = {}
    BY <1>3, <1>4
  <2> QED
    BY <1>4, <2>1
<1>5. CASE \E k \in Blocks :
             k > 0 /\ scope = calls[k].node /\ \A j \in Blocks : j > 0 => k <= j
  BY <1>3, <1>5
<1> QED
  BY <1>1, <1>2, <1>4, <1>5 DEF FirstBelow

(* The scope is the innermost block being parsed, whatever errors there    *)
(* are inside of it (parser.c 713 and 741).                                *)
THEOREM ScopesNest == Spec => []ScopeIsInnermost
<1>1. IInv => ScopeIsInnermost
  BY ScopeHolds
<1> QED
  BY <1>1, ParserInvariant, PTL

LEMMA PeekHolds ==
    ASSUME IInv, RoomAtEnd
    PROVE  NeverGoesBack
<1>1. /\ window \in WindowType /\ input \in Seq(Token) /\ WindowOK(window)
      /\ window.start \in 0 .. WindowLength - 1 /\ window.end \in 0 .. SizeRange - 1
      /\ window.read \in 0 .. n /\ n \in Nat
  BY WindowFields DEF IInv, Typed, Windowed
<1>2. CASE ~HasToken(window, n)
  BY <1>2 DEF NeverGoesBack, TokenAt
<1>3. CASE HasToken(window, n) /\ window.start < window.end
  <2>1. Peeked(window, n) = window
    BY <1>3 DEF Peeked
  <2>2. window.slots[window.start] = window.read
    BY <1>1, <1>3 DEF WindowOK
  <2> QED
    BY <1>3, <2>1, <2>2 DEF NeverGoesBack, TokenAt
<1>4. CASE HasToken(window, n) /\ ~(window.start < window.end)
  <2>1. window.read < n
    BY <1>4 DEF HasToken
  <2>2. ~(window.start < window.end \/ window.read >= n)
    BY <1>1, <1>4, <2>1
  <2>3. Peeked(window, n).slots[window.start] = window.read + 1
    BY <1>1, <2>2, PeekReads
  <2> QED
    BY <1>4, <2>3 DEF NeverGoesBack, TokenAt
<1> QED
  BY <1>2, <1>3, <1>4

(* peek returns the last token that was read or the one after it, unless   *)
(* the source ends in the last slot of the ring and has an error           *)
(* (parser.c 34 and 48).                                                   *)
THEOREM PeekGoesOn == Spec => [](RoomAtEnd => NeverGoesBack)
<1>1. IInv => (RoomAtEnd => NeverGoesBack)
  BY PeekHolds
<1> QED
  BY <1>1, ParserInvariant, PTL

LEMMA FedHolds ==
    ASSUME IInv, RoomAtEnd, Running("stmt_done")
    PROVE  This.from < Eaten
<1>1. /\ This.at = "stmt_done" /\ This = calls[1] /\ 1 \in DOMAIN calls
      /\ This.from \in Int
  <2>1. Typed
    BY DEF IInv
  <2>2. /\ This.at = "stmt_done" /\ This = calls[1] /\ This \in CallType
        /\ Len(calls) \in Nat /\ Len(calls) >= 1 /\ DOMAIN calls = 1 .. Len(calls)
    BY <2>1, Innermost
  <2>3. This.from \in Int
    BY <2>2, CallFields
  <2> QED
    BY <2>2, <2>3
<1>2. This.at \notin Begins
  BY <1>1 DEF Begins, Keywords, DeclLabels
<1>3. This.from <= Eaten /\ This.from # Eaten
  BY <1>1, <1>2 DEF IInv, Fed
<1>4. Eaten \in Int
  BY WindowFields DEF IInv, Typed, Eaten
<1> QED
  BY <1>1, <1>3, <1>4

(* A statement takes at least one token, also one that fails, so that the  *)
(* loop of the statements does not stay where it is (parser.c 675, 694),   *)
(* with the exception above.                                               *)
THEOREM StatementsEat == Spec => [](RoomAtEnd => EveryStatementEats)
<1>1. IInv => (RoomAtEnd => EveryStatementEats)
  BY FedHolds DEF EveryStatementEats
<1> QED
  BY <1>1, ParserInvariant, PTL

LEMMA LevelsHold ==
    ASSUME IInv, ~reported, NEW id \in DOMAIN nodes, nodes[id].kind = "binary"
    PROVE  /\ LevelOf(nodes[id].kids[1]) >= LevelOf(id)
           /\ LevelOf(nodes[id].kids[2]) > LevelOf(id)
<1>1. \A d : LevelOf(d) = LevelIn(nodes, d)
  BY DEF LevelOf, LevelIn, LevelAt
<1>2. BinaryOK(nodes, id)
  BY DEF IInv, Levelled, LevelledAt
<1> QED
  BY <1>1, <1>2 DEF BinaryOK

(* Without an error, operators of a higher level bind closer, and those of *)
(* the same level to the left (token.h 11 to 17, parser.c 620).            *)
THEOREM LevelsBind == Spec => []BindsByLevel
<1>1. IInv => BindsByLevel
  BY LevelsHold DEF BindsByLevel
<1> QED
  BY <1>1, ParserInvariant, PTL

=============================================================================
