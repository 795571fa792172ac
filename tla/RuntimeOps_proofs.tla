------------------------- MODULE RuntimeOps_proofs -------------------------
(***************************************************************************)
(* Proofs about RuntimeOps: the interpreter and compiled programs keep in  *)
(* step for integers of every width and expressions of every depth.        *)
(***************************************************************************)
EXTENDS RuntimeOps, TLAPS

(* The values of the interpreter, each with the object that stands for it. *)
Twins ==
    {<<RuntimeValue("junk", 0), AnyObject(JUNK, 0)>>,
     <<RuntimeValue("bool", TRUE), AnyObject(BOOL, 1)>>,
     <<RuntimeValue("bool", FALSE), AnyObject(BOOL, 0)>>,
     <<RuntimeValue("float", 0), AnyObject(FLOAT, 0)>>,
     <<RuntimeValue("print", 0), AnyObject(FunctionTag(4), 0)>>,
     <<RuntimeValue("function", 0), AnyObject(FunctionTag(8), 0)>>}
    \cup {<<RuntimeValue("integer", n), AnyObject(INTEGER, n)>> : n \in Int64}

Values  == {pair[1] : pair \in Twins}
Objects == {pair[2] : pair \in Twins}

Aligned(values, anyObjects) ==
    /\ values \in Seq(Values)
    /\ anyObjects \in Seq(Objects)
    /\ Len(values) = Len(anyObjects)
    /\ \A i \in 1 .. Len(values) : <<values[i], anyObjects[i]>> \in Twins

Agree ==
    /\ interpreter \in {"running", "undefined", "error"}
    /\ compiled \in {"running", "undefined", "abort"}
    /\ interpreter = "running" <=> compiled = "running"
    /\ interpreter = "undefined" <=> compiled = "undefined"

(* The inductive invariant: while both run, the two stacks hold twins.     *)
StepInv ==
    /\ Agree
    /\ Running => Aligned(operands, objects)
    /\ printed.interpreter = printed.compiled

-----------------------------------------------------------------------------
(* Twins.                                                                  *)

Alike(v, o) ==
    \/ v = RuntimeValue("junk", 0)     /\ o = AnyObject(0, 0)
    \/ v = RuntimeValue("bool", TRUE)  /\ o = AnyObject(11, 1)
    \/ v = RuntimeValue("bool", FALSE) /\ o = AnyObject(11, 0)
    \/ v = RuntimeValue("float", 0)    /\ o = AnyObject(19, 0)
    \/ v = RuntimeValue("print", 0)    /\ o = AnyObject(5, 0)
    \/ v = RuntimeValue("function", 0) /\ o = AnyObject(9, 0)
    \/ \E n \in Int64 : v = RuntimeValue("integer", n) /\ o = AnyObject(15, n)

(* What the two of a pair look like.                                       *)
LEMMA TwinCases ==
    ASSUME NEW v, NEW o, <<v, o>> \in Twins
    PROVE  Alike(v, o)
<1>1. /\ JUNK = 0 /\ BOOL = 11 /\ FLOAT = 19 /\ INTEGER = 15
      /\ FunctionTag(4) = 5 /\ FunctionTag(8) = 9
  BY DEF JUNK, BOOL, FLOAT, INTEGER, FunctionTag
<1>2. CASE \E n \in Int64 : <<v, o>> = <<RuntimeValue("integer", n), AnyObject(INTEGER, n)>>
  BY <1>1, <1>2 DEF Alike
<1>3. CASE <<v, o>> \in {<<RuntimeValue("junk", 0), AnyObject(JUNK, 0)>>,
                         <<RuntimeValue("bool", TRUE), AnyObject(BOOL, 1)>>,
                         <<RuntimeValue("bool", FALSE), AnyObject(BOOL, 0)>>,
                         <<RuntimeValue("float", 0), AnyObject(FLOAT, 0)>>,
                         <<RuntimeValue("print", 0), AnyObject(FunctionTag(4), 0)>>,
                         <<RuntimeValue("function", 0), AnyObject(FunctionTag(8), 0)>>}
  BY <1>1, <1>3 DEF Alike
<1> QED
  BY <1>2, <1>3, Zenon DEF Twins

(* A value and its object are the same by the measure of LockStep.         *)
LEMMA TwinsAreSame ==
    ASSUME NEW v, NEW o, <<v, o>> \in Twins
    PROVE  Same(v, o)
<1>1. CASE v = RuntimeValue("bool", TRUE) /\ o = AnyObject(11, 1)
  BY <1>1 DEF Same, RuntimeValue, AnyObject, BOOL
<1>2. CASE v = RuntimeValue("bool", FALSE) /\ o = AnyObject(11, 0)
  BY <1>2 DEF Same, RuntimeValue, AnyObject, BOOL
<1>3. CASE \E n \in Int64 : v = RuntimeValue("integer", n) /\ o = AnyObject(15, n)
  BY <1>3 DEF Same, RuntimeValue, AnyObject, INTEGER
<1>4. CASE v = RuntimeValue("junk", 0) /\ o = AnyObject(0, 0)
  BY <1>4 DEF Same, RuntimeValue, AnyObject, JUNK
<1>5. CASE v = RuntimeValue("float", 0) /\ o = AnyObject(19, 0)
  BY <1>5 DEF Same, RuntimeValue, AnyObject, FLOAT
<1>6. CASE v = RuntimeValue("print", 0) /\ o = AnyObject(5, 0)
  BY <1>6 DEF Same, RuntimeValue, AnyObject, IsFunction
<1>7. CASE v = RuntimeValue("function", 0) /\ o = AnyObject(9, 0)
  BY <1>7 DEF Same, RuntimeValue, AnyObject, IsFunction
<1>8. Alike(v, o)
  BY TwinCases, Zenon
<1> QED
  BY <1>1, <1>2, <1>3, <1>4, <1>5, <1>6, <1>7, <1>8, Zenon DEF Alike

(* And they are printed the same.                                          *)
LEMMA TwinsPrintAlike ==
    ASSUME NEW v, NEW o, <<v, o>> \in Twins
    PROVE  EvalPrint(v) = PrintObject(o)
<1> USE DEF EvalPrint, PrintObject, RuntimeValue, AnyObject, TruthLine, IsFunction,
            JUNK, PRINT, BOOL, INTEGER, FLOAT
<1>1. CASE v = RuntimeValue("bool", TRUE) /\ o = AnyObject(11, 1)
  BY <1>1
<1>2. CASE v = RuntimeValue("bool", FALSE) /\ o = AnyObject(11, 0)
  BY <1>2
<1>3. CASE \E n \in Int64 : v = RuntimeValue("integer", n) /\ o = AnyObject(15, n)
  BY <1>3
<1>4. CASE v = RuntimeValue("junk", 0) /\ o = AnyObject(0, 0)
  BY <1>4
<1>5. CASE v = RuntimeValue("float", 0) /\ o = AnyObject(19, 0)
  BY <1>5
<1>6. CASE v = RuntimeValue("print", 0) /\ o = AnyObject(5, 0)
  BY <1>6
<1>7. CASE v = RuntimeValue("function", 0) /\ o = AnyObject(9, 0)
  BY <1>7
<1> HIDE DEF EvalPrint, PrintObject, RuntimeValue, AnyObject, TruthLine, IsFunction,
             JUNK, PRINT, BOOL, INTEGER, FLOAT
<1>8. Alike(v, o)
  BY TwinCases, Zenon
<1> QED
  BY <1>1, <1>2, <1>3, <1>4, <1>5, <1>6, <1>7, <1>8, Zenon DEF Alike

-----------------------------------------------------------------------------
(* Operators.                                                              *)

(* An operation on integers has one result at most.                        *)
LEMMA OneQuotient ==
    ASSUME NEW a, NEW b, NEW m \in Quotient(a, b), NEW n \in Quotient(a, b)
    PROVE  m = n
BY DEF Quotient, Exact

LEMMA OneRemainder ==
    ASSUME NEW a, NEW b, NEW m \in Remainder(a, b), NEW n \in Remainder(a, b)
    PROVE  m = n
BY OneQuotient DEF Remainder

LEMMA OneResult ==
    ASSUME NEW op \in Integral, NEW a, NEW b,
           NEW m \in Arithmetic(op, a, b), NEW n \in Arithmetic(op, a, b)
    PROVE  m = n /\ m \in Int64
<1>1. m \in Int64
  BY DEF Arithmetic
<1>2. m = n
  <2>1. CASE op \in {"<<", ">>"}
    BY <2>1 DEF Arithmetic, ShiftLeft, ShiftRight
  <2>2. CASE op = "/"
    BY <2>2, OneQuotient DEF Arithmetic
  <2>3. CASE op = "%"
    BY <2>3, OneRemainder DEF Arithmetic
  <2>4. CASE op \in {"*", "+", "-", "|", "&", "^"}
    BY <2>4 DEF Arithmetic
  <2> QED
    BY <2>1, <2>2, <2>3, <2>4 DEF Integral, Additive, Shifts
<1> QED
  BY <1>1, <1>2

(* The two tables say the same of which operators there are.               *)
LEMMA SameBinaries ==
    ASSUME NEW op \in Binaries, NEW v, NEW a, NEW w, NEW b,
           <<v, a>> \in Twins, <<w, b>> \in Twins
    PROVE  EvalHas(op, v, w) <=> BinopHas(op, a, b)
<1>1. /\ v.kind = "bool" <=> a.tag = BOOL
      /\ v.kind = "integer" <=> a.tag = INTEGER
      /\ v.kind = "float" <=> a.tag = FLOAT
  BY TwinCases DEF Alike, RuntimeValue, AnyObject, BOOL, INTEGER, FLOAT
<1>2. /\ w.kind = "bool" <=> b.tag = BOOL
      /\ w.kind = "integer" <=> b.tag = INTEGER
      /\ w.kind = "float" <=> b.tag = FLOAT
  BY TwinCases DEF Alike, RuntimeValue, AnyObject, BOOL, INTEGER, FLOAT
<1> QED
  BY <1>1, <1>2 DEF EvalHas, BinopHas

LEMMA SameUnaries ==
    ASSUME NEW op \in Unaries, NEW v, NEW a, <<v, a>> \in Twins
    PROVE  EvalHasUnary(op, v) <=> UnopHas(op, a)
<1>1. /\ v.kind = "bool" <=> a.tag = BOOL
      /\ v.kind = "integer" <=> a.tag = INTEGER
      /\ v.kind = "float" <=> a.tag = FLOAT
  BY TwinCases DEF Alike, RuntimeValue, AnyObject, BOOL, INTEGER, FLOAT
<1> QED
  BY <1>1 DEF EvalHasUnary, UnopHas

(* Results that are twins, and none for one only if there is none for the  *)
(* other.                                                                  *)
TwinResults(values, results) ==
    /\ values = {} <=> results = {}
    /\ \A v \in values, o \in results : <<v, o>> \in Twins

LEMMA JunkTwins == <<RuntimeValue("junk", 0), AnyObject(JUNK, 0)>> \in Twins
BY DEF Twins

LEMMA TruthTwins ==
    ASSUME NEW t \in BOOLEAN
    PROVE  TwinResults({RuntimeValue("bool", t)}, {AnyObject(BOOL, IF t THEN 1 ELSE 0)})
<1>1. CASE t = TRUE
  <2>1. <<RuntimeValue("bool", TRUE), AnyObject(BOOL, 1)>> \in Twins
    BY DEF Twins
  <2> QED
    BY <1>1, <2>1 DEF TwinResults
<1>2. CASE t = FALSE
  <2>1. <<RuntimeValue("bool", FALSE), AnyObject(BOOL, 0)>> \in Twins
    BY DEF Twins
  <2> QED
    BY <1>2, <2>1 DEF TwinResults
<1> QED
  BY <1>1, <1>2

LEMMA IntegerTwins ==
    ASSUME NEW S \in SUBSET Int64, \A m, n \in S : m = n
    PROVE  TwinResults({RuntimeValue("integer", n) : n \in S},
                       {AnyObject(INTEGER, n) : n \in S})
<1>1. \A n \in S : <<RuntimeValue("integer", n), AnyObject(INTEGER, n)>> \in Twins
  BY DEF Twins
<1> QED
  BY <1>1 DEF TwinResults

LEMMA HoldsOrNot ==
    ASSUME NEW op \in Compare, NEW m, NEW n
    PROVE  Holds(op, m, n) \in BOOLEAN
<1>1. CASE op = "<"
  BY <1>1 DEF Holds
<1>2. CASE op = "<="
  BY <1>2 DEF Holds
<1>3. CASE op = ">"
  BY <1>3 DEF Holds
<1>4. CASE op = ">="
  BY <1>4 DEF Holds
<1>5. CASE op = "=="
  BY <1>5 DEF Holds
<1>6. CASE op = "!="
  BY <1>6 DEF Holds
<1> QED
  BY <1>1, <1>2, <1>3, <1>4, <1>5, <1>6 DEF Compare

LEMMA BoolTwin ==
    ASSUME NEW v, NEW a, Alike(v, a), v.kind = "bool"
    PROVE  \E s \in BOOLEAN : v = RuntimeValue("bool", s)
                             /\ a = AnyObject(BOOL, IF s THEN 1 ELSE 0)
<1>1. \/ v = RuntimeValue("bool", TRUE) /\ a = AnyObject(BOOL, 1)
      \/ v = RuntimeValue("bool", FALSE) /\ a = AnyObject(BOOL, 0)
  BY DEF Alike, RuntimeValue, BOOL
<1>2. CASE v = RuntimeValue("bool", TRUE) /\ a = AnyObject(BOOL, 1)
  <2>1. AnyObject(BOOL, IF TRUE THEN 1 ELSE 0) = AnyObject(BOOL, 1)
    OBVIOUS
  <2> WITNESS TRUE \in BOOLEAN
  <2> QED
    BY <1>2, <2>1
<1>3. CASE v = RuntimeValue("bool", FALSE) /\ a = AnyObject(BOOL, 0)
  <2>1. AnyObject(BOOL, IF FALSE THEN 1 ELSE 0) = AnyObject(BOOL, 0)
    OBVIOUS
  <2> WITNESS FALSE \in BOOLEAN
  <2> QED
    BY <1>3, <2>1
<1> QED
  BY <1>1, <1>2, <1>3

(* The operands an operator with two is defined for.                       *)
LEMMA BinaryTwins ==
    ASSUME NEW op \in Binaries, NEW truth \in BOOLEAN, NEW v, NEW a, NEW w, NEW b,
           <<v, a>> \in Twins, <<w, b>> \in Twins, EvalHas(op, v, w)
    PROVE  TwinResults(EvalBinary(op, v, w, truth), Binop(op, a, b, truth))
<1>1. Alike(v, a) /\ Alike(w, b)
  BY TwinCases, Zenon
<1>2. CASE v.kind = "bool"
  <2>1. PICK s \in BOOLEAN : v = RuntimeValue("bool", s)
                             /\ a = AnyObject(BOOL, IF s THEN 1 ELSE 0)
    BY <1>1, <1>2, BoolTwin
  <2>2. PICK t \in BOOLEAN : w = RuntimeValue("bool", t)
                             /\ b = AnyObject(BOOL, IF t THEN 1 ELSE 0)
    <3>1. w.kind = "bool"
      BY <1>2 DEF EvalHas
    <3> QED
      BY <1>1, <3>1, BoolTwin
  <2>3. op \in {"and", "or"}
    BY <1>2 DEF EvalHas, Booleans
  <2> DEFINE u == IF op = "and" THEN s /\ t ELSE s \/ t
  <2>4. u \in BOOLEAN
    OBVIOUS
  <2>5. EvalBinary(op, v, w, truth) = {RuntimeValue("bool", u)}
    BY <1>2, <2>1, <2>2 DEF EvalBinary, RuntimeValue
  <2>6. Binop(op, a, b, truth) = {AnyObject(BOOL, IF u THEN 1 ELSE 0)}
    <3>1. a.tag = BOOL /\ a.data = (IF s THEN 1 ELSE 0) /\ b.data = (IF t THEN 1 ELSE 0)
      BY <2>1, <2>2 DEF AnyObject
    <3>2. BitAnd(a.data, b.data) = IF s /\ t THEN 1 ELSE 0
      BY <3>1, BitAssumption
    <3>3. BitOr(a.data, b.data) = IF s \/ t THEN 1 ELSE 0
      BY <3>1, BitAssumption
    <3> QED
      BY <2>3, <3>1, <3>2, <3>3 DEF Binop
  <2> HIDE DEF u
  <2> QED
    BY <2>4, <2>5, <2>6, TruthTwins
<1>3. CASE v.kind = "float"
  <2>1. v = RuntimeValue("float", 0) /\ a = AnyObject(FLOAT, 0)
    BY <1>1, <1>3 DEF Alike, RuntimeValue, FLOAT
  <2>2. <<v, a>> \in Twins
    OBVIOUS
  <2>3. a.tag = FLOAT /\ FLOAT # BOOL
    BY <2>1 DEF AnyObject, FLOAT, BOOL
  <2>4. CASE op \in Compare
    <3>1. EvalBinary(op, v, w, truth) = {RuntimeValue("bool", truth)}
      BY <1>3, <2>4 DEF EvalBinary
    <3>2. Binop(op, a, b, truth) = {AnyObject(BOOL, IF truth THEN 1 ELSE 0)}
      BY <2>3, <2>4 DEF Binop
    <3> QED
      BY <3>1, <3>2, TruthTwins
  <2>5. CASE op \notin Compare
    <3>1. EvalBinary(op, v, w, truth) = {v} /\ Binop(op, a, b, truth) = {a}
      BY <1>3, <2>3, <2>5 DEF EvalBinary, Binop
    <3> QED
      BY <3>1, <2>2 DEF TwinResults
  <2> QED
    BY <2>4, <2>5
<1>4. CASE v.kind = "integer"
  <2>1. PICK m \in Int64 : v = RuntimeValue("integer", m) /\ a = AnyObject(INTEGER, m)
    BY <1>1, <1>4 DEF Alike, RuntimeValue, AnyObject, INTEGER
  <2>2. PICK n \in Int64 : w = RuntimeValue("integer", n) /\ b = AnyObject(INTEGER, n)
    <3>1. w.kind = "integer"
      BY <1>4 DEF EvalHas
    <3> QED
      BY <1>1, <3>1 DEF Alike, RuntimeValue, INTEGER
  <2>3. v.bits = m /\ w.bits = n /\ a.data = m /\ b.data = n /\ a.tag = INTEGER
    BY <2>1, <2>2 DEF RuntimeValue, AnyObject
  <2>4. INTEGER # BOOL /\ INTEGER # FLOAT
    BY DEF INTEGER, BOOL, FLOAT
  <2>5. CASE op \in Compare
    <3>1. EvalBinary(op, v, w, truth) = {RuntimeValue("bool", Holds(op, m, n))}
      BY <1>4, <2>3, <2>5 DEF EvalBinary
    <3>2. Binop(op, a, b, truth) = {AnyObject(BOOL, IF Holds(op, m, n) THEN 1 ELSE 0)}
      BY <2>3, <2>4, <2>5 DEF Binop
    <3>3. PICK t \in BOOLEAN : t = Holds(op, m, n)
      BY <2>5, HoldsOrNot
    <3> QED
      BY <3>1, <3>2, <3>3, TruthTwins
  <2>6. CASE op \notin Compare
    <3>1. op \in Integral
      BY <1>4, <2>6 DEF EvalHas
    <3>2. EvalBinary(op, v, w, truth) = {RuntimeValue("integer", k) : k \in Arithmetic(op, m, n)}
      BY <1>4, <2>3, <2>6 DEF EvalBinary
    <3>3. Binop(op, a, b, truth) = {AnyObject(INTEGER, k) : k \in Arithmetic(op, m, n)}
      BY <2>3, <2>4, <2>6 DEF Binop
    <3>4. /\ Arithmetic(op, m, n) \in SUBSET Int64
          /\ \A i, j \in Arithmetic(op, m, n) : i = j
      BY <3>1, OneResult
    <3> QED
      BY <3>2, <3>3, <3>4, IntegerTwins
  <2> QED
    BY <2>5, <2>6
<1> QED
  BY <1>2, <1>3, <1>4 DEF EvalHas

LEMMA UnaryTwins ==
    ASSUME NEW op \in Unaries, NEW v, NEW a, <<v, a>> \in Twins, EvalHasUnary(op, v)
    PROVE  TwinResults(EvalUnary(op, v), Unop(op, a))
<1>1. Alike(v, a)
  BY TwinCases, Zenon
<1>2. CASE v.kind = "bool"
  <2>1. PICK s \in BOOLEAN : v = RuntimeValue("bool", s)
                             /\ a = AnyObject(BOOL, IF s THEN 1 ELSE 0)
    BY <1>1, <1>2, BoolTwin
  <2>2. PICK t \in BOOLEAN : t = ~s
    OBVIOUS
  <2>3. EvalUnary(op, v) = {RuntimeValue("bool", t)}
    BY <2>1, <2>2 DEF EvalUnary, RuntimeValue
  <2>4. Unop(op, a) = {AnyObject(BOOL, IF t THEN 1 ELSE 0)}
    <3>1. a.tag = BOOL /\ a.data = IF s THEN 1 ELSE 0
      BY <2>1 DEF AnyObject
    <3>2. (IF a.data # 0 THEN 0 ELSE 1) = IF t THEN 1 ELSE 0
      BY <2>2, <3>1
    <3>3. Unop(op, a) = {AnyObject(BOOL, IF a.data # 0 THEN 0 ELSE 1)}
      BY <3>1 DEF Unop, BOOL, INTEGER, FLOAT
    <3> QED
      BY <3>2, <3>3
  <2> QED
    BY <2>3, <2>4, TruthTwins
<1>3. CASE v.kind = "float"
  <2>1. v = RuntimeValue("float", 0) /\ a = AnyObject(FLOAT, 0)
    BY <1>1, <1>3 DEF Alike, RuntimeValue, FLOAT
  <2>2. EvalUnary(op, v) = {v}
    BY <2>1 DEF EvalUnary, RuntimeValue
  <2>3. Unop(op, a) = {a}
    BY <2>1 DEF Unop, AnyObject, FLOAT, BOOL, INTEGER
  <2> QED
    BY <2>2, <2>3 DEF TwinResults
<1>4. CASE v.kind = "integer"
  <2>1. PICK m \in Int64 : v = RuntimeValue("integer", m) /\ a = AnyObject(INTEGER, m)
    BY <1>1, <1>4 DEF Alike, RuntimeValue, AnyObject, INTEGER
  <2>2. op \in {"+", "-", "~"}
    BY <1>4 DEF EvalHasUnary
  <2>3. EvalUnary(op, v) = {RuntimeValue("integer", k) : k \in Prefixed(op, m)}
    BY <2>1 DEF EvalUnary, RuntimeValue
  <2>4. Unop(op, a) = {AnyObject(INTEGER, k) : k \in Prefixed(op, m)}
    <3>1. a.tag = INTEGER /\ a.data = m
      BY <2>1 DEF AnyObject
    <3> QED
      BY <3>1 DEF Unop, BOOL, INTEGER, FLOAT
  <2>5. /\ Prefixed(op, m) \in SUBSET Int64
        /\ \A i, j \in Prefixed(op, m) : i = j
    BY <2>2 DEF Prefixed
  <2> QED
    BY <2>3, <2>4, <2>5, IntegerTwins
<1> QED
  BY <1>2, <1>3, <1>4 DEF EvalHasUnary

-----------------------------------------------------------------------------
(* Steps.                                                                  *)

(* What replaces the last operands of both stacks keeps them aligned.      *)
LEMMA ReplaceAligns ==
    ASSUME Aligned(operands, objects), NEW n \in {0, 1, 2}, n <= Len(operands),
           NEW values, NEW results, TwinResults(values, results), values # {},
           Replace(n, values, results)
    PROVE  Aligned(operands', objects')
<1>1. results # {}
  BY DEF TwinResults
<1>2. PICK v \in values : operands' = Append(SubSeq(operands, 1, Len(operands) - n), v)
  BY DEF Replace, Replaced
<1>3. PICK o \in results : objects' = Append(SubSeq(objects, 1, Len(objects) - n), o)
  BY <1>1 DEF Replace, Replaced
<1>4. <<v, o>> \in Twins
  BY DEF TwinResults
<1>5. v \in Values /\ o \in Objects
  <2>1. <<v, o>>[1] = v /\ <<v, o>>[2] = o
    OBVIOUS
  <2> QED
    BY <1>4, <2>1 DEF Values, Objects
<1>6. operands \in Seq(Values) /\ objects \in Seq(Objects) /\ Len(operands) = Len(objects)
  BY DEF Aligned
<1>7. /\ operands' \in Seq(Values) /\ objects' \in Seq(Objects)
      /\ Len(operands') = Len(operands) - n + 1 /\ Len(objects') = Len(operands) - n + 1
  BY <1>2, <1>3, <1>5, <1>6
<1>8. ASSUME NEW i \in 1 .. Len(operands')
      PROVE  <<operands'[i], objects'[i]>> \in Twins
  <2>1. CASE i = Len(operands')
    <3>1. operands'[i] = v /\ objects'[i] = o
      BY <1>2, <1>3, <1>5, <1>6, <1>7, <2>1
    <3> QED
      BY <1>4, <3>1
  <2>2. CASE i # Len(operands')
    <3>1. i \in 1 .. Len(operands) - n
      BY <1>6, <1>7, <2>2
    <3>2. operands'[i] = operands[i] /\ objects'[i] = objects[i]
      BY <1>2, <1>3, <1>5, <1>6, <3>1
    <3> QED
      BY <1>6, <3>1, <3>2 DEF Aligned
  <2> QED
    BY <2>1, <2>2
<1> QED
  BY <1>7, <1>8 DEF Aligned

(* The operands of an expression are twins.                                *)
LEMMA LastTwins ==
    ASSUME Aligned(operands, objects), Len(operands) >= 1
    PROVE  <<operands[Len(operands)], objects[Len(objects)]>> \in Twins
BY DEF Aligned

LEMMA FirstTwins ==
    ASSUME Aligned(operands, objects), Len(operands) >= 2
    PROVE  <<operands[Len(operands) - 1], objects[Len(objects) - 1]>> \in Twins
BY DEF Aligned

(* What both make of an operator that is defined for both or for none.     *)
LEMMA FareAlike ==
    ASSUME NEW n \in {0, 1, 2}, Running, Aligned(operands, objects), n <= Len(operands),
           NEW has \in BOOLEAN, NEW values, NEW results, TwinResults(values, results),
           interpreter' = Fares(has, values, "error"),
           compiled' = Fares(has, results, "abort"),
           Replace(n, values, results),
           ~has => values = {},
           printed' = [interpreter |-> <<>>, compiled |-> <<>>]
    PROVE  StepInv'
<1>1. Agree'
  BY DEF Agree, Fares, TwinResults
<1>2. Running' => Aligned(operands, objects)'
  <2> SUFFICES ASSUME Running' PROVE Aligned(operands', objects')
    BY DEF Aligned
  <2>1. values # {}
    BY DEF Running, Fares
  <2> QED
    BY <2>1, ReplaceAligns
<1> QED
  BY <1>1, <1>2 DEF StepInv

LEMMA InitStepInv == Init => StepInv
<1> SUFFICES ASSUME Init PROVE StepInv
  OBVIOUS
<1>1. Aligned(operands, objects)
  BY DEF Init, Aligned
<1> QED
  BY <1>1 DEF Init, StepInv, Agree

LEMMA PushKeeps ==
    ASSUME StepInv, NEW operand \in Operand, Push(operand)
    PROVE  StepInv'
<1>1. <<operand[1], operand[2]>> \in Twins
  <2>1. operand \in Twins
    BY DEF Operand, Twins
  <2>2. \E v, o : operand = <<v, o>>
    BY Zenon DEF Operand
  <2> QED
    BY <2>1, <2>2
<1>2. TwinResults({operand[1]}, {operand[2]})
  BY <1>1 DEF TwinResults
<1>3. Aligned(operands, objects)
  BY DEF Push, StepInv
<1>4. Len(operands) \in Nat
  BY <1>3 DEF Aligned
<1>5. Aligned(operands', objects')
  BY <1>2, <1>3, <1>4, ReplaceAligns DEF Push
<1> QED
  BY <1>5 DEF Push, StepInv, Agree, Running, Aligned

LEMMA BinaryKeeps ==
    ASSUME StepInv, NEW op \in Binaries, NEW truth \in BOOLEAN, BinaryExpr(op, truth)
    PROVE  StepInv'
<1> DEFINE lhs == operands[Len(operands) - 1]
           rhs == operands[Len(operands)]
           a   == objects[Len(objects) - 1]
           b   == objects[Len(objects)]
           values  == IF EvalHas(op, lhs, rhs) THEN EvalBinary(op, lhs, rhs, truth) ELSE {}
           results == IF BinopHas(op, a, b) THEN Binop(op, a, b, truth) ELSE {}
<1>1. Running /\ Aligned(operands, objects) /\ Len(operands) >= 2
  BY DEF BinaryExpr, StepInv
<1>2. <<lhs, a>> \in Twins /\ <<rhs, b>> \in Twins
  BY <1>1, LastTwins, FirstTwins DEF Aligned
<1>3. /\ interpreter' = Fares(EvalHas(op, lhs, rhs), values, "error")
      /\ compiled' = Fares(BinopHas(op, a, b), results, "abort")
      /\ Replace(2, values, results)
      /\ printed' = [interpreter |-> <<>>, compiled |-> <<>>]
  BY DEF BinaryExpr
<1> HIDE DEF lhs, rhs, a, b
<1>4. EvalHas(op, lhs, rhs) <=> BinopHas(op, a, b)
  BY <1>2, SameBinaries
<1>5. TwinResults(values, results)
  <2>1. CASE EvalHas(op, lhs, rhs)
    BY <1>2, <1>4, <2>1, BinaryTwins
  <2>2. CASE ~ EvalHas(op, lhs, rhs)
    BY <1>4, <2>2 DEF TwinResults
  <2> QED
    BY <2>1, <2>2
<1>6. ~ EvalHas(op, lhs, rhs) => values = {}
  OBVIOUS
<1> HIDE DEF values, results
<1>7. PICK has \in BOOLEAN : has = EvalHas(op, lhs, rhs)
  BY DEF EvalHas
<1>8. /\ interpreter' = Fares(has, values, "error")
      /\ compiled' = Fares(has, results, "abort")
  BY <1>3, <1>4, <1>7 DEF Fares
<1>9. ~ has => values = {}
  BY <1>6, <1>7
<1> QED
  BY <1>1, <1>3, <1>5, <1>8, <1>9, FareAlike

LEMMA UnaryKeeps ==
    ASSUME StepInv, NEW op \in Unaries, UnaryExpr(op)
    PROVE  StepInv'
<1> DEFINE value == operands[Len(operands)]
           a     == objects[Len(objects)]
           values  == IF EvalHasUnary(op, value) THEN EvalUnary(op, value) ELSE {}
           results == IF UnopHas(op, a) THEN Unop(op, a) ELSE {}
<1>1. Running /\ Aligned(operands, objects) /\ Len(operands) >= 1
  BY DEF UnaryExpr, StepInv
<1>2. <<value, a>> \in Twins
  BY <1>1, LastTwins
<1>3. /\ interpreter' = Fares(EvalHasUnary(op, value), values, "error")
      /\ compiled' = Fares(UnopHas(op, a), results, "abort")
      /\ Replace(1, values, results)
      /\ printed' = [interpreter |-> <<>>, compiled |-> <<>>]
  BY DEF UnaryExpr
<1> HIDE DEF value, a
<1>4. EvalHasUnary(op, value) <=> UnopHas(op, a)
  BY <1>2, SameUnaries
<1>5. TwinResults(values, results)
  <2>1. CASE EvalHasUnary(op, value)
    BY <1>2, <1>4, <2>1, UnaryTwins
  <2>2. CASE ~ EvalHasUnary(op, value)
    BY <1>4, <2>2 DEF TwinResults
  <2> QED
    BY <2>1, <2>2
<1>6. ~ EvalHasUnary(op, value) => values = {}
  OBVIOUS
<1> HIDE DEF values, results
<1>7. PICK has \in BOOLEAN : has = EvalHasUnary(op, value)
  BY DEF EvalHasUnary
<1>8. /\ interpreter' = Fares(has, values, "error")
      /\ compiled' = Fares(has, results, "abort")
  BY <1>3, <1>4, <1>7 DEF Fares
<1>9. ~ has => values = {}
  BY <1>6, <1>7
<1> QED
  BY <1>1, <1>3, <1>5, <1>8, <1>9, FareAlike

LEMMA PrintKeeps ==
    ASSUME StepInv, PrintExpr
    PROVE  StepInv'
<1>1. Aligned(operands, objects) /\ Len(operands) >= 1
  BY DEF PrintExpr, StepInv
<1>2. printed'.interpreter = printed'.compiled
  BY <1>1, LastTwins, TwinsPrintAlike DEF PrintExpr
<1>3. TwinResults({RuntimeValue("junk", 0)}, {AnyObject(JUNK, 0)})
  BY JunkTwins DEF TwinResults
<1>4. Aligned(operands', objects')
  BY <1>1, <1>3, ReplaceAligns DEF PrintExpr
<1> QED
  BY <1>2, <1>4 DEF PrintExpr, StepInv, Agree, Running, Aligned

LEMMA NextStepInv == StepInv /\ [Next]_vars => StepInv'
<1> SUFFICES ASSUME StepInv, [Next]_vars PROVE StepInv'
  OBVIOUS
<1>1. CASE \E operand \in Operand : Push(operand)
  BY <1>1, PushKeeps
<1>2. CASE \E op \in Binaries, truth \in BOOLEAN : BinaryExpr(op, truth)
  BY <1>2, BinaryKeeps
<1>3. CASE \E op \in Unaries : UnaryExpr(op)
  BY <1>3, UnaryKeeps
<1>4. CASE PrintExpr
  BY <1>4, PrintKeeps
<1>5. CASE UNCHANGED vars
  BY <1>5 DEF vars, StepInv, Agree, Running, Aligned
<1> QED
  BY <1>1, <1>2, <1>3, <1>4, <1>5 DEF Next

LEMMA StepInvInvariant == Spec => []StepInv
BY InitStepInv, NextStepInv, PTL DEF Spec

(* For integers of every width and expressions of every depth, on the      *)
(* defined operands of each operator: interpreted and compiled, an         *)
(* expression has the same value, fails together or has none together      *)
(* (eval.c:592-720, cocodol_rt.c:77-307).                                  *)
THEOREM OperatorsInStep == Spec => []LockStep
<1>1. StepInv => LockStep
  <2> SUFFICES ASSUME StepInv PROVE LockStep
    OBVIOUS
  <2>1. ASSUME Running, NEW i \in 1 .. Len(operands)
        PROVE  Same(operands[i], objects[i])
    BY <2>1, TwinsAreSame DEF StepInv, Aligned
  <2> QED
    BY <2>1 DEF StepInv, Agree, Aligned, LockStep
<1> QED
  BY <1>1, StepInvInvariant, PTL

(* And print shows the same of both (eval.c:286, cocodol_rt.c:45).         *)
THEOREM PrintInStep == Spec => []PrintsAlike
<1>1. StepInv => PrintsAlike
  BY DEF StepInv, PrintsAlike
<1> QED
  BY <1>1, StepInvInvariant, PTL
=============================================================================
