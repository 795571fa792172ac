----------------------------- MODULE RuntimeOps -----------------------------
(***************************************************************************)
(* The operators of the language, as the interpreter (eval.c) and as the   *)
(* library of compiled programs (cocodol_rt.c) implement them.  Both       *)
(* evaluate the same expression, operand by operand: the interpreter on    *)
(* its value stack, the compiled program on the objects it has computed    *)
(* and not used yet.  An integer has Width bits.  What the digits of a     *)
(* float are is left out, and so is why two floats compare as they do.     *)
(***************************************************************************)
EXTENDS Integers, Sequences

CONSTANTS
    Width,    \* of an integer: 64
    Depth,    \* bound of the model: operands waiting for their operator
    BitAnd(_, _), BitOr(_, _), BitXor(_, _)    \* of the machine, on naturals

ASSUME SizeAssumption == Width \in Nat \ {0, 1} /\ Depth \in Nat

ASSUME BitAssumption ==
    \A a, b \in {0, 1} : /\ BitAnd(a, b) = IF a = 1 /\ b = 1 THEN 1 ELSE 0
                         /\ BitOr(a, b)  = IF a = 0 /\ b = 0 THEN 0 ELSE 1

Minimum == -(2 ^ (Width - 1))
Int64   == Minimum .. -Minimum - 1

Booleans == {"and", "or"}
Shifts   == {"<<", ">>"}
Compare  == {"<", "<=", ">", ">=", "==", "!="}
Additive == {"*", "/", "%", "+", "-"}
Integral == Additive \cup Shifts \cup {"|", "&", "^"}
Binaries == Booleans \cup Integral \cup Compare
Unaries  == {"+", "-", "~", "!"}

(* The tags of objects (_0); a function has its address and the bits 01.   *)
JUNK == 0
PRINT == 7
BOOL == 11
INTEGER == 15
FLOAT == 19
FunctionTag(address) == address + 1
IsFunction(tag)       == tag % 4 = 1

VARIABLES
    operands,     \* EvalState.value_stack
    objects,      \* the AnyObjects of the compiled program
    interpreter,  \* how the interpreter fares
    compiled,     \* how the compiled program fares
    printed       \* the lines the last step printed, of each

vars == <<operands, objects, interpreter, compiled, printed>>

RuntimeValue(kind, bits) == [kind |-> kind, bits |-> bits]
AnyObject(tag, data)     == [tag |-> tag, data |-> data]

-----------------------------------------------------------------------------
(* Integers of C.  An operation yields the set of its results: one, or     *)
(* none where the language gives it no meaning, as when it has no Int64.   *)

Abs(a) == IF a < 0 THEN -a ELSE a

Exact(n) == {n} \cap Int64

(* Division rounds towards zero.                                           *)
Quotient(a, b) ==
    IF b = 0 THEN {}
    ELSE Exact(IF (a < 0) = (b < 0) THEN Abs(a) \div Abs(b) ELSE -(Abs(a) \div Abs(b)))

Remainder(a, b)  == {a - b * q : q \in Quotient(a, b)}
ShiftLeft(a, b)  == IF a >= 0 /\ b \in 0 .. Width - 1 THEN {a * 2 ^ b} ELSE {}
ShiftRight(a, b) == IF b \in 0 .. Width - 1 THEN {a \div 2 ^ b} ELSE {}

Bits(a)   == a % 2 ^ Width
Signed(n) == IF n < 2 ^ (Width - 1) THEN n ELSE n - 2 ^ Width

Arithmetic(op, a, b) ==
    Int64 \cap
    CASE op = "<<" -> ShiftLeft(a, b)
      [] op = ">>" -> ShiftRight(a, b)
      [] op = "*"  -> {a * b}
      [] op = "/"  -> Quotient(a, b)
      [] op = "%"  -> Remainder(a, b)
      [] op = "+"  -> {a + b}
      [] op = "-"  -> {a - b}
      [] op = "|"  -> {Signed(BitOr(Bits(a), Bits(b)))}
      [] op = "&"  -> {Signed(BitAnd(Bits(a), Bits(b)))}
      [] op = "^"  -> {Signed(BitXor(Bits(a), Bits(b)))}

Holds(op, a, b) ==
    CASE op = "<"  -> a < b
      [] op = "<=" -> a <= b
      [] op = ">"  -> a > b
      [] op = ">=" -> a >= b
      [] op = "==" -> a = b
      [] op = "!=" -> a # b

Prefixed(op, a) ==
    Int64 \cap
    CASE op = "+" -> {a}
      [] op = "-" -> {-a}
      [] op = "~" -> {-a - 1}

-----------------------------------------------------------------------------
(* eval.c.                                                                 *)

(* Whether an operator is defined for operands of a kind (was_defined).    *)
EvalHas(op, lhs, rhs) ==
    /\ lhs.kind = rhs.kind
    /\ \/ lhs.kind = "integer" /\ op \in Integral \cup Compare
       \/ lhs.kind = "float"   /\ op \in Additive \cup Compare
       \/ lhs.kind = "bool"    /\ op \in Booleans

(* `truth` is what a comparison of floats comes to.                        *)
EvalBinary(op, lhs, rhs, truth) ==
    IF lhs.kind = "bool"
    THEN {RuntimeValue("bool", IF op = "and" THEN lhs.bits /\ rhs.bits
                                             ELSE lhs.bits \/ rhs.bits)}
    ELSE IF op \in Compare
    THEN {RuntimeValue("bool", IF lhs.kind = "float" THEN truth
                               ELSE Holds(op, lhs.bits, rhs.bits))}
    ELSE IF lhs.kind = "float" THEN {lhs}
    ELSE {RuntimeValue("integer", n) : n \in Arithmetic(op, lhs.bits, rhs.bits)}

EvalHasUnary(op, value) ==
    \/ value.kind = "integer" /\ op \in {"+", "-", "~"}
    \/ value.kind = "float"   /\ op \in {"+", "-"}
    \/ value.kind = "bool"    /\ op = "!"

EvalUnary(op, value) ==
    CASE value.kind = "integer" -> {RuntimeValue("integer", n) : n \in Prefixed(op, value.bits)}
      [] value.kind = "float"   -> {value}
      [] value.kind = "bool"    -> {RuntimeValue("bool", ~value.bits)}

EvalPrint(value) ==
    CASE value.kind = "junk"    -> <<<<"$junk">>>>
      [] value.kind = "bool"    -> IF value.bits THEN <<<<"true">>>> ELSE <<<<"false">>>>
      [] value.kind = "integer" -> <<<<"integer", value.bits>>>>
      [] value.kind = "float"   -> <<<<"float">>>>
      [] value.kind \in {"print", "function"} -> <<<<"$function">>>>

-----------------------------------------------------------------------------
(* cocodol_rt.c.                                                           *)

(* Mutant: the tag of the right operand is not looked at.                  *)
BinopHas_left(op, a, b) ==
    \/ a.tag = BOOL    /\ op \in Booleans
    \/ a.tag = INTEGER /\ op \in Integral \cup Compare
    \/ a.tag = FLOAT   /\ op \in Additive \cup Compare

(* Where _cocodol_binop does not abort.                                    *)
BinopHas(op, a, b) ==
    \/ a.tag = BOOL    /\ b.tag = BOOL    /\ op \in Booleans
    \/ a.tag = INTEGER /\ b.tag = INTEGER /\ op \in Integral \cup Compare
    \/ a.tag = FLOAT   /\ b.tag = FLOAT   /\ op \in Additive \cup Compare

(* Booleans are combined bit by bit.                                       *)
Binop(op, a, b, truth) ==
    IF a.tag = BOOL
    THEN {AnyObject(BOOL, IF op = "and" THEN BitAnd(a.data, b.data)
                                            ELSE BitOr(a.data, b.data))}
    ELSE IF op \in Compare
    THEN {AnyObject(BOOL, IF IF a.tag = FLOAT THEN truth ELSE Holds(op, a.data, b.data)
                          THEN 1 ELSE 0)}
    ELSE IF a.tag = FLOAT THEN {a}
    ELSE {AnyObject(INTEGER, n) : n \in Arithmetic(op, a.data, b.data)}

UnopHas(op, a) ==
    \/ a.tag = BOOL    /\ op = "!"
    \/ a.tag = INTEGER /\ op \in {"+", "-", "~"}
    \/ a.tag = FLOAT   /\ op \in {"+", "-"}

(* Mutant: a Boolean is negated bit by bit.                                *)
Unop_complement(op, a) ==
    CASE a.tag = BOOL    -> {AnyObject(BOOL, Bits(-a.data - 1))}
      [] a.tag = INTEGER -> {AnyObject(INTEGER, n) : n \in Prefixed(op, a.data)}
      [] a.tag = FLOAT   -> {a}

Unop(op, a) ==
    CASE a.tag = BOOL    -> {AnyObject(BOOL, IF a.data # 0 THEN 0 ELSE 1)}
      [] a.tag = INTEGER -> {AnyObject(INTEGER, n) : n \in Prefixed(op, a.data)}
      [] a.tag = FLOAT   -> {a}

TruthLine(data) == IF data # 0 THEN <<"true">> ELSE <<"false">>

(* The case of PRINT goes on into that of BOOL.                            *)
PrintObject(a) ==
    CASE a.tag = JUNK    -> <<<<"$junk">>>>
      [] a.tag = PRINT   -> <<<<"$function">>, TruthLine(a.data)>>
      [] a.tag = BOOL    -> <<TruthLine(a.data)>>
      [] a.tag = INTEGER -> <<<<"integer", a.data>>>>
      [] a.tag = FLOAT   -> <<<<"float">>>>
      [] OTHER -> IF IsFunction(a.tag) THEN <<<<"$function">>>> ELSE <<<<"$object">>>>

-----------------------------------------------------------------------------

(* Mutant: the built-in print has the tag that is reserved for it.         *)
Operand_print_tag ==
    {<<RuntimeValue("bool", TRUE), AnyObject(BOOL, 1)>>,
     <<RuntimeValue("print", 0), AnyObject(PRINT, 0)>>,
     <<RuntimeValue("function", 0), AnyObject(FunctionTag(8), 0)>>}

(* What a literal or a name puts among the operands, and the object the    *)
(* code generator makes of it.  The built-in print is a function object.   *)
Operand ==
    {<<RuntimeValue("junk", 0), AnyObject(JUNK, 0)>>,
     <<RuntimeValue("bool", TRUE), AnyObject(BOOL, 1)>>,
     <<RuntimeValue("bool", FALSE), AnyObject(BOOL, 0)>>,
     <<RuntimeValue("float", 0), AnyObject(FLOAT, 0)>>,
     <<RuntimeValue("print", 0), AnyObject(FunctionTag(4), 0)>>,
     <<RuntimeValue("function", 0), AnyObject(FunctionTag(8), 0)>>}
    \cup {<<RuntimeValue("integer", n), AnyObject(INTEGER, n)>> : n \in Int64 \cap Nat}

Running == interpreter = "running" /\ compiled = "running"

Fares(has, results, failure) ==
    IF ~has THEN failure ELSE IF results = {} THEN "undefined" ELSE "running"

(* Both replace the last n operands by a result, if each has one.          *)
Replaced(stack, n, results) ==
    IF results = {} THEN {stack}
    ELSE {Append(SubSeq(stack, 1, Len(stack) - n), r) : r \in results}
Replace(n, values, anyObjects) ==
    /\ operands' \in Replaced(operands, n, values)
    /\ objects'  \in Replaced(objects, n, anyObjects)

Init ==
    /\ operands = <<>> /\ objects = <<>>
    /\ interpreter = "running" /\ compiled = "running"
    /\ printed = [interpreter |-> <<>>, compiled |-> <<>>]

Push(operand) ==
    /\ Running /\ Len(operands) < Depth
    /\ Replace(0, {operand[1]}, {operand[2]})
    /\ printed' = [interpreter |-> <<>>, compiled |-> <<>>]
    /\ UNCHANGED <<interpreter, compiled>>

BinaryExpr(op, truth) ==
    LET lhs == operands[Len(operands) - 1]
        rhs == operands[Len(operands)]
        a   == objects[Len(objects) - 1]
        b   == objects[Len(objects)]
        has     == EvalHas(op, lhs, rhs)
        rtHas   == BinopHas(op, a, b)
        values  == IF has THEN EvalBinary(op, lhs, rhs, truth) ELSE {}
        results == IF rtHas THEN Binop(op, a, b, truth) ELSE {}
    IN  /\ Running /\ Len(operands) >= 2
        /\ interpreter' = Fares(has, values, "error")
        /\ compiled' = Fares(rtHas, results, "abort")
        /\ Replace(2, values, results)
        /\ printed' = [interpreter |-> <<>>, compiled |-> <<>>]

UnaryExpr(op) ==
    LET value == operands[Len(operands)]
        a     == objects[Len(objects)]
        has     == EvalHasUnary(op, value)
        rtHas   == UnopHas(op, a)
        values  == IF has THEN EvalUnary(op, value) ELSE {}
        results == IF rtHas THEN Unop(op, a) ELSE {}
    IN  /\ Running /\ Len(operands) >= 1
        /\ interpreter' = Fares(has, values, "error")
        /\ compiled' = Fares(rtHas, results, "abort")
        /\ Replace(1, values, results)
        /\ printed' = [interpreter |-> <<>>, compiled |-> <<>>]

(* A call of print on the last operand; its result is junk.                *)
PrintExpr ==
    /\ Running /\ Len(operands) >= 1
    /\ printed' = [interpreter |-> EvalPrint(operands[Len(operands)]),
                   compiled |-> PrintObject(objects[Len(objects)])]
    /\ Replace(1, {RuntimeValue("junk", 0)}, {AnyObject(JUNK, 0)})
    /\ UNCHANGED <<interpreter, compiled>>

Next ==
    \/ \E operand \in Operand : Push(operand)
    \/ \E op \in Binaries, truth \in BOOLEAN : BinaryExpr(op, truth)
    \/ \E op \in Unaries : UnaryExpr(op)
    \/ PrintExpr

Spec == Init /\ [][Next]_vars

-----------------------------------------------------------------------------

Same(value, object) ==
    CASE value.kind = "junk"    -> object.tag = JUNK
      [] value.kind = "bool"    -> object = AnyObject(BOOL, IF value.bits THEN 1 ELSE 0)
      [] value.kind = "integer" -> object = AnyObject(INTEGER, value.bits)
      [] value.kind = "float"   -> object.tag = FLOAT
      [] value.kind \in {"print", "function"} -> IsFunction(object.tag)

(* An expression has the same value interpreted and compiled: the two      *)
(* tables of operators, written apart, are defined for the same operands,  *)
(* yield the same, report an error or abort together, and leave the        *)
(* language's defined results together.                                    *)
LockStep ==
    /\ interpreter = "running" <=> compiled = "running"
    /\ interpreter = "undefined" <=> compiled = "undefined"
    /\ Running => /\ Len(operands) = Len(objects)
                  /\ \A i \in 1 .. Len(operands) : Same(operands[i], objects[i])

(* And is printed the same: the tags by which _cocodol_print tells objects *)
(* apart, and the one case that goes on into the next (cocodol_rt.c:52),   *)
(* show nothing of the difference.                                         *)
PrintsAlike == printed.interpreter = printed.compiled
=============================================================================
