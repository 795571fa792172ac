----------------------------- MODULE CaptureSet -----------------------------
(***************************************************************************)
(* capture_set (ast.c): the names a function uses and does not declare.    *)
(* eval.c copies their values into the environment of a function declared  *)
(* in a block.  The hash set of MAX_CAPTURE_COUNT (64) tokens is a set     *)
(* here; no program of the models has that many names.                     *)
(***************************************************************************)
EXTENDS Sequences, Integers

LOCAL Members(s) == {s[i] : i \in 1 .. Len(s)}

(* All the children node_walk visits when no visit returns false. *)
SubNodes(n) ==
    CASE n.kind \in {"top", "brace"}    -> Members(n.stmts)
      [] n.kind = "var"                 -> {n.init}
      [] n.kind \in {"unary", "paren"}  -> {n.subexpr}
      [] n.kind = "binary"              -> {n.lhs, n.rhs}
      [] n.kind = "apply"               -> {n.callee} \cup Members(n.args)
      [] n.kind \in {"expr_stmt", "ret"} -> {n.expr}
      [] n.kind = "if"                  -> {n.cond, n.then, n.else}
      [] n.kind = "while"               -> {n.cond, n.body}
      [] OTHER                          -> {}

(* The declarations the parser lists under a brace statement: those of its *)
(* statements, and those it finds in an `else` without braces.             *)
RECURSIVE Declares(_)
Declares(n) ==
    CASE n.kind \in {"var", "fun"} -> {n.name}
      [] n.kind = "if"             -> Declares(n.else)
      [] OTHER                     -> {}

Scope(brace) == UNION {Declares(s) : s \in Members(brace.stmts)}

(* The names referred to in n that are not among the local ones.  A name   *)
(* is local in all of the block that declares it, also before the          *)
(* declaration; a nested function contributes its own captures.            *)
RECURSIVE Escaping(_, _)
Escaping(n, local) ==
    CASE n.kind = "ref"   -> {n.name} \ local
      [] n.kind = "fun"   -> Escaping(n.body, Members(n.params) \cup {n.name}) \ local
      [] n.kind = "brace" -> UNION {Escaping(s, local \cup Scope(n)) : s \in SubNodes(n)}
      [] OTHER            -> UNION {Escaping(s, local) : s \in SubNodes(n)}

(* The parameters and the name of the function itself are local to it.     *)
Captures(f) == Escaping(f.body, Members(f.params) \cup {f.name})
=============================================================================
