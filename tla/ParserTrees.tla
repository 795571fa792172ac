----------------------------- MODULE ParserTrees -----------------------------
(***************************************************************************)
(* What the trees of Parser say of the source: the properties that follow  *)
(* a tree down to its leaves.                                              *)
(***************************************************************************)
EXTENDS Parser, SequencesExt

(* A node is written in parts: a child, a token it keeps, or a token that  *)
(* its kind tells.  A token that is missing, and the word "end" of other   *)
(* parts, is none of the source.                                           *)
Kid(id)    == [kid |-> id, tok |-> 0, word |-> "end"]
Tok(t)     == [kid |-> 0, tok |-> t, word |-> "end"]
Word(kind) == [kid |-> 0, tok |-> 0, word |-> kind]

KidParts(ids) == [i \in DOMAIN ids |-> Kid(ids[i])]
TokParts(ts)  == [i \in DOMAIN ts |-> Tok(ts[i])]

Parts(u) ==
    LET kids == KidParts(u.kids)
        tok  == Tok(u.toks[1])
    IN  CASE u.kind = "var" -> <<Word("var"), tok>> \o
                               (IF kids = <<>> THEN <<>> ELSE <<Word("assign"), kids[1]>>)
          [] u.kind = "fun" -> <<Word("fun"), tok, Word("l_paren")>> \o TokParts(Tail(u.toks))
                               \o <<Word("r_paren")>> \o kids
          [] u.kind = "obj" -> <<Word("obj"), tok>> \o kids
          [] u.kind \in {"literal", "name"} -> <<tok>>
          [] u.kind = "unary"  -> <<tok, kids[1]>>
          [] u.kind = "binary" -> <<kids[1], tok, kids[2]>>
          [] u.kind = "paren"  -> <<Word("l_paren"), kids[1], Word("r_paren")>>
          [] u.kind = "member" -> <<kids[1], Word("dot"), tok>>
          [] u.kind = "apply"  -> <<kids[1], Word("l_paren")>> \o Tail(kids)
                                  \o <<Word("r_paren")>>
          [] u.kind = "brace"  -> <<Word("l_brace")>> \o kids \o <<Word("r_brace")>>
          [] u.kind = "if"     -> <<Word("if"), kids[1], kids[2]>> \o
                                  (IF Len(kids) = 2 THEN <<>> ELSE <<Word("else"), kids[3]>>)
          [] u.kind \in {"while", "ret", "brk", "nxt"} -> <<Word(u.kind)>> \o kids
          [] u.kind \in {"expr_stmt", "top"} -> kids
          [] OTHER -> <<Tok(0)>>

(* The place of the first token from the i-th on that a tree tells.        *)
Separators == {"semicolon", "comma"}
Place(i)   == Min({j \in i .. n : input[j].kind \notin Separators} \cup {n + 1})

(* Where reading a part at a place leads to, 0 if it is not there, and     *)
(* where reading parts one after the other leads to.                       *)
AfterPart(read, part, p) ==
    IF part.kid # 0 THEN read[part.kid, p]
    ELSE IF p \in 1 .. n /\ (part.tok = p \/ part.word = input[p].kind) THEN Place(p + 1)
    ELSE 0

AfterParts(read, parts, p) ==
    LET after[k \in 0 .. Len(parts)] ==
          IF k = 0 THEN p ELSE AfterPart(read, parts[k], after[k - 1])
    IN  after[Len(parts)]

(* Reading trees at places.                                                *)
Reading(ns) ==
    LET read[id \in DOMAIN ns, p \in 0 .. n + 1] == AfterParts(read, Parts(ns[id]), p)
    IN  read

(* The declarations in the tree below a node, but not in a block below it. *)
Own(ns, under, id) ==
    IF ns[id].kind = "brace" THEN {}
    ELSE under[id] \cup (IF ns[id].kind \in DeclKinds THEN {id} ELSE {})

DeclsUnder(ns) ==
    LET under[id \in DOMAIN ns] == UNION {Own(ns, under, kid) : kid \in ToSet(ns[id].kids)}
    IN  under

(* What a node ends with is the operand of a prefix operator.              *)
EndsInPrefix(ns) ==
    LET ends[id \in DOMAIN ns] ==
          \/ ns[id].kind = "unary"
          \/ ns[id].kind = "binary" /\ ends[ns[id].kids[2]]
    IN  ends

-----------------------------------------------------------------------------
(* Properties.                                                             *)

(* Each block lists exactly the declarations for which it is the innermost *)
(* block, the last one first: what capture_set reads (parser.c 178, 242).  *)
BlocksKnowDecls ==
    outcome = "done" =>
        \A id \in DOMAIN nodes :
            LET list == nodes[id].decls
            IN  nodes[id].kind = "brace" =>
                  /\ ToSet(list) = DeclsUnder(nodes)[id]
                  /\ \A i, j \in DOMAIN list : i < j => list[i] > list[j]

(* A source that is accepted without a report becomes the one tree the     *)
(* parser's rules ask for: the tree reads back as the source to its end,   *)
(* but for separators, so that nothing is dropped, invented or reordered,  *)
(* and a prefix operator takes all that follows it (parser.c 585): nothing *)
(* that ends in its operand is to the left of an infix operator.           *)
TreeOfSource ==
    outcome = "done" /\ ~reported =>
        /\ LET end == AfterParts(Reading(nodes), KidParts(decls), Place(1))
           IN  end = n + 1 \/ (end # 0 /\ input[end].kind = "eof")
        /\ \A id \in DOMAIN nodes :
              nodes[id].kind = "binary" => ~EndsInPrefix(nodes)[nodes[id].kids[1]]

=============================================================================
