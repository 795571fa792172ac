------------------------- MODULE ParserTrees_proofs -------------------------
(***************************************************************************)
(* Theorems about the trees of Parser, for every source: what its blocks   *)
(* know of the declarations below them.                                    *)
(***************************************************************************)
EXTENDS ParserTrees, Parser_proofs, WellFoundedInduction

-----------------------------------------------------------------------------
(* The inductive invariant.                                                *)

(* The nodes a call keeps: those in its list, and the one it parses.  What *)
(* has just been returned is in the hand of the innermost call.            *)
InList(c) ==
    IF c.at = "rhs" THEN {c.list[1]} ELSE IF c.at \in NodeLists THEN ToSet(c.list) ELSE {}

Kept(c) == InList(c) \cup ({c.node} \ {0})

Handed(at, r) == IF at \in Waiting THEN {r} ELSE {}

(* The block of what is parsed as a part of u.                             *)
HomeOf(ns, home, u) ==
    IF u = 0 THEN 0 ELSE IF ns[u].kind = "brace" THEN u ELSE home[u]

(* up[x] is the node that was being parsed when x was made, and home[x]    *)
(* the block: the children of a node were made as its parts, or they were  *)
(* made before it as parts of the same node.                               *)
Ups(ns, up, home) ==
    /\ up \in Seq(Nat) /\ Len(up) = Len(ns)
    /\ home \in Seq(Nat) /\ Len(home) = Len(ns)
    /\ \A x \in 1 .. Len(ns) :
         /\ up[x] < x /\ home[x] < x
         /\ home[x] = HomeOf(ns, home, up[x])
         /\ home[x] # 0 => ns[home[x]].kind = "brace"

PartOf(ns, up, x, p) ==
    \/ up[x] = p
    \/ up[x] = up[p] /\ x < p /\ ns[p].kind # "brace"

Parted(ns, up) ==
    \A p \in 1 .. Len(ns) : \A x \in ToSet(ns[p].kids) : PartOf(ns, up, x, p)

(* The declarations of a block.                                            *)
Below(ns, home, b) == {d \in 1 .. Len(ns) : ns[d].kind \in DeclKinds /\ home[d] = b}

Falls(s) == \A i, j \in DOMAIN s : i < j => s[i] > s[j]

BlockOK(ns, home, b) ==
    /\ Falls(ns[b].decls)
    /\ ns[b].kind = "brace" =>
         ns[b].outer = home[b] /\ ToSet(ns[b].decls) = Below(ns, home, b)

Nested(ns, up, home) ==
    /\ Ups(ns, up, home)
    /\ Parted(ns, up)
    /\ \A b \in 1 .. Len(ns) : BlockOK(ns, home, b)

(* h[i] is the node that the i-th call or the first one below it parses.   *)
StackOK(ns, up, cs, h, i) ==
    LET c == cs[i]
    IN  /\ h[i] = IF c.node # 0 THEN c.node ELSE h[i + 1]
        /\ c.node # 0 => /\ up[c.node] = h[i + 1] /\ c.node > h[i + 1]
                         /\ ns[c.node].kids = <<>>
                         /\ ns[c.node].kind = "brace" <=> c.at \in ListLabels
        /\ c.at \notin Owners \cup ListLabels => c.node = 0
        /\ \A x \in InList(c) : up[x] = h[i]

Stacked(ns, up, cs, r, h) ==
    /\ h \in Seq(Nat) /\ Len(h) = Len(cs) + 1 /\ h[Len(cs) + 1] = 0
    /\ \A i \in 1 .. Len(cs) + 1 : h[i] \in 0 .. Len(ns)
    /\ \A i, j \in 1 .. Len(cs) + 1 : i <= j => h[i] >= h[j]
    /\ \A i \in 1 .. Len(cs) : StackOK(ns, up, cs, h, i)
    /\ cs # <<>> => \A x \in Handed(cs[1].at, r) : up[x] = h[1]

(* Nothing is dropped: each node is a child of another, is kept or in the  *)
(* hand of a call, or is at the top.                                       *)
IsKid(ns, x) == \E p \in 1 .. Len(ns) : x \in ToSet(ns[p].kids)

Covered(ns, cs, r, ds) ==
    \A x \in 1 .. Len(ns) :
      \/ IsKid(ns, x)
      \/ \E i \in 1 .. Len(cs) : x \in Kept(cs[i])
      \/ cs # <<>> /\ x \in Handed(cs[1].at, r)
      \/ x \in ToSet(ds)

(* At the bottom are the statements of the source.                         *)
Bottomed(cs) ==
    /\ cs # <<>>
    /\ cs[Len(cs)].node = 0 /\ cs[Len(cs)].at \in ListLabels \cup {"run"}

(* What a postfix operator is applied to.                                  *)
PlainKinds == {"literal", "name", "paren", "member", "apply", "error"}
Plain(ns, cs, r) == cs # <<>> /\ cs[1].at = "postfix" => ns[r].kind \in PlainKinds

TreeOf(up, home, h) ==
    /\ Nested(nodes, up, home)
    /\ Stacked(nodes, up, calls, ret, h)
    /\ Covered(nodes, calls, ret, decls)
    /\ scope = HomeOf(nodes, home, h[1])
    /\ \A x \in ToSet(decls) : up[x] = 0
    /\ outcome = "run" => Bottomed(calls)
    /\ Plain(nodes, calls, ret)

Treed == \E up, home, h : TreeOf(up, home, h)

-----------------------------------------------------------------------------
(* The nodes.                                                              *)

(* What a sequence has is of its kind.                                     *)
LEMMA Elements ==
    ASSUME NEW S, NEW s \in Seq(S)
    PROVE  ToSet(s) \subseteq S
  BY ElementOfSeq, LenProperties DEF ToSet

(* The children of a node are nodes.                                       *)
LEMMA KidsAre ==
    ASSUME NEW ns, ns \in Seq(NodeType(Len(ns))), NEW p \in 1 .. Len(ns)
    PROVE  ns[p].kids \in Seq(1 .. Len(ns)) /\ \A x \in ToSet(ns[p].kids) : x \in 1 .. Len(ns)
<1>1. ns[p].kids \in Seq(1 .. Len(ns))
  BY NodeFields
<1> QED
  BY <1>1, Elements

(* A node changes in place, and it gets children.                          *)
LEMMA NestedSet ==
    ASSUME NEW ns, ns \in Seq(NodeType(Len(ns))), NEW up, NEW home, Nested(ns, up, home),
           NEW ns2, ns2 \in Seq(NodeType(Len(ns2))), Len(ns2) = Len(ns),
           NEW d \in 1 .. Len(ns),
           \A id \in 1 .. Len(ns) : id # d => ns2[id] = ns[id],
           ns2[d].outer = ns[d].outer, ns2[d].decls = ns[d].decls,
           ns2[d].kind = ns[d].kind \/ (ns[d].kind \in PlainKinds /\ ns2[d].kind = "error"),
           \A x \in ToSet(ns2[d].kids) : x \in ToSet(ns[d].kids) \/ up[x] = d
    PROVE  Nested(ns2, up, home)
<1>1. Len(ns) \in Nat /\ DOMAIN ns = 1 .. Len(ns)
  BY LenProperties
<1>2. \A id \in 1 .. Len(ns) :
        /\ ns2[id].kind = "brace" <=> ns[id].kind = "brace"
        /\ ns2[id].kind \in DeclKinds <=> ns[id].kind \in DeclKinds
        /\ ns2[id].outer = ns[id].outer /\ ns2[id].decls = ns[id].decls
  BY DEF PlainKinds, DeclKinds
<1>3. Ups(ns2, up, home)
  <2>1. \A x \in 1 .. Len(ns) : up[x] \in Nat /\ home[x] \in Nat
    BY <1>1 DEF Nested, Ups
  <2>2. \A x \in 1 .. Len(ns) : HomeOf(ns2, home, up[x]) = HomeOf(ns, home, up[x])
    BY <1>1, <1>2, <2>1, SMTT(30) DEF Nested, Ups, HomeOf
  <2>3. ASSUME NEW x \in 1 .. Len(ns), home[x] # 0
        PROVE  ns2[home[x]].kind = "brace"
    <3>1. home[x] < x /\ ns[home[x]].kind = "brace"
      BY <2>3 DEF Nested, Ups
    <3>2. home[x] \in 1 .. Len(ns)
      BY <1>1, <2>1, <2>3, <3>1
    <3> QED
      BY <1>2, <3>1, <3>2
  <2> QED
    BY <2>2, <2>3 DEF Nested, Ups
<1>4. Parted(ns2, up)
  <2> SUFFICES ASSUME NEW p \in 1 .. Len(ns), NEW x \in ToSet(ns2[p].kids)
               PROVE  PartOf(ns2, up, x, p)
    BY DEF Parted
  <2>1. CASE x \in ToSet(ns[p].kids)
    <3>1. PartOf(ns, up, x, p)
      BY <2>1 DEF Nested, Parted
    <3> QED
      BY <1>2, <3>1 DEF PartOf
  <2>2. CASE x \notin ToSet(ns[p].kids)
    BY <2>2 DEF PartOf
  <2> QED
    BY <2>1, <2>2
<1>5. ASSUME NEW b \in 1 .. Len(ns)
      PROVE  BlockOK(ns2, home, b)
  <2>1. Below(ns2, home, b) = Below(ns, home, b)
    BY <1>2 DEF Below
  <2> QED
    BY <1>2, <2>1 DEF Nested, BlockOK
<1> QED
  BY <1>3, <1>4, <1>5 DEF Nested

(* The same, in parts.                                                     *)
LEMMA NestedSame ==
    ASSUME NEW ns, ns \in Seq(NodeType(Len(ns))), NEW up, NEW home, Nested(ns, up, home),
           NEW ns2, ns2 \in Seq(NodeType(Len(ns2))), Len(ns2) = Len(ns),
           NEW d \in 1 .. Len(ns),
           \A id \in 1 .. Len(ns) : /\ ns2[id].kind = ns[id].kind
                                    /\ ns2[id].outer = ns[id].outer
                                    /\ ns2[id].decls = ns[id].decls
                                    /\ id # d => ns2[id].kids = ns[id].kids,
           \A x \in ToSet(ns2[d].kids) : x \in ToSet(ns[d].kids) \/ up[x] = d
    PROVE  Nested(ns2, up, home)
<1>1. Len(ns) \in Nat
  BY LenProperties
<1>2. Ups(ns2, up, home)
  <2>1. \A x \in 1 .. Len(ns) : home[x] \in Nat /\ up[x] \in Nat
    BY ElementOfSeq DEF Nested, Ups
  <2>2. ASSUME NEW x \in 1 .. Len(ns)
        PROVE  /\ HomeOf(ns2, home, up[x]) = HomeOf(ns, home, up[x])
               /\ home[x] # 0 => ns2[home[x]].kind = "brace"
    <3>1. up[x] < x /\ home[x] < x /\ (home[x] # 0 => ns[home[x]].kind = "brace")
      BY DEF Nested, Ups
    <3>2. up[x] \in 0 .. Len(ns) /\ home[x] \in 0 .. Len(ns)
      BY <1>1, <2>1, <3>1
    <3>3. HomeOf(ns2, home, up[x]) = HomeOf(ns, home, up[x])
      BY <1>1, <3>2 DEF HomeOf
    <3>4. home[x] # 0 => home[x] \in 1 .. Len(ns)
      BY <1>1, <3>2
    <3> QED
      BY <3>1, <3>3, <3>4
  <2> QED
    BY <2>2 DEF Nested, Ups
<1>3. Parted(ns2, up)
  <2> SUFFICES ASSUME NEW p \in 1 .. Len(ns), NEW x \in ToSet(ns2[p].kids)
               PROVE  PartOf(ns2, up, x, p)
    BY DEF Parted
  <2>1. CASE x \in ToSet(ns[p].kids)
    <3>1. PartOf(ns, up, x, p)
      BY <2>1 DEF Nested, Parted
    <3> QED
      BY <3>1 DEF PartOf
  <2>2. CASE x \notin ToSet(ns[p].kids)
    BY <2>2 DEF PartOf
  <2> QED
    BY <2>1, <2>2
<1>4. ASSUME NEW b \in 1 .. Len(ns)
      PROVE  BlockOK(ns2, home, b)
  <2>1. Below(ns2, home, b) = Below(ns, home, b)
    BY DEF Below
  <2> QED
    BY <2>1 DEF Nested, BlockOK
<1> QED
  BY <1>2, <1>3, <1>4 DEF Nested

(* What is appended comes last.                                            *)
LEMMA AppendTo ==
    ASSUME NEW S, NEW s \in Seq(S), NEW e \in S
    PROVE  /\ Append(s, e) \in Seq(S) /\ Len(Append(s, e)) = Len(s) + 1 /\ Len(s) \in Nat
           /\ Append(s, e)[Len(s) + 1] = e
           /\ \A i \in 1 .. Len(s) : Append(s, e)[i] = s[i]
  BY AppendProperties, LenProperties

(* The same in front.                                                      *)
LEMMA InFront ==
    ASSUME NEW S, NEW s \in Seq(S), NEW e \in S
    PROVE  /\ <<e>> \o s \in Seq(S) /\ Len(<<e>> \o s) = Len(s) + 1 /\ Len(s) \in Nat
           /\ (<<e>> \o s)[1] = e
           /\ \A i \in 1 .. Len(s) : (<<e>> \o s)[i + 1] = s[i]
           /\ ToSet(<<e>> \o s) = ToSet(s) \cup {e}
<1> DEFINE r == <<e>> \o s
<1>1. <<e>> \in Seq(S) /\ Len(<<e>>) = 1 /\ <<e>>[1] = e
  OBVIOUS
<1>2. r \in Seq(S) /\ Len(r) = Len(s) + 1 /\ Len(s) \in Nat
  BY <1>1, ConcatProperties, LenProperties
<1>3. r[1] = e /\ \A i \in 1 .. Len(s) : r[i + 1] = s[i]
  <2>1. r[1] = e
    BY <1>1, <1>2, ConcatProperties
  <2>2. ASSUME NEW i \in 1 .. Len(s)
        PROVE  r[i + 1] = s[i]
    <3>1. i + 1 \in 1 .. Len(<<e>>) + Len(s) /\ i + 1 > Len(<<e>>)
      BY <1>1, <1>2
    <3>2. (<<e>> \o s)[i + 1] = s[i + 1 - Len(<<e>>)]
      BY <1>1, <3>1, ConcatProperties
    <3> QED
      BY <1>1, <1>2, <3>2
  <2> QED
    BY <2>1, <2>2
<1> HIDE DEF r
<1>4. DOMAIN r = 1 .. Len(s) + 1 /\ DOMAIN s = 1 .. Len(s)
  BY <1>2, LenProperties
<1>5. ToSet(r) = ToSet(s) \cup {e}
  <2>1. ASSUME NEW i \in 1 .. Len(s) + 1
        PROVE  r[i] = e \/ (i - 1 \in 1 .. Len(s) /\ r[i] = s[i - 1])
    <3>1. CASE i = 1
      BY <1>3, <3>1
    <3>2. CASE i # 1
      <4>1. i - 1 \in 1 .. Len(s) /\ (i - 1) + 1 = i
        BY <1>2, <3>2
      <4> QED
        BY <1>3, <4>1
    <3> QED
      BY <3>1, <3>2
  <2>2. \A x \in ToSet(r) : x \in ToSet(s) \cup {e}
    BY <1>4, <2>1 DEF ToSet
  <2>3. 1 \in DOMAIN r /\ \A i \in 1 .. Len(s) : i + 1 \in DOMAIN r
    BY <1>2, <1>4
  <2>4. \A x \in ToSet(s) \cup {e} : x \in ToSet(r)
    BY <1>3, <1>4, <2>3 DEF ToSet
  <2> QED
    BY <2>2, <2>4
<1> QED
  BY <1>2, <1>3, <1>5 DEF r

(* There is one more node, and a declaration is registered in its block.   *)
LEMMA NestedNew ==
    ASSUME NEW ns, ns \in Seq(NodeType(Len(ns))), NEW up, NEW home, Nested(ns, up, home),
           NEW ns2, ns2 \in Seq(NodeType(Len(ns2))), NEW N, N = Len(ns) + 1, Len(ns2) = N,
           NEW v \in 0 .. Len(ns), NEW s, s = HomeOf(ns, home, v),
           \A id \in 1 .. Len(ns) :
             /\ ns2[id].kind = ns[id].kind /\ ns2[id].outer = ns[id].outer
             /\ ns2[id].kids = ns[id].kids
             /\ ns2[id].decls = IF id = s /\ ns2[N].kind \in DeclKinds
                                THEN <<N>> \o ns[id].decls ELSE ns[id].decls,
           ns2[N].decls = <<>>, ns2[N].kind = "brace" => ns2[N].outer = s,
           \A x \in ToSet(ns2[N].kids) : x < N /\ up[x] = v /\ ns2[N].kind # "brace"
    PROVE  Nested(ns2, Append(up, v), Append(home, s))
<1> DEFINE up2 == Append(up, v)
           home2 == Append(home, s)
<1>1. Len(ns) \in Nat /\ up \in Seq(Nat) /\ home \in Seq(Nat)
      /\ Len(up) = Len(ns) /\ Len(home) = Len(ns)
      /\ \A x \in 1 .. Len(ns) : up[x] \in Nat /\ home[x] \in Nat /\ up[x] < x /\ home[x] < x
  <2>1. Len(ns) \in Nat
    BY LenProperties
  <2>2. up \in Seq(Nat) /\ home \in Seq(Nat) /\ Len(up) = Len(ns) /\ Len(home) = Len(ns)
        /\ \A x \in 1 .. Len(ns) : up[x] < x /\ home[x] < x
    BY DEF Nested, Ups
  <2>3. \A x \in 1 .. Len(ns) : up[x] \in Nat /\ home[x] \in Nat
    BY <2>2, ElementOfSeq
  <2> QED
    BY <2>1, <2>2, <2>3
<1>2. s \in Nat /\ s < N /\ (s # 0 => s \in 1 .. Len(ns) /\ ns[s].kind = "brace")
  <2>1. CASE v = 0
    BY <1>1, <2>1 DEF HomeOf
  <2>2. CASE v # 0 /\ ns[v].kind = "brace"
    BY <1>1, <2>2 DEF HomeOf
  <2>3. CASE v # 0 /\ ns[v].kind # "brace"
    <3>1. s = home[v] /\ v \in 1 .. Len(ns)
      BY <1>1, <2>3 DEF HomeOf
    <3>2. home[v] # 0 => ns[home[v]].kind = "brace"
      BY <3>1 DEF Nested, Ups
    <3> QED
      BY <1>1, <3>1, <3>2, SMTT(30)
  <2> QED
    BY <2>1, <2>2, <2>3
<1>3. /\ up2 \in Seq(Nat) /\ Len(up2) = N /\ up2[N] = v
      /\ home2 \in Seq(Nat) /\ Len(home2) = N /\ home2[N] = s
      /\ \A x \in 1 .. Len(ns) : up2[x] = up[x] /\ home2[x] = home[x]
  BY <1>1, <1>2, AppendTo
<1> HIDE DEF up2, home2
<1>4. N \in Nat /\ N >= 1 /\ 1 .. N = 1 .. Len(ns) \cup {N} /\ N \notin 1 .. Len(ns)
  BY <1>1
<1>5. \A u \in 0 .. Len(ns) : HomeOf(ns2, home2, u) = HomeOf(ns, home, u)
  BY <1>1, <1>3, SMTT(30) DEF HomeOf
<1>6. Ups(ns2, up2, home2)
  <2>1. ASSUME NEW x \in 1 .. Len(ns)
        PROVE  /\ up2[x] < x /\ home2[x] < x
               /\ home2[x] = HomeOf(ns2, home2, up2[x])
               /\ home2[x] # 0 => ns2[home2[x]].kind = "brace"
    <3>1. /\ home[x] = HomeOf(ns, home, up[x])
          /\ home[x] # 0 => ns[home[x]].kind = "brace"
      BY DEF Nested, Ups
    <3>2. up[x] \in Nat /\ home[x] \in Nat /\ up[x] < x /\ home[x] < x
      BY <1>1
    <3>3. up[x] \in 0 .. Len(ns) /\ (home[x] # 0 => home[x] \in 1 .. Len(ns))
      <4> DEFINE m == Len(ns)
                 y == up[x]
                 z == home[x]
      <4>1. m \in Nat /\ x \in 1 .. m /\ y \in Nat /\ z \in Nat /\ y < x /\ z < x
        BY <1>1, <3>2
      <4> HIDE DEF m, y, z
      <4>2. y \in 0 .. m /\ (z # 0 => z \in 1 .. m)
        BY <4>1
      <4> QED
        BY <4>2 DEF m, y, z
    <3>4. home2[x] = HomeOf(ns2, home2, up2[x])
      BY <1>3, <1>5, <3>1, <3>3
    <3>5. home2[x] # 0 => ns2[home2[x]].kind = "brace"
      BY <1>3, <3>1, <3>3
    <3> QED
      BY <1>3, <3>2, <3>4, <3>5
  <2>2. /\ up2[N] < N /\ home2[N] < N /\ home2[N] = HomeOf(ns2, home2, up2[N])
        /\ home2[N] # 0 => ns2[home2[N]].kind = "brace"
    BY <1>1, <1>2, <1>3, <1>5, SMTT(30)
  <2> QED
    BY <1>3, <1>4, <2>1, <2>2 DEF Ups
<1>7. Parted(ns2, up2)
  <2>1. ASSUME NEW p \in 1 .. Len(ns), NEW x \in ToSet(ns2[p].kids)
        PROVE  PartOf(ns2, up2, x, p)
    <3>1. x \in ToSet(ns[p].kids)
      BY <2>1
    <3>2. PartOf(ns, up, x, p)
      BY <3>1 DEF Nested, Parted
    <3>3. x \in 1 .. Len(ns)
      BY <3>1, KidsAre
    <3> QED
      BY <1>3, <3>2, <3>3 DEF PartOf
  <2>2. ASSUME NEW x \in ToSet(ns2[N].kids)
        PROVE  PartOf(ns2, up2, x, N)
    <3>1. x \in 1 .. N
      BY <1>4, KidsAre
    <3>2. x \in 1 .. Len(ns) /\ up[x] = v
      BY <1>1, <3>1
    <3> QED
      BY <1>3, <3>2 DEF PartOf
  <2> QED
    BY <1>4, <2>1, <2>2 DEF Parted
<1>8. ASSUME NEW b \in 1 .. N
      PROVE  BlockOK(ns2, home2, b)
  <2>1. Below(ns2, home2, b) = Below(ns, home, b)
                               \cup (IF s = b /\ ns2[N].kind \in DeclKinds THEN {N} ELSE {})
    <3>1. \A d \in 1 .. Len(ns) : ns2[d].kind = ns[d].kind /\ home2[d] = home[d]
      BY <1>3
    <3> QED
      BY <1>3, <1>4, <3>1, SMTT(30) DEF Below
  <2>2. CASE b = N
    <3>1. Below(ns2, home2, N) = {}
      <4>1. Below(ns, home, N) = {}
        <5>1. \A d \in 1 .. Len(ns) : home[d] # N
          BY <1>1
        <5> QED
          BY <5>1 DEF Below
      <4> QED
        BY <1>2, <2>1, <2>2, <4>1
    <3>2. ToSet(<<>>) = {} /\ Falls(<<>>)
      BY DEF ToSet, Falls
    <3> QED
      BY <1>3, <2>2, <3>1, <3>2 DEF BlockOK
  <2>3. CASE b \in 1 .. Len(ns) /\ b = s /\ ns2[N].kind \in DeclKinds
    <3> DEFINE list == ns[b].decls
    <3>1. BlockOK(ns, home, b)
      BY <2>3 DEF Nested
    <3>2. list \in Seq(1 .. Len(ns)) /\ list \in Seq(Nat) /\ N \in Nat
      <4>1. list \in Seq(1 .. Len(ns))
        BY <2>3, NodeFields
      <4>2. 1 .. Len(ns) \subseteq Nat
        OBVIOUS
      <4> HIDE DEF list
      <4> QED
        BY <1>4, <4>1, <4>2, SeqGrows
    <3> HIDE DEF list
    <3>3. /\ ns2[b].decls = <<N>> \o list /\ Len(<<N>> \o list) = Len(list) + 1
          /\ <<N>> \o list \in Seq(Nat)
          /\ Len(list) \in Nat /\ (<<N>> \o list)[1] = N
          /\ \A i \in 1 .. Len(list) : (<<N>> \o list)[i + 1] = list[i]
          /\ ToSet(<<N>> \o list) = ToSet(list) \cup {N}
      <4>1. ns2[b].decls = <<N>> \o list
        BY <2>3 DEF list
      <4> QED
        BY <3>2, <4>1, InFront
    <3>4. Falls(<<N>> \o list)
      <4> DEFINE r == <<N>> \o list
      <4>1. DOMAIN list = 1 .. Len(list) /\ DOMAIN r = 1 .. Len(list) + 1
        BY <3>2, <3>3, LenProperties
      <4>2. \A i \in 1 .. Len(list) : list[i] \in 1 .. Len(ns)
        BY <3>2, ElementOfSeq
      <4> HIDE DEF r
      <4>3. r[1] = N /\ \A i \in 1 .. Len(list) : r[i + 1] = list[i]
        BY <3>3 DEF r
      <4>4. \A i, j \in 1 .. Len(list) : i < j => list[i] > list[j]
        BY <3>1, <4>1 DEF BlockOK, Falls, list
      <4>5. ASSUME NEW i \in DOMAIN r, NEW j \in DOMAIN r, i < j
            PROVE  r[i] > r[j]
        <5>1. j - 1 \in 1 .. Len(list) /\ (j - 1) + 1 = j /\ r[j] = list[j - 1]
          <6>1. j - 1 \in 1 .. Len(list) /\ (j - 1) + 1 = j
            BY <3>3, <4>1, <4>5, SMTT(30)
          <6> QED
            BY <4>3, <6>1
        <5>2. CASE i = 1
          BY <1>4, <4>2, <4>3, <5>1, <5>2
        <5>3. CASE i # 1
          <6>1. i - 1 \in 1 .. Len(list) /\ (i - 1) + 1 = i /\ i - 1 < j - 1
            <7>1. i \in 1 .. Len(list) + 1 /\ j \in 1 .. Len(list) + 1 /\ Len(list) \in Nat
              BY <3>3, <4>1
            <7> QED
              BY <4>5, <5>3, <7>1
          <6>2. r[i] = list[i - 1]
            BY <4>3, <6>1
          <6> QED
            BY <4>4, <5>1, <6>1, <6>2
        <5> QED
          BY <5>2, <5>3
      <4> QED
        BY <4>5 DEF Falls, r
    <3>5. ns[b].outer = home[b] /\ ToSet(list) = Below(ns, home, b)
      BY <1>2, <2>3, <3>1 DEF BlockOK, list
    <3>6. ns2[b].outer = home2[b] /\ ToSet(ns2[b].decls) = Below(ns2, home2, b)
      BY <1>3, <2>1, <2>3, <3>3, <3>5
    <3> QED
      BY <3>3, <3>4, <3>6 DEF BlockOK
  <2>4. CASE b \in 1 .. Len(ns) /\ ~(b = s /\ ns2[N].kind \in DeclKinds)
    <3>1. BlockOK(ns, home, b)
      BY <2>4 DEF Nested
    <3>2. ns2[b].decls = ns[b].decls /\ Below(ns2, home2, b) = Below(ns, home, b)
          /\ home2[b] = home[b]
      BY <1>3, <2>1, <2>4
    <3> QED
      BY <2>4, <3>1, <3>2 DEF BlockOK
  <2> QED
    BY <1>4, <2>2, <2>3, <2>4
<1> QED
  BY <1>4, <1>6, <1>7, <1>8 DEF Nested, up2, home2

-----------------------------------------------------------------------------
(* The calls.                                                              *)

(* The nodes there are stay in their places: all keep their children, but  *)
(* for one that is being parsed.                                           *)
Frame(ns, up, home, ns2, up2, home2, d) ==
    /\ Len(ns2) >= Len(ns)
    /\ \A id \in 1 .. Len(ns) :
         /\ up2[id] = up[id] /\ home2[id] = home[id]
         /\ ns2[id].kind = "brace" <=> ns[id].kind = "brace"
         /\ id # d => ns2[id].kids = ns[id].kids

CallsOf(ns, cs) ==
    /\ Len(ns) \in Nat
    /\ cs \in Seq(CallType)
    /\ \A i \in 1 .. Len(cs) : CallOK(input, cs[i], ns)

(* What a call keeps are nodes.                                            *)
LEMMA ListedAre ==
    ASSUME NEW ns, NEW c, CallOK(input, c, ns)
    PROVE  \A x \in InList(c) : x \in 1 .. Len(ns)
<1>1. CASE c.at = "rhs"
  BY <1>1 DEF CallOK, InList
<1>2. CASE c.at # "rhs" /\ c.at \in NodeLists
  <2>1. c.list \in Seq(1 .. Len(ns))
    BY <1>2 DEF CallOK
  <2> QED
    BY <1>2, <2>1, Elements DEF InList
<1>3. CASE c.at # "rhs" /\ c.at \notin NodeLists
  BY <1>3 DEF InList
<1> QED
  BY <1>1, <1>2, <1>3

(* What is parsed at a place of the stack.                                 *)
LEMMA StackTypes ==
    ASSUME NEW ns, NEW up, NEW cs, CallsOf(ns, cs), NEW r, NEW h, Stacked(ns, up, cs, r, h),
           cs # <<>>
    PROVE  /\ Len(cs) \in Nat /\ Len(cs) >= 1
           /\ \A i \in 1 .. Len(cs) + 1 : h[i] \in 0 .. Len(ns) /\ h[i] \in Nat
           /\ \A i \in 1 .. Len(cs) : cs[i].node \in 0 .. Len(ns)
           /\ h \in Seq(Nat) /\ Len(h) = Len(cs) + 1
           /\ h[1] = IF cs[1].node # 0 THEN cs[1].node ELSE h[2]
           /\ cs[1].node # 0 => up[cs[1].node] = h[2] /\ cs[1].node > h[2]
<1>1. Len(cs) \in Nat /\ Len(cs) >= 1 /\ Len(ns) \in Nat
  BY Replaced DEF CallsOf
<1>2. h \in Seq(Nat) /\ Len(h) = Len(cs) + 1 /\ h[Len(cs) + 1] = 0
  BY DEF Stacked
<1>3. \A i \in 1 .. Len(cs) : cs[i].node \in 0 .. Len(ns)
  <2> SUFFICES ASSUME NEW i \in 1 .. Len(cs)
               PROVE  cs[i].node \in 0 .. Len(ns)
    OBVIOUS
  <2>1. CallOK(input, cs[i], ns)
    BY DEF CallsOf
  <2> QED
    BY <1>1, <2>1 DEF CallOK, CallType
<1>4. \A i \in 1 .. Len(cs) : StackOK(ns, up, cs, h, i)
  BY DEF Stacked
<1>5. \A i \in 1 .. Len(cs) + 1 : h[i] \in Nat
  BY <1>2, ElementOfSeq
<1>6. \A i \in 1 .. Len(cs) + 1 : h[i] \in 0 .. Len(ns)
  BY DEF Stacked
<1>7. 1 \in 1 .. Len(cs) /\ StackOK(ns, up, cs, h, 1)
  BY <1>1, <1>4
<1>8. /\ h[1] = IF cs[1].node # 0 THEN cs[1].node ELSE h[2]
      /\ cs[1].node # 0 => up[cs[1].node] = h[2] /\ cs[1].node > h[2]
  BY <1>7 DEF StackOK
<1> QED
  BY <1>1, <1>2, <1>3, <1>5, <1>6, <1>8

(* A call that stays in the stack.                                         *)
LEMMA Moved ==
    ASSUME NEW ns, NEW up, NEW home, NEW cs, CallsOf(ns, cs), NEW r, NEW h,
           Stacked(ns, up, cs, r, h), NEW i \in 2 .. Len(cs),
           NEW ns2, NEW up2, NEW home2, Frame(ns, up, home, ns2, up2, home2, cs[1].node),
           NEW cs2, NEW h2, NEW j,
           cs2[j] = cs[i], h2[j] = h[i], h2[j + 1] = h[i + 1]
    PROVE  StackOK(ns2, up2, cs2, h2, j)
<1> DEFINE c == cs[i]
<1>1. cs # <<>> /\ Len(cs) \in Nat /\ Len(ns) \in Nat
  BY LenProperties, EmptySeq DEF CallsOf
<1>2. /\ \A k \in 1 .. Len(cs) + 1 : h[k] \in 0 .. Len(ns) /\ h[k] \in Nat
      /\ cs[1].node # 0 => cs[1].node > h[2]
      /\ \A k \in 1 .. Len(cs) : cs[k].node \in 0 .. Len(ns)
  BY <1>1, StackTypes
<1>3. StackOK(ns, up, cs, h, i) /\ CallOK(input, c, ns)
  BY DEF Stacked, CallsOf
<1>4. h[2] >= h[i] /\ 2 \in 1 .. Len(cs) + 1 /\ i \in 1 .. Len(cs) + 1
  BY <1>1 DEF Stacked
<1>5. c.node # 0 => /\ c.node \in 1 .. Len(ns) /\ c.node # cs[1].node
                    /\ up2[c.node] = up[c.node] /\ ns2[c.node].kids = ns[c.node].kids
                    /\ ns2[c.node].kind = "brace" <=> ns[c.node].kind = "brace"
  <2> SUFFICES ASSUME c.node # 0
               PROVE  c.node \in 1 .. Len(ns) /\ c.node # cs[1].node
    BY DEF Frame
  <2>1. c.node \in 1 .. Len(ns)
    BY <1>2
  <2>2. h[i] = c.node
    BY <1>3 DEF StackOK
  <2> QED
    BY <1>2, <1>4, <2>1, <2>2
<1>6. \A x \in InList(c) : up2[x] = up[x]
  BY <1>3, ListedAre DEF Frame
<1> QED
  BY <1>3, <1>5, <1>6 DEF StackOK

(* What is covered below stays covered.                                    *)
LEMMA KidsStay ==
    ASSUME NEW ns, NEW up, NEW home, NEW cs, CallsOf(ns, cs), NEW r, NEW h, cs # <<>>,
           Stacked(ns, up, cs, r, h), NEW ns2, NEW up2, NEW home2, Len(ns2) \in Nat,
           Frame(ns, up, home, ns2, up2, home2, cs[1].node)
    PROVE  \A x \in 1 .. Len(ns) : IsKid(ns, x) => IsKid(ns2, x)
<1>1. Len(cs) \in Nat /\ Len(cs) >= 1
  BY StackTypes
<1>2. cs[1].node # 0 => ns[cs[1].node].kids = <<>>
  BY <1>1 DEF Stacked, StackOK
<1>3. ASSUME NEW p \in 1 .. Len(ns), NEW x \in ToSet(ns[p].kids)
      PROVE  p \in 1 .. Len(ns2) /\ x \in ToSet(ns2[p].kids)
  <2>1. p \in 1 .. Len(ns2)
    BY DEF Frame, CallsOf
  <2>2. p # cs[1].node
    <3>1. ToSet(<<>>) = {}
      BY DEF ToSet
    <3> QED
      BY <1>2, <1>3, <3>1
  <2> QED
    BY <2>1, <2>2 DEF Frame
<1> QED
  BY <1>3 DEF IsKid

(* Where the stack of a tree stands.                                       *)
LEMMA Standing ==
    ASSUME Typed, NEW l, Running(l), NEW up, NEW home, NEW h, TreeOf(up, home, h)
    PROVE  /\ calls # <<>> /\ outcome = "run" /\ This.at = l /\ This = calls[1]
           /\ CallsOf(nodes, calls) /\ nodes \in Seq(NodeType(Len(nodes)))
           /\ Len(calls) \in Nat /\ Len(calls) >= 1 /\ Len(nodes) \in Nat
           /\ Nested(nodes, up, home) /\ Stacked(nodes, up, calls, ret, h)
           /\ StackOK(nodes, up, calls, h, 1)
           /\ \A i \in 1 .. Len(calls) + 1 : h[i] \in 0 .. Len(nodes) /\ h[i] \in Nat
           /\ h \in Seq(Nat) /\ Len(h) = Len(calls) + 1
           /\ h[1] = IF This.node # 0 THEN This.node ELSE h[2]
           /\ This.node # 0 => up[This.node] = h[2] /\ This.node > h[2]
           /\ \A x \in InList(This) \cup Handed(l, ret) : up[x] = h[1] /\ x \in 1 .. Len(nodes)
           /\ This.node \in 0 .. Len(nodes)
           /\ scope = HomeOf(nodes, home, h[1])
           /\ l \notin Owners \cup ListLabels => This.node = 0
           /\ IsBlock(This) => scope = This.node /\ nodes[This.node].outer = HomeOf(nodes, home, h[2])
           /\ ~IsBlock(This) => scope = HomeOf(nodes, home, h[2])
<1>1. /\ calls # <<>> /\ outcome = "run" /\ This.at = l /\ This = calls[1]
      /\ Len(calls) \in Nat /\ Len(calls) >= 1 /\ Len(nodes) \in Nat
      /\ DOMAIN calls = 1 .. Len(calls) /\ CallOK(input, This, nodes)
      /\ l \in Waiting => ret \in 1 .. Len(nodes)
  BY Innermost
<1>2. CallsOf(nodes, calls) /\ nodes \in Seq(NodeType(Len(nodes)))
  BY <1>1 DEF Typed, CallsOK, CallsOf
<1>3. Nested(nodes, up, home) /\ Stacked(nodes, up, calls, ret, h)
      /\ scope = HomeOf(nodes, home, h[1])
  BY DEF TreeOf
<1>4. /\ \A i \in 1 .. Len(calls) + 1 : h[i] \in 0 .. Len(nodes) /\ h[i] \in Nat
      /\ h \in Seq(Nat) /\ Len(h) = Len(calls) + 1
      /\ h[1] = IF This.node # 0 THEN This.node ELSE h[2]
      /\ This.node # 0 => up[This.node] = h[2] /\ This.node > h[2]
      /\ This.node \in 0 .. Len(nodes)
  <2>1. 1 \in 1 .. Len(calls)
    BY <1>1
  <2>2. /\ \A i \in 1 .. Len(calls) + 1 : h[i] \in 0 .. Len(nodes) /\ h[i] \in Nat
        /\ \A i \in 1 .. Len(calls) : calls[i].node \in 0 .. Len(nodes)
        /\ h \in Seq(Nat) /\ Len(h) = Len(calls) + 1
        /\ h[1] = IF calls[1].node # 0 THEN calls[1].node ELSE h[2]
        /\ calls[1].node # 0 => up[calls[1].node] = h[2] /\ calls[1].node > h[2]
    BY <1>1, <1>2, <1>3, StackTypes, SMTT(30)
  <2> QED
    BY <1>1, <2>1, <2>2
<1>5. StackOK(nodes, up, calls, h, 1)
  BY <1>1, <1>3 DEF Stacked
<1>6. \A x \in InList(This) \cup Handed(l, ret) : up[x] = h[1] /\ x \in 1 .. Len(nodes)
  <2>1. \A x \in InList(This) : up[x] = h[1] /\ x \in 1 .. Len(nodes)
    BY <1>1, <1>5, ListedAre DEF StackOK
  <2>2. \A x \in Handed(l, ret) : up[x] = h[1] /\ x \in 1 .. Len(nodes)
    BY <1>1, <1>3 DEF Stacked, Handed
  <2> QED
    BY <2>1, <2>2
<1>7. l \notin Owners \cup ListLabels => This.node = 0
  BY <1>1, <1>5 DEF StackOK
<1>8. This.node # 0 => (nodes[This.node].kind = "brace" <=> This.at \in ListLabels)
  BY <1>1, <1>5 DEF StackOK
<1>9. This.node # 0 => home[This.node] = HomeOf(nodes, home, h[2])
  BY <1>1, <1>3, <1>4 DEF Nested, Ups
<1>10. CASE IsBlock(This)
  <2>1. This.node # 0 /\ nodes[This.node].kind = "brace" /\ h[1] = This.node
    BY <1>4, <1>8, <1>10 DEF IsBlock
  <2>2. This.node \in 1 .. Len(nodes)
    BY <1>1, <1>4, <2>1
  <2>3. nodes[This.node].outer = home[This.node]
    BY <1>3, <2>1, <2>2 DEF Nested, BlockOK
  <2>4. scope = This.node
    BY <1>3, <2>1 DEF HomeOf
  <2> QED
    BY <1>1, <1>2, <1>3, <1>4, <1>5, <1>6, <1>7, <1>9, <1>10, <2>1, <2>3, <2>4
<1>11. CASE ~IsBlock(This)
  <2>1. scope = HomeOf(nodes, home, h[2])
    <3>1. CASE This.node = 0
      BY <1>3, <1>4, <3>1
    <3>2. CASE This.node # 0
      <4>1. nodes[This.node].kind # "brace"
        BY <1>8, <1>11, <3>2 DEF IsBlock
      <4> QED
        BY <1>3, <1>4, <1>9, <3>2, <4>1 DEF HomeOf
    <3> QED
      BY <3>1, <3>2
  <2> QED
    BY <1>1, <1>2, <1>3, <1>4, <1>5, <1>6, <1>7, <1>11, <2>1
<1> QED
  BY <1>10, <1>11

(* A block is the same in a frame.                                         *)
LEMMA HomeStays ==
    ASSUME NEW ns, NEW up, NEW home, NEW ns2, NEW up2, NEW home2, NEW d,
           Frame(ns, up, home, ns2, up2, home2, d), Len(ns) \in Nat, NEW u \in 0 .. Len(ns)
    PROVE  HomeOf(ns2, home2, u) = HomeOf(ns, home, u)
  BY DEF Frame, HomeOf

(* The declarations at the top stay there.                                 *)
LEMMA TopStays ==
    ASSUME Typed, UNCHANGED decls, NEW up, NEW home, NEW h, TreeOf(up, home, h),
           NEW ns2, NEW up2, NEW home2, NEW d, Frame(nodes, up, home, ns2, up2, home2, d)
    PROVE  \A x \in ToSet(decls') : up2[x] = 0
<1>1. \A x \in ToSet(decls) : x \in 1 .. Len(nodes)
  BY Elements DEF Typed
<1> QED
  BY <1>1 DEF TreeOf, Frame

(* What comes after the first comes from the second on.                    *)
LEMMA AboveOne ==
    ASSUME NEW k \in Nat, k >= 1, k # 1
    PROVE  k >= 2
  OBVIOUS

(* Places, when the first is gone.                                         *)
LEMMA OneOn ==
    ASSUME NEW m \in Nat, NEW k, k = m - 1
    PROVE  /\ \A i \in 1 .. k + 1 : i \in 1 .. m /\ i + 1 \in 1 .. m + 1
           /\ \A i \in 1 .. k : /\ i + 1 \in 2 .. m /\ i \in 1 .. m - 1 /\ i \in 1 .. m
                                /\ i + 1 \in 1 .. m
  OBVIOUS

(* The innermost call returns: only a primary returns to a postfix.        *)
LEMMA TreePops ==
    ASSUME Typed, Typed', NEW l, Running(l), Keep, Pops,
           NEW up, NEW home, NEW h, TreeOf(up, home, h),
           NEW up2, NEW home2, Nested(nodes', up2, home2),
           Frame(nodes, up, home, nodes', up2, home2, This.node),
           up2[ret'] = h[2],
           \A x \in Kept(This) \cup Handed(l, ret) \cup (Len(nodes) + 1 .. Len(nodes')) :
             IsKid(nodes', x) \/ x = ret',
           scope' = IF IsBlock(This) THEN nodes[This.node].outer ELSE scope,
           l \notin ListLabels \cup {"run"} \/ This.node # 0,
           Levelled, l \in Primaries => nodes'[ret'].kind \in PlainKinds
    PROVE  Treed'
<1> DEFINE h2 == Tail(h)
<1>1. /\ calls # <<>> /\ outcome = "run" /\ This.at = l /\ This = calls[1]
      /\ CallsOf(nodes, calls)
      /\ Len(calls) \in Nat /\ Len(calls) >= 1 /\ Len(nodes) \in Nat
      /\ Stacked(nodes, up, calls, ret, h)
      /\ \A i \in 1 .. Len(calls) + 1 : h[i] \in 0 .. Len(nodes) /\ h[i] \in Nat
      /\ h \in Seq(Nat) /\ Len(h) = Len(calls) + 1
  BY Standing
<1>2. /\ Len(calls') = Len(calls) - 1 /\ calls' \in Seq(CallType)
      /\ \A i \in 1 .. Len(calls) - 1 : calls'[i] = calls[i + 1]
  BY <1>1, Replaced DEF Pops, CallsOf
<1>3. Bottomed(calls) /\ Len(calls) >= 2
  <2>1. Bottomed(calls)
    BY <1>1 DEF TreeOf
  <2>2. ASSUME Len(calls) = 1
        PROVE  FALSE
    <3>1. This.node = 0 /\ This.at \in ListLabels \cup {"run"}
      BY <1>1, <2>1, <2>2 DEF Bottomed
    <3> QED
      BY <1>1, <3>1
  <2>3. Len(calls) >= 2
    BY <1>1, <2>2, AboveOne, Zenon
  <2> QED
    BY <2>1, <2>3
<1>4. Bottomed(calls')
  <2>1. calls' # <<>> /\ Len(calls) - 1 \in 1 .. Len(calls) - 1
    BY <1>1, <1>2, <1>3
  <2>2. calls'[Len(calls')] = calls[Len(calls)]
    BY <1>1, <1>2, <2>1, SMTT(30)
  <2> QED
    BY <1>3, <2>1, <2>2 DEF Bottomed
<1>5. /\ h2 \in Seq(Nat) /\ Len(h2) = Len(calls) /\ \A i \in 1 .. Len(calls) : h2[i] = h[i + 1]
  BY <1>1, HeadTailProperties, EmptySeq
<1> HIDE DEF h2
<1>6. Len(calls) \in Nat /\ Len(calls') = Len(calls) - 1
  BY <1>1, <1>2
<1>7. Len(nodes') \in Nat /\ Len(nodes) <= Len(nodes')
  BY LenProperties DEF Typed, Frame
<1>8. Stacked(nodes', up2, calls', ret', h2)
  <2>1. h2[Len(calls') + 1] = 0
    <3>1. h[Len(calls) + 1] = 0 /\ Len(calls) \in 1 .. Len(calls)
      BY <1>1 DEF Stacked
    <3>2. Len(calls') + 1 = Len(calls)
      BY <1>6
    <3>3. h2[Len(calls)] = h[Len(calls) + 1]
      BY <1>5, <3>1
    <3> QED
      BY <3>1, <3>2, <3>3
  <2>2. ASSUME NEW i \in 1 .. Len(calls') + 1
        PROVE  h2[i] \in 0 .. Len(nodes')
    <3>1. i \in 1 .. Len(calls) /\ i + 1 \in 1 .. Len(calls) + 1
      BY <1>6, OneOn
    <3>2. h2[i] = h[i + 1]
      BY <1>5, <3>1
    <3>3. h[i + 1] \in 0 .. Len(nodes)
      BY <1>1, <3>1
    <3> QED
      BY <1>1, <1>7, <3>2, <3>3
  <2>3. ASSUME NEW i \in 1 .. Len(calls') + 1, NEW j \in 1 .. Len(calls') + 1, i <= j
        PROVE  h2[i] >= h2[j]
    <3>1. i + 1 \in 1 .. Len(calls) + 1 /\ j + 1 \in 1 .. Len(calls) + 1 /\ i + 1 <= j + 1
          /\ i \in 1 .. Len(calls) /\ j \in 1 .. Len(calls)
      BY <1>1, <1>2, <2>3
    <3>2. h[i + 1] >= h[j + 1]
      BY <1>1, <3>1 DEF Stacked
    <3> QED
      BY <1>5, <3>1, <3>2
  <2>4. ASSUME NEW i \in 1 .. Len(calls')
        PROVE  StackOK(nodes', up2, calls', h2, i)
    <3>1. i + 1 \in 2 .. Len(calls) /\ i \in 1 .. Len(calls) - 1 /\ i \in 1 .. Len(calls)
          /\ i + 1 \in 1 .. Len(calls)
      BY <1>6, OneOn
    <3>2. calls'[i] = calls[i + 1] /\ h2[i] = h[i + 1] /\ h2[i + 1] = h[(i + 1) + 1]
      BY <1>2, <1>5, <3>1
    <3> QED
      BY <1>1, <3>1, <3>2, Moved
  <2>5. \A x \in Handed(calls'[1].at, ret') : up2[x] = h2[1]
    <3>1. h2[1] = h[2]
      BY <1>1, <1>5
    <3> QED
      BY <3>1 DEF Handed
  <2> QED
    BY <1>1, <1>2, <1>5, <2>1, <2>2, <2>3, <2>4, <2>5 DEF Stacked
<1>9. Covered(nodes', calls', ret', decls')
  <2> SUFFICES ASSUME NEW x \in 1 .. Len(nodes')
               PROVE  \/ IsKid(nodes', x)
                      \/ \E i \in 1 .. Len(calls') : x \in Kept(calls'[i])
                      \/ calls' # <<>> /\ x \in Handed(calls'[1].at, ret')
                      \/ x \in ToSet(decls')
    BY DEF Covered
  <2>1. calls' # <<>> /\ ret' \in Handed(calls'[1].at, ret')
    <3>1. 2 \in DOMAIN calls /\ 2 > 1
      BY <1>1, <1>3
    <3>2. calls[2].at \in Waiting
      BY <3>1 DEF Typed, CallsOK
    <3>3. calls'[1] = calls[2]
      BY <1>1, <1>2, <1>3
    <3> QED
      BY <1>4, <3>2, <3>3 DEF Bottomed, Handed
  <2>2. CASE x \in Kept(This) \cup Handed(l, ret) \cup (Len(nodes) + 1 .. Len(nodes'))
    BY <2>1, <2>2
  <2>3. CASE x \notin Kept(This) \cup Handed(l, ret) \cup (Len(nodes) + 1 .. Len(nodes'))
    <3>1. x \in 1 .. Len(nodes)
      BY <1>1, <1>7, <2>3
    <3>2. \/ IsKid(nodes, x)
          \/ \E i \in 1 .. Len(calls) : x \in Kept(calls[i])
          \/ x \in Handed(calls[1].at, ret)
          \/ x \in ToSet(decls)
      BY <3>1 DEF TreeOf, Covered
    <3>3. CASE IsKid(nodes, x)
      <4>1. IsKid(nodes', x)
        BY <1>1, <1>7, <3>1, <3>3, KidsStay
      <4> QED
        BY <4>1
    <3>4. CASE x \in ToSet(decls)
      BY <3>4 DEF Keep
    <3>5. ASSUME NEW i \in 1 .. Len(calls), x \in Kept(calls[i])
          PROVE  \E k \in 1 .. Len(calls') : x \in Kept(calls'[k])
      <4>1. i # 1
        BY <1>1, <2>3, <3>5
      <4>2. i - 1 \in 1 .. Len(calls') /\ i - 1 \in 1 .. Len(calls) - 1 /\ (i - 1) + 1 = i
        BY <1>1, <1>2, <4>1
      <4>3. calls'[i - 1] = calls[i]
        BY <1>2, <4>2
      <4> QED
        BY <3>5, <4>2, <4>3
    <3> QED
      BY <1>1, <2>3, <3>2, <3>3, <3>4, <3>5
  <2> QED
    BY <2>2, <2>3
<1>10. scope' = HomeOf(nodes', home2, h2[1])
  <2>1. h2[1] = h[2] /\ h[2] \in 0 .. Len(nodes)
    BY <1>1, <1>5
  <2>2. HomeOf(nodes', home2, h[2]) = HomeOf(nodes, home, h[2])
    BY <1>1, <2>1, HomeStays
  <2>3. scope' = HomeOf(nodes, home, h[2])
    BY Standing
  <2> QED
    BY <2>1, <2>2, <2>3
<1>11. \A x \in ToSet(decls') : up2[x] = 0
  BY TopStays DEF Keep
<1>12. Plain(nodes', calls', ret')
  <2>1. calls'[1] = calls[2]
    BY <1>1, <1>2, <1>3
  <2>2. calls[2].at = "postfix" => l \in Primaries
    <3>1. 1 \in DOMAIN calls /\ 1 + 1 \in DOMAIN calls
      BY <1>1, <1>3, LenProperties DEF CallsOf
    <3>2. Above(calls[1], calls[1 + 1])
      BY <3>1 DEF Levelled, LevelledAt
    <3> QED
      BY <1>1, <3>2 DEF Above
  <2> QED
    BY <2>1, <2>2 DEF Plain
<1>13. TreeOf(up2, home2, h2)'
  BY <1>4, <1>8, <1>9, <1>10, <1>11, <1>12 DEF TreeOf
<1> QED
  BY <1>13 DEF Treed

(* A call at the top of the stack, under which the node `under` is parsed: *)
(* t is the node that is parsed in it.                                     *)
TopOK(ns, up, c, t, under) ==
    /\ IF c.node = 0 THEN t = under
       ELSE /\ t = c.node /\ up[t] = under /\ t > under
            /\ ns[t].kids = <<>>
            /\ ns[t].kind = "brace" <=> c.at \in ListLabels
    /\ c.at \notin Owners \cup ListLabels => c.node = 0
    /\ \A x \in InList(c) : up[x] = t

(* A call below the innermost one, at its new place.                       *)
LEMMA MovedNow ==
    ASSUME NEW up, NEW home, CallsOf(nodes, calls), NEW h, Stacked(nodes, up, calls, ret, h),
           NEW j \in 2 .. Len(calls), NEW up2, NEW home2,
           Frame(nodes, up, home, nodes', up2, home2, calls[1].node),
           NEW h2, NEW i, calls'[i] = calls[j], h2[i] = h[j], h2[i + 1] = h[j + 1]
    PROVE  StackOK(nodes', up2, calls', h2, i)
  BY Moved

(* A function of the first numbers is a sequence.                          *)
LEMMA SequenceIs ==
    ASSUME NEW S, NEW m \in Nat, NEW f \in [1 .. m -> S]
    PROVE  f \in Seq(S) /\ Len(f) = m
<1>1. f \in Seq(S)
  BY SeqDef
<1>2. DOMAIN f = 1 .. m /\ DOMAIN f = 1 .. Len(f) /\ Len(f) \in Nat
  BY <1>1, LenProperties
<1>3. Len(f) = m
  BY <1>2
<1> QED
  BY <1>1, <1>3

(* The innermost call is replaced by k calls, and t is parsed in the last  *)
(* of them.                                                                *)
LEMMA TreeMoves ==
    ASSUME Typed, Typed', NEW l, Running(l), Keep,
           NEW up, NEW home, NEW h, TreeOf(up, home, h),
           NEW up2, NEW home2, Nested(nodes', up2, home2),
           Frame(nodes, up, home, nodes', up2, home2, This.node),
           NEW k \in 1 .. 2, Len(calls') = Len(calls) - 1 + k,
           \A i \in k + 1 .. Len(calls') : calls'[i] = calls[i + 1 - k],
           NEW t \in 0 .. Len(nodes'),
           TopOK(nodes', up2, calls'[k], t, h[2]),
           k = 2 => TopOK(nodes', up2, calls'[1], t, t) /\ calls'[1].node = 0,
           \A x \in Handed(calls'[1].at, ret') : up2[x] = t,
           \A x \in Kept(This) \cup Handed(l, ret) \cup (Len(nodes) + 1 .. Len(nodes')) :
             \/ IsKid(nodes', x)
             \/ x \in Kept(calls'[1]) \cup Kept(calls'[k]) \cup Handed(calls'[1].at, ret'),
           scope' = HomeOf(nodes', home2, t),
           This.node = 0 /\ l \in ListLabels \cup {"run"} =>
             calls'[k].node = 0 /\ calls'[k].at \in ListLabels \cup {"run"},
           calls'[1].at = "postfix" => nodes'[ret'].kind \in PlainKinds
    PROVE  Treed'
<1> DEFINE h2 == [i \in 1 .. Len(h) - 1 + k |-> IF i <= k THEN t ELSE h[i + 1 - k]]
<1>1. /\ calls # <<>> /\ outcome = "run" /\ This.at = l /\ This = calls[1]
      /\ CallsOf(nodes, calls)
      /\ Len(calls) \in Nat /\ Len(calls) >= 1 /\ Len(nodes) \in Nat
      /\ Stacked(nodes, up, calls, ret, h)
      /\ \A i \in 1 .. Len(calls) + 1 : h[i] \in 0 .. Len(nodes) /\ h[i] \in Nat
      /\ Len(h) = Len(calls) + 1
  BY Standing
<1>2. Len(nodes') \in Nat /\ Len(nodes) <= Len(nodes')
  BY LenProperties DEF Typed, Frame
<1>3. /\ h2 \in Seq(Nat) /\ Len(h2) = Len(calls) + k /\ Len(h2) = Len(calls') + 1
      /\ \A i \in 1 .. Len(calls) + k : h2[i] = IF i <= k THEN t ELSE h[i + 1 - k]
  <2>1. Len(calls) + k \in Nat /\ t \in Nat
    BY <1>1, <1>2
  <2>2. \A i \in 1 .. Len(calls) + k : (IF i <= k THEN t ELSE h[i + 1 - k]) \in Nat
    <3> SUFFICES ASSUME NEW i \in 1 .. Len(calls) + k, ~(i <= k)
                 PROVE  h[i + 1 - k] \in Nat
      BY <2>1
    <3>1. i + 1 - k \in 1 .. Len(calls) + 1
      BY <1>1
    <3> QED
      BY <1>1, <3>1
  <2>3. Len(h) - 1 + k = Len(calls) + k
    BY <1>1
  <2>4. h2 = [i \in 1 .. Len(calls) + k |-> IF i <= k THEN t ELSE h[i + 1 - k]]
    BY <2>3
  <2> HIDE DEF h2
  <2>5. h2 \in [1 .. Len(calls) + k -> Nat]
    BY <2>2, <2>4
  <2>6. h2 \in Seq(Nat) /\ Len(h2) = Len(calls) + k
    BY <2>1, <2>5, SequenceIs
  <2>7. Len(calls') + 1 = Len(calls) + k
    BY <1>1
  <2>8. \A i \in 1 .. Len(calls) + k : h2[i] = IF i <= k THEN t ELSE h[i + 1 - k]
    BY <2>4
  <2> QED
    BY <2>6, <2>7, <2>8
<1> HIDE DEF h2
<1>4. \A i \in 1 .. Len(calls) + k : i > k => i + 1 - k \in 2 .. Len(calls) + 1
  BY <1>1
<1>5. t \in Nat /\ t >= h[2] /\ h[2] \in Nat
  <2>1. h[2] \in Nat
    BY <1>1
  <2>2. t \in Nat
    BY <1>2
  <2> QED
    BY <2>1, <2>2 DEF TopOK
<1>6. Stacked(nodes', up2, calls', ret', h2)
  <2>1. h2[Len(calls') + 1] = 0
    <3>1. h[Len(calls) + 1] = 0
      BY <1>1 DEF Stacked
    <3>2. Len(calls') + 1 \in 1 .. Len(calls) + k /\ ~(Len(calls') + 1 <= k)
          /\ Len(calls') + 1 + 1 - k = Len(calls) + 1
      BY <1>1
    <3> QED
      BY <1>3, <3>1, <3>2
  <2>2. ASSUME NEW i \in 1 .. Len(calls') + 1
        PROVE  h2[i] \in 0 .. Len(nodes')
    <3>1. i \in 1 .. Len(calls) + k
      BY <1>1, <1>3
    <3>2. CASE i <= k
      BY <1>3, <3>1, <3>2
    <3>3. CASE ~(i <= k)
      <4>1. i + 1 - k \in 1 .. Len(calls) + 1
        BY <1>1, <3>1, <3>3
      <4>2. h2[i] \in 0 .. Len(nodes)
        BY <1>1, <1>3, <3>1, <3>3, <4>1
      <4> QED
        BY <1>1, <1>2, <4>2
    <3> QED
      BY <3>2, <3>3
  <2>3. ASSUME NEW i \in 1 .. Len(calls') + 1, NEW j \in 1 .. Len(calls') + 1, i <= j
        PROVE  h2[i] >= h2[j]
    <3>1. i \in 1 .. Len(calls) + k /\ j \in 1 .. Len(calls) + k
      BY <1>3
    <3>2. CASE j <= k
      <4>1. i <= k
        BY <2>3, <3>2
      <4> QED
        BY <1>3, <1>5, <3>1, <3>2, <4>1
    <3>3. CASE ~(j <= k)
      <4>1. j + 1 - k \in 2 .. Len(calls) + 1 /\ j + 1 - k \in 1 .. Len(calls) + 1
            /\ 2 \in 1 .. Len(calls) + 1
        BY <1>1, <3>1, <3>3
      <4>2. h2[j] = h[j + 1 - k] /\ h[2] >= h[j + 1 - k] /\ h[j + 1 - k] \in Nat
        <5>1. h2[j] = h[j + 1 - k] /\ h[j + 1 - k] \in Nat
          BY <1>1, <1>3, <3>1, <3>3, <4>1
        <5>2. h[2] >= h[j + 1 - k]
          BY <1>1, <4>1 DEF Stacked
        <5> QED
          BY <5>1, <5>2
      <4>3. CASE i <= k
        BY <1>3, <1>5, <3>1, <4>2, <4>3, SMTT(30)
      <4>4. CASE ~(i <= k)
        <5>1. i + 1 - k \in 1 .. Len(calls) + 1 /\ i + 1 - k <= j + 1 - k
          BY <1>1, <2>3, <3>1, <4>4, SMTT(30)
        <5>2. h[i + 1 - k] >= h[j + 1 - k]
          BY <1>1, <4>1, <5>1 DEF Stacked
        <5> QED
          BY <1>3, <3>1, <4>2, <4>4, <5>2
      <4> QED
        BY <4>3, <4>4
    <3> QED
      BY <3>2, <3>3
  <2>4. h2[k] = t /\ h2[k + 1] = h[2] /\ h2[1] = t
    <3>1. k \in 1 .. Len(calls) + k /\ k + 1 \in 1 .. Len(calls) + k /\ 1 \in 1 .. Len(calls) + k
          /\ k <= k /\ ~(k + 1 <= k) /\ 1 <= k /\ k + 1 + 1 - k = 2
      BY <1>1
    <3> QED
      BY <1>3, <3>1
  <2>5. ASSUME NEW i \in 1 .. Len(calls')
        PROVE  StackOK(nodes', up2, calls', h2, i)
    <3>1. CASE i > k
      <4> DEFINE j == i + 1 - k
      <4>1. j \in 2 .. Len(calls) /\ i \in k + 1 .. Len(calls') /\ j + 1 \in 1 .. Len(calls) + 1
            /\ i \in 1 .. Len(calls) + k /\ i + 1 \in 1 .. Len(calls) + k
            /\ ~(i <= k) /\ ~(i + 1 <= k) /\ i + 1 + 1 - k = j + 1
        <5>1. Len(calls) \in Nat /\ Len(calls') = Len(calls) - 1 + k
          BY <1>1
        <5> QED
          BY <3>1, <5>1, SMTT(30)
      <4>2. calls'[i] = calls[j] /\ h2[i] = h[j] /\ h2[i + 1] = h[j + 1]
        <5>1. calls'[i] = calls[j] /\ h2[i] = h[j]
          BY <1>3, <4>1
        <5>2. h2[i + 1] = h[i + 1 + 1 - k]
          BY <1>3, <4>1
        <5> QED
          BY <4>1, <5>1, <5>2
      <4> HIDE DEF j
      <4>3. /\ CallsOf(nodes, calls) /\ Stacked(nodes, up, calls, ret, h)
            /\ j \in 2 .. Len(calls)
            /\ Frame(nodes, up, home, nodes', up2, home2, calls[1].node)
        BY <1>1, <4>1
      <4> QED
        BY <4>2, <4>3, MovedNow
    <3>2. CASE i = k
      BY <2>4, <3>2 DEF TopOK, StackOK
    <3>3. CASE i = 1 /\ k = 2
      BY <2>4, <3>3 DEF TopOK, StackOK
    <3> QED
      BY <3>1, <3>2, <3>3
  <2> QED
    BY <1>3, <2>1, <2>2, <2>3, <2>4, <2>5 DEF Stacked
<1>7. calls' # <<>> /\ Len(calls') \in Nat /\ Len(calls') >= k
      /\ 1 \in 1 .. Len(calls') /\ k \in 1 .. Len(calls')
  <2>1. Len(calls') \in Nat /\ Len(calls') >= k /\ Len(calls') # 0
    BY <1>1
  <2>2. Len(<<>>) = 0
    OBVIOUS
  <2> QED
    BY <2>1, <2>2
<1>8. Covered(nodes', calls', ret', decls')
  <2> SUFFICES ASSUME NEW x \in 1 .. Len(nodes')
               PROVE  \/ IsKid(nodes', x)
                      \/ \E i \in 1 .. Len(calls') : x \in Kept(calls'[i])
                      \/ calls' # <<>> /\ x \in Handed(calls'[1].at, ret')
                      \/ x \in ToSet(decls')
    BY DEF Covered
  <2>1. CASE x \in Kept(This) \cup Handed(l, ret) \cup (Len(nodes) + 1 .. Len(nodes'))
    BY <1>7, <2>1
  <2>2. CASE x \notin Kept(This) \cup Handed(l, ret) \cup (Len(nodes) + 1 .. Len(nodes'))
    <3>1. x \in 1 .. Len(nodes)
      BY <1>1, <1>2, <2>2
    <3>2. \/ IsKid(nodes, x)
          \/ \E i \in 1 .. Len(calls) : x \in Kept(calls[i])
          \/ x \in Handed(calls[1].at, ret)
          \/ x \in ToSet(decls)
      BY <3>1 DEF TreeOf, Covered
    <3>3. CASE IsKid(nodes, x)
      <4>1. IsKid(nodes', x)
        BY <1>1, <1>2, <3>1, <3>3, KidsStay
      <4> QED
        BY <4>1
    <3>4. CASE x \in ToSet(decls)
      BY <3>4 DEF Keep
    <3>5. ASSUME NEW i \in 1 .. Len(calls), x \in Kept(calls[i])
          PROVE  \E m \in 1 .. Len(calls') : x \in Kept(calls'[m])
      <4>1. i # 1
        BY <1>1, <2>2, <3>5
      <4>2. i - 1 + k \in k + 1 .. Len(calls') /\ (i - 1 + k) + 1 - k = i
            /\ i - 1 + k \in 1 .. Len(calls')
        BY <1>1, <4>1
      <4>3. calls'[i - 1 + k] = calls[i]
        BY <4>2
      <4> QED
        BY <3>5, <4>2, <4>3
    <3> QED
      BY <1>1, <2>2, <3>2, <3>3, <3>4, <3>5
  <2> QED
    BY <2>1, <2>2
<1>9. scope' = HomeOf(nodes', home2, h2[1])
  <2>1. h2[1] = t
    BY <1>1, <1>3
  <2> QED
    BY <2>1
<1>10. \A x \in ToSet(decls') : up2[x] = 0
  BY TopStays DEF Keep
<1>11. Bottomed(calls')
  <2>1. Bottomed(calls)
    BY <1>1 DEF TreeOf
  <2>2. CASE Len(calls) = 1
    <3>1. This.node = 0 /\ l \in ListLabels \cup {"run"} /\ Len(calls') = k
      BY <1>1, <2>1, <2>2 DEF Bottomed
    <3> QED
      BY <1>7, <3>1 DEF Bottomed
  <2>3. CASE Len(calls) # 1
    <3>1. Len(calls') \in k + 1 .. Len(calls') /\ Len(calls') + 1 - k = Len(calls)
      <4>1. Len(calls) \in Nat /\ Len(calls) >= 1 /\ Len(calls') = Len(calls) - 1 + k
        BY <1>1
      <4>2. Len(calls) >= 2
        BY <2>3, <4>1, AboveOne
      <4> QED
        BY <4>1, <4>2
    <3>2. calls'[Len(calls')] = calls[Len(calls)]
      BY <3>1
    <3> QED
      BY <1>7, <2>1, <3>2 DEF Bottomed
  <2> QED
    BY <2>2, <2>3
<1>12. Plain(nodes', calls', ret')
  BY DEF Plain
<1>13. TreeOf(up2, home2, h2)'
  BY <1>6, <1>8, <1>9, <1>10, <1>11, <1>12 DEF TreeOf
<1> QED
  BY <1>13 DEF Treed

(* The innermost call is replaced by one.                                  *)
LEMMA PutIs ==
    ASSUME Typed, calls # <<>>, NEW a, Puts(a)
    PROVE  /\ Len(calls') = Len(calls) /\ calls'[1] = a
           /\ \A i \in 2 .. Len(calls') : calls'[i] = calls[i]
<1> DEFINE S == CallType \cup {a}
           t == Tail(calls)
<1>1. calls \in Seq(CallType)
  BY DEF Typed, CallsOK
<1>2. /\ Len(calls) \in Nat /\ Len(calls) >= 1
      /\ t \in Seq(CallType) /\ Len(t) = Len(calls) - 1
      /\ \A i \in 1 .. Len(calls) - 1 : t[i] = calls[i + 1]
  BY <1>1, Replaced
<1> HIDE DEF t
<1>3. t \in Seq(S) /\ a \in S
  BY <1>2, SeqGrows
<1>4. calls' = <<a>> \o t
  BY DEF Puts, t
<1> HIDE DEF S
<1>5. /\ Len(calls') = Len(t) + 1 /\ calls'[1] = a
      /\ \A i \in 1 .. Len(t) : calls'[i + 1] = t[i]
  BY <1>3, <1>4, InFront
<1>6. ASSUME NEW i \in 2 .. Len(calls')
      PROVE  calls'[i] = calls[i]
  <2>1. i - 1 \in 1 .. Len(t) /\ i - 1 \in 1 .. Len(calls) - 1 /\ (i - 1) + 1 = i
    BY <1>2, <1>5
  <2> QED
    BY <1>2, <1>5, <2>1
<1> QED
  BY <1>2, <1>5, <1>6

(* The innermost call is replaced by two.                                  *)
LEMMA TwoIs ==
    ASSUME Typed, calls # <<>>, NEW a, NEW b, Calls(a, b)
    PROVE  /\ Len(calls') = Len(calls) + 1 /\ calls'[1] = a /\ calls'[2] = b
           /\ \A i \in 3 .. Len(calls') : calls'[i] = calls[i - 1]
<1> DEFINE S == CallType \cup {a, b}
           t == Tail(calls)
           r == <<a, b>> \o t
<1>1. calls \in Seq(CallType)
  BY DEF Typed, CallsOK
<1>2. /\ Len(calls) \in Nat /\ Len(calls) >= 1
      /\ t \in Seq(CallType) /\ Len(t) = Len(calls) - 1
      /\ \A i \in 1 .. Len(calls) - 1 : t[i] = calls[i + 1]
  BY <1>1, Replaced
<1>3. t \in Seq(S) /\ a \in S /\ b \in S
  BY <1>2, SeqGrows
<1> HIDE DEF S, t
<1>4. <<a, b>> \in Seq(S) /\ Len(<<a, b>>) = 2 /\ <<a, b>>[1] = a /\ <<a, b>>[2] = b
  BY <1>3
<1>5. /\ r \in Seq(S) /\ Len(r) = Len(t) + 2
      /\ \A i \in 1 .. Len(t) + 2 : r[i] = IF i <= 2 THEN <<a, b>>[i] ELSE t[i - 2]
  BY <1>2, <1>3, <1>4, ConcatProperties
<1>6. calls' = r
  BY DEF Calls, t
<1> HIDE DEF r
<1>7. ASSUME NEW i \in 3 .. Len(calls')
      PROVE  calls'[i] = calls[i - 1]
  <2>1. /\ i \in 1 .. Len(t) + 2 /\ ~(i <= 2) /\ i - 2 \in 1 .. Len(calls) - 1
        /\ (i - 2) + 1 = i - 1
    BY <1>2, <1>5, <1>6
  <2>2. calls'[i] = t[i - 2] /\ t[i - 2] = calls[(i - 2) + 1]
    BY <1>2, <1>5, <1>6, <2>1
  <2> QED
    BY <2>1, <2>2
<1>8. calls'[1] = a /\ calls'[2] = b
  <2>1. 1 \in 1 .. Len(t) + 2 /\ 2 \in 1 .. Len(t) + 2 /\ 1 <= 2 /\ 2 <= 2
    BY <1>2
  <2> QED
    BY <1>4, <1>5, <1>6, <2>1
<1> QED
  BY <1>2, <1>5, <1>6, <1>7, <1>8

(* The innermost call is replaced by one.                                  *)
LEMMA TreePuts ==
    ASSUME Typed, Typed', NEW l, Running(l), Keep, NEW a, Puts(a),
           NEW up, NEW home, NEW h, TreeOf(up, home, h),
           NEW up2, NEW home2, Nested(nodes', up2, home2),
           Frame(nodes, up, home, nodes', up2, home2, This.node),
           NEW t \in 0 .. Len(nodes'), TopOK(nodes', up2, a, t, h[2]),
           \A x \in Handed(a.at, ret') : up2[x] = t,
           \A x \in Kept(This) \cup Handed(l, ret) \cup (Len(nodes) + 1 .. Len(nodes')) :
             IsKid(nodes', x) \/ x \in Kept(a) \cup Handed(a.at, ret'),
           scope' = HomeOf(nodes', home2, t),
           This.node = 0 /\ l \in ListLabels \cup {"run"} =>
             a.node = 0 /\ a.at \in ListLabels \cup {"run"},
           a.at = "postfix" => nodes'[ret'].kind \in PlainKinds
    PROVE  Treed'
<1>1. calls # <<>>
  BY DEF Running
<1>2. /\ Len(calls') = Len(calls) /\ calls'[1] = a
      /\ \A i \in 2 .. Len(calls') : calls'[i] = calls[i]
  BY <1>1, PutIs
<1> DEFINE k == 1
<1>3. Len(calls) \in Nat
  BY Standing
<1>4. /\ k \in 1 .. 2 /\ Len(calls') = Len(calls) - 1 + k
      /\ \A i \in k + 1 .. Len(calls') : calls'[i] = calls[i + 1 - k]
      /\ calls'[k] = a /\ k # 2
  BY <1>2, <1>3
<1> HIDE DEF k
<1>5. \A x \in Kept(This) \cup Handed(l, ret) \cup (Len(nodes) + 1 .. Len(nodes')) :
        \/ IsKid(nodes', x)
        \/ x \in Kept(calls'[1]) \cup Kept(calls'[k]) \cup Handed(calls'[1].at, ret')
  BY <1>2
<1> QED
  BY <1>2, <1>4, <1>5, TreeMoves

(* The innermost call is replaced by two.                                  *)
LEMMA TreeCalls ==
    ASSUME Typed, Typed', NEW l, Running(l), Keep, NEW a, NEW b, Calls(a, b),
           NEW up, NEW home, NEW h, TreeOf(up, home, h),
           NEW up2, NEW home2, Nested(nodes', up2, home2),
           Frame(nodes, up, home, nodes', up2, home2, This.node),
           NEW t \in 0 .. Len(nodes'), TopOK(nodes', up2, b, t, h[2]),
           a.node = 0, \A x \in InList(a) : up2[x] = t, a.at \notin Waiting,
           \A x \in Kept(This) \cup Handed(l, ret) \cup (Len(nodes) + 1 .. Len(nodes')) :
             IsKid(nodes', x) \/ x \in Kept(a) \cup Kept(b),
           scope' = HomeOf(nodes', home2, t),
           This.node = 0 /\ l \in ListLabels \cup {"run"} =>
             b.node = 0 /\ b.at \in ListLabels \cup {"run"}
    PROVE  Treed'
<1>1. calls # <<>>
  BY DEF Running
<1>2. /\ Len(calls') = Len(calls) + 1 /\ calls'[1] = a /\ calls'[2] = b
      /\ \A i \in 3 .. Len(calls') : calls'[i] = calls[i - 1]
  BY <1>1, TwoIs
<1> DEFINE k == 2
<1>3. Len(calls) \in Nat
  BY Standing
<1>4. /\ k \in 1 .. 2 /\ Len(calls') = Len(calls) - 1 + k
      /\ \A i \in k + 1 .. Len(calls') : calls'[i] = calls[i + 1 - k]
      /\ calls'[k] = b
  BY <1>2, <1>3
<1> HIDE DEF k
<1>5. TopOK(nodes', up2, calls'[1], t, t) /\ calls'[1].node = 0
  BY <1>2 DEF TopOK
<1>6. Handed(a.at, ret') = {} /\ a.at # "postfix"
  BY DEF Handed, Waiting
<1>7. \A x \in Kept(This) \cup Handed(l, ret) \cup (Len(nodes) + 1 .. Len(nodes')) :
        \/ IsKid(nodes', x)
        \/ x \in Kept(calls'[1]) \cup Kept(calls'[k]) \cup Handed(calls'[1].at, ret')
  BY <1>2, <1>4
<1> QED
  BY <1>2, <1>4, <1>5, <1>6, <1>7, TreeMoves

-----------------------------------------------------------------------------
(* Steps that leave the nodes.                                             *)

(* The nodes stay as they are.                                             *)
LEMMA SameFrame ==
    ASSUME UNCHANGED nodes, NEW up, NEW home, NEW d, Len(nodes) \in Nat,
           Nested(nodes, up, home)
    PROVE  Nested(nodes', up, home) /\ Frame(nodes, up, home, nodes', up, home, d)
  BY DEF Frame

(* Only tokens are taken.                                                  *)
LEMMA TreeStays ==
    ASSUME Treed, UNCHANGED <<calls, ret, nodes, scope, outcome, decls>>
    PROVE  Treed'
  BY DEF Treed, TreeOf

(* The innermost call goes on with what it has.                            *)
LEMMA TreeRelabels ==
    ASSUME Typed, Typed', Treed, NEW l, Running(l), Keep, UNCHANGED <<ret, nodes, scope>>,
           NEW a, Puts(a), a.node = This.node, l # "run", a.at # "postfix",
           a.at \in ListLabels <=> l \in ListLabels,
           a.at \notin Owners \cup ListLabels => a.node = 0,
           InList(a) \cup Handed(a.at, ret) = InList(This) \cup Handed(l, ret)
    PROVE  Treed'
<1>1. PICK up, home, h : TreeOf(up, home, h)
  BY DEF Treed
<1>2. /\ Nested(nodes, up, home) /\ Len(nodes) \in Nat /\ This.at = l
      /\ StackOK(nodes, up, calls, h, 1) /\ This = calls[1]
      /\ h[1] = IF This.node # 0 THEN This.node ELSE h[2]
      /\ \A x \in InList(This) \cup Handed(l, ret) : up[x] = h[1]
      /\ scope = HomeOf(nodes, home, h[1])
      /\ h[1] \in 0 .. Len(nodes)
  <2>1. Len(calls) \in Nat /\ \A i \in 1 .. Len(calls) + 1 : h[i] \in 0 .. Len(nodes)
    BY <1>1, Standing
  <2>2. h[1] \in 0 .. Len(nodes)
    BY <2>1
  <2> QED
    BY <1>1, <2>2, Standing
<1>3. Nested(nodes', up, home) /\ Frame(nodes, up, home, nodes', up, home, This.node)
  BY <1>2, SameFrame
<1> DEFINE t == h[1]
<1>4. TopOK(nodes', up, a, t, h[2])
  BY <1>2 DEF TopOK, StackOK
<1>5. /\ t \in 0 .. Len(nodes') /\ \A x \in Handed(a.at, ret') : up[x] = t
      /\ scope' = HomeOf(nodes', home, t)
  BY <1>2
<1> HIDE DEF t
<1>6. \A x \in Kept(This) \cup Handed(l, ret) \cup (Len(nodes) + 1 .. Len(nodes')) :
        IsKid(nodes', x) \/ x \in Kept(a) \cup Handed(a.at, ret')
  <2>1. \A x : x \notin (Len(nodes) + 1 .. Len(nodes'))
    BY <1>2
  <2> QED
    BY <2>1 DEF Kept
<1>7. This.node = 0 /\ l \in ListLabels \cup {"run"} =>
        a.node = 0 /\ a.at \in ListLabels \cup {"run"}
  OBVIOUS
<1> QED
  BY <1>1, <1>3, <1>4, <1>5, <1>6, <1>7, TreePuts

(* A call begins on top of the innermost one.                              *)
LEMMA TreeDescends ==
    ASSUME Typed, Typed', Treed, NEW l, Running(l), Keep, UNCHANGED <<ret, nodes, scope>>,
           NEW a, NEW b, Calls(a, b), a.node = 0, a.at \notin Waiting,
           b.node = This.node, l # "run",
           b.node = 0 /\ l \in ListLabels => b.at \in ListLabels \cup {"run"},
           b.node # 0 => (b.at \in ListLabels <=> l \in ListLabels),
           b.at \notin Owners \cup ListLabels => b.node = 0,
           InList(a) \cup InList(b) = InList(This) \cup Handed(l, ret)
    PROVE  Treed'
<1>1. PICK up, home, h : TreeOf(up, home, h)
  BY DEF Treed
<1>2. /\ Nested(nodes, up, home) /\ Len(nodes) \in Nat /\ This.at = l
      /\ StackOK(nodes, up, calls, h, 1) /\ This = calls[1]
      /\ h[1] = IF This.node # 0 THEN This.node ELSE h[2]
      /\ \A x \in InList(This) \cup Handed(l, ret) : up[x] = h[1]
      /\ scope = HomeOf(nodes, home, h[1])
      /\ h[1] \in 0 .. Len(nodes)
  <2>1. Len(calls) \in Nat /\ \A i \in 1 .. Len(calls) + 1 : h[i] \in 0 .. Len(nodes)
    BY <1>1, Standing
  <2>2. h[1] \in 0 .. Len(nodes)
    BY <2>1
  <2> QED
    BY <1>1, <2>2, Standing
<1>3. Nested(nodes', up, home) /\ Frame(nodes, up, home, nodes', up, home, This.node)
  BY <1>2, SameFrame
<1> DEFINE t == h[1]
<1>4. TopOK(nodes', up, b, t, h[2])
  BY <1>2 DEF TopOK, StackOK
<1>5. /\ t \in 0 .. Len(nodes') /\ \A x \in InList(a) : up[x] = t
      /\ scope' = HomeOf(nodes', home, t)
  BY <1>2
<1> HIDE DEF t
<1>6. \A x \in Kept(This) \cup Handed(l, ret) \cup (Len(nodes) + 1 .. Len(nodes')) :
        IsKid(nodes', x) \/ x \in Kept(a) \cup Kept(b)
  <2>1. \A x : x \notin (Len(nodes) + 1 .. Len(nodes'))
    BY <1>2
  <2> QED
    BY <2>1 DEF Kept
<1>7. This.node = 0 /\ l \in ListLabels \cup {"run"} =>
        b.node = 0 /\ b.at \in ListLabels \cup {"run"}
  OBVIOUS
<1> QED
  BY <1>1, <1>3, <1>4, <1>5, <1>6, <1>7, TreeCalls

(* The innermost call returns the one node it has.                         *)
LEMMA TreeReturns ==
    ASSUME Typed, Typed', Levelled, Treed, NEW l, Running(l), Keep, UNCHANGED <<nodes, scope>>,
           Pops, l \notin Owners \cup ListLabels \cup {"run"},
           InList(This) \cup Handed(l, ret) = {ret'},
           l \in Primaries => nodes[ret'].kind \in PlainKinds
    PROVE  Treed'
<1>1. PICK up, home, h : TreeOf(up, home, h)
  BY DEF Treed
<1>2. /\ Nested(nodes, up, home) /\ Len(nodes) \in Nat /\ This.at = l
      /\ h[1] = IF This.node # 0 THEN This.node ELSE h[2]
      /\ \A x \in InList(This) \cup Handed(l, ret) : up[x] = h[1]
      /\ This.node = 0 /\ ~IsBlock(This)
  BY <1>1, Standing DEF IsBlock
<1>3. Nested(nodes', up, home) /\ Frame(nodes, up, home, nodes', up, home, This.node)
  BY <1>2, SameFrame
<1>4. up[ret'] = h[2]
  BY <1>2
<1>5. \A x \in Kept(This) \cup Handed(l, ret) \cup (Len(nodes) + 1 .. Len(nodes')) :
        IsKid(nodes', x) \/ x = ret'
  <2>1. \A x : x \notin (Len(nodes) + 1 .. Len(nodes'))
    BY <1>2
  <2> QED
    BY <1>2, <2>1 DEF Kept
<1> QED
  BY <1>1, <1>2, <1>3, <1>4, <1>5, TreePops

(* What a list has.                                                        *)
LEMMA ToSets ==
    /\ ToSet(<<>>) = {}
    /\ \A x : ToSet(<<x>>) = {x}
    /\ \A x, y : ToSet(<<x, y>>) = {x, y}
  BY DEF ToSet

(* What is appended is added.                                              *)
LEMMA ToSetAppend ==
    ASSUME NEW S, NEW s \in Seq(S), NEW e \in S
    PROVE  ToSet(Append(s, e)) = ToSet(s) \cup {e}
<1> DEFINE r == Append(s, e)
<1>1. /\ r \in Seq(S) /\ Len(r) = Len(s) + 1 /\ Len(s) \in Nat /\ r[Len(s) + 1] = e
      /\ \A i \in 1 .. Len(s) : r[i] = s[i]
  BY AppendTo
<1> HIDE DEF r
<1>2. DOMAIN r = 1 .. Len(s) \cup {Len(s) + 1} /\ DOMAIN s = 1 .. Len(s)
  BY <1>1, LenProperties
<1>3. \A x \in ToSet(r) : x \in ToSet(s) \cup {e}
  BY <1>1, <1>2 DEF ToSet
<1>4. \A x \in ToSet(s) \cup {e} : x \in ToSet(r)
  BY <1>1, <1>2 DEF ToSet
<1> QED
  BY <1>3, <1>4 DEF r

(* What a call has in its list.                                            *)
LEMMA InLists ==
    ASSUME NEW c
    PROVE  /\ c.at \notin NodeLists \cup {"rhs"} => InList(c) = {}
           /\ c.at \in NodeLists => InList(c) = ToSet(c.list)
           /\ c.at # "rhs" /\ c.list = <<>> => InList(c) = {}
  BY ToSets DEF InList, NodeLists, ListLabels

(* The innermost call goes on elsewhere, or with another list.             *)
LEMMA AsListed ==
    ASSUME Typed, NEW l, Running(l), NEW m, NEW s
    PROVE  /\ Listed(This, m, s).at = m /\ Listed(This, m, s).node = This.node
           /\ Listed(This, m, s).list = s
           /\ At(This, m).at = m /\ At(This, m).node = This.node /\ At(This, m).list = This.list
           /\ Since(This, s).at = m \/ m # "stmt_done"
           /\ Since(This, s).node = This.node /\ Since(This, s).list = This.list
<1>1. This \in CallType
  BY Innermost
<1> QED
  BY <1>1, CallAt DEF Listed, At, Since

(* The calls that have no node.                                            *)
LEMMA NoNode ==
    ASSUME Typed, Treed, NEW l, Running(l), l \notin Owners \cup ListLabels
    PROVE  This.node = 0
<1>1. PICK up, home, h : TreeOf(up, home, h)
  BY DEF Treed
<1> QED
  BY <1>1, Standing

(* A token is skipped.                                                     *)
LEMMA TreeSkips ==
    ASSUME Treed, SkipComma \/ SkipSemicolon \/ RecoverSkips
    PROVE  Treed'
  BY TreeStays DEF SkipComma, SkipSemicolon, RecoverSkips, Keep

(* The parser stops, with nothing changed.                                 *)
LEMMA TreeStops ==
    ASSUME Treed, UNCHANGED <<calls, ret, nodes, scope, decls>>, outcome' # "run"
    PROVE  Treed'
  BY DEF Treed, TreeOf

(* The parameters are parsed.                                              *)
LEMMA ParamTrees ==
    ASSUME Typed, Typed', Treed, NextParam \/ NoParam \/ (Param /\ ~Overflow)
    PROVE  Treed'
<1>1. PICK l, a :
        /\ l \in {"params", "param"}
        /\ Running(l) /\ Keep /\ UNCHANGED <<ret, nodes, scope>> /\ Puts(a)
        /\ a.node = This.node /\ a.at \in {"params", "param"}
  <2>1. CASE NextParam
    <3>1. Running("params") /\ Keep /\ UNCHANGED <<ret, nodes, scope>> /\ Puts(At(This, "param"))
      BY <2>1, Innermost DEF NextParam, Goto, Puts, At
    <3> QED
      BY <3>1, AsListed
  <2>2. CASE NoParam
    <3>1. Running("param") /\ Keep /\ UNCHANGED <<ret, nodes, scope>> /\ Puts(At(This, "params"))
      BY <2>2, Innermost DEF NoParam, Goto, Puts, At
    <3> QED
      BY <3>1, AsListed
  <2>3. CASE Param /\ ~Overflow
    <3>1. PICK s : /\ Running("param") /\ Keep /\ UNCHANGED <<ret, nodes, scope>>
                   /\ Puts(Listed(This, "params", s))
      BY <2>3, Innermost DEF Param, Goto, Puts, Listed
    <3> QED
      BY <3>1, AsListed
  <2> QED
    BY <2>1, <2>2, <2>3
<1>2. This.at = l
  BY <1>1, Innermost
<1>3. InList(a) \cup Handed(a.at, ret) = {} /\ InList(This) \cup Handed(l, ret) = {}
  BY <1>1, <1>2, InLists DEF NodeLists, ListLabels, Handed, Waiting
<1>4. /\ a.at \in Owners /\ a.at \notin ListLabels /\ l \notin ListLabels /\ l # "run"
      /\ a.at # "postfix"
  BY <1>1 DEF Owners, ListLabels
<1> QED
  BY <1>1, <1>3, <1>4, TreeRelabels

(* An argument is parsed, or the first one begins.                         *)
LEMMA ArgTrees ==
    ASSUME Typed, Typed', Treed, NextArg \/ (ArgParsed /\ ~Overflow) \/ OpenArgs
    PROVE  Treed'
<1>1. {"args", "item", "arg"} \subseteq NodeLists /\ {"args", "item", "arg"} \cap Waiting = {"arg"}
      /\ "postfix" \in Waiting \ NodeLists
      /\ {"args", "item", "arg", "postfix"} \cap (Owners \cup ListLabels) = {}
  BY DEF NodeLists, ListLabels, Owners, Waiting
<1>2. CASE NextArg
  <2> DEFINE a == At(This, "item")
  <2>1. Running("args") /\ Keep /\ UNCHANGED <<ret, nodes, scope>> /\ Puts(a)
    BY <1>2, Innermost DEF NextArg, Goto, Puts, At
  <2>2. a.at = "item" /\ a.node = This.node /\ a.list = This.list /\ This.at = "args"
    BY <2>1, AsListed, Innermost
  <2> HIDE DEF a
  <2>3. InList(a) = InList(This) /\ Handed(a.at, ret) = {} /\ Handed("args", ret) = {}
    BY <1>1, <2>2, InLists DEF Handed
  <2>4. This.node = 0
    BY <1>1, <2>1, NoNode
  <2> QED
    BY <1>1, <2>1, <2>2, <2>3, <2>4, TreeRelabels
<1>3. CASE ArgParsed /\ ~Overflow
  <2> DEFINE s == Append(This.list, ret)
             a == Listed(This, "args", s)
  <2>1. Running("arg") /\ Keep /\ UNCHANGED <<ret, nodes, scope>> /\ Puts(a)
    BY <1>3, Innermost DEF ArgParsed, Goto, Puts, Listed
  <2>2. a.at = "args" /\ a.node = This.node /\ a.list = s /\ This.at = "arg"
    <3> HIDE DEF s
    <3> QED
      BY <2>1, AsListed, Innermost
  <2> HIDE DEF a
  <2>3. ToSet(s) = ToSet(This.list) \cup {ret}
    <3>1. This.list \in Seq(1 .. Len(nodes)) /\ ret \in 1 .. Len(nodes)
      BY <1>1, <2>1, Innermost DEF CallOK
    <3> QED
      BY <3>1, ToSetAppend
  <2> HIDE DEF s
  <2>4. InList(a) \cup Handed(a.at, ret) = InList(This) \cup Handed("arg", ret)
    BY <1>1, <2>2, <2>3, InLists DEF Handed
  <2>5. This.node = 0
    BY <1>1, <2>1, NoNode
  <2> QED
    BY <1>1, <2>1, <2>2, <2>4, <2>5, TreeRelabels
<1>4. CASE OpenArgs
  <2> DEFINE s == <<ret>>
             a == With("args", s)
  <2>1. Running("postfix") /\ Keep /\ UNCHANGED <<ret, nodes, scope>> /\ Puts(a)
    BY <1>4, Innermost DEF OpenArgs, Goto, Puts, With
  <2>2. a.at = "args" /\ a.node = 0 /\ a.list = s /\ This.at = "postfix"
    BY <2>1, Innermost DEF With, Call
  <2> HIDE DEF a
  <2>3. ToSet(s) = {ret}
    BY ToSets
  <2> HIDE DEF s
  <2>4. InList(a) \cup Handed(a.at, ret) = InList(This) \cup Handed("postfix", ret)
    BY <1>1, <2>2, <2>3, InLists DEF Handed
  <2>5. This.node = 0
    BY <1>1, <2>1, NoNode
  <2> QED
    BY <1>1, <2>1, <2>2, <2>4, <2>5, TreeRelabels
<1> QED
  BY <1>2, <1>3, <1>4

(* A statement is kept in its list, or begins.                             *)
LEMMA StmtTrees ==
    ASSUME Typed, Typed', Treed, (StmtParsed /\ outcome' = outcome) \/ Recovered \/ Production
    PROVE  Treed'
<1>1. ListLabels \subseteq NodeLists /\ ListLabels \cap Waiting = {"stmt_done"}
      /\ {"stmts", "recover"} \subseteq ListLabels /\ "run" \notin ListLabels
      /\ "postfix" \notin ListLabels
  BY DEF NodeLists, ListLabels, Waiting
<1>2. CASE StmtParsed /\ outcome' = outcome
  <2> DEFINE s == Append(This.list, ret)
             m == IF nodes[ret].kind = "error" THEN "recover" ELSE "stmts"
             a == Listed(This, m, s)
  <2>1. Running("stmt_done") /\ outcome = "run"
    BY <1>2, Innermost DEF StmtParsed, Running
  <2>2. Keep /\ UNCHANGED <<ret, nodes, scope>> /\ Goto(<<a>>)
    BY <1>2, <2>1 DEF StmtParsed, Listed, Stop
  <2>3. Puts(a)
    BY <2>1, <2>2, Innermost DEF Goto, Puts
  <2>4. a.at = m /\ a.node = This.node /\ a.list = s /\ This.at = "stmt_done"
    <3> HIDE DEF s, m
    <3> QED
      BY <2>1, AsListed, Innermost
  <2>5. m \in {"stmts", "recover"}
    OBVIOUS
  <2> HIDE DEF a, m
  <2>6. ToSet(s) = ToSet(This.list) \cup {ret}
    <3>1. This.list \in Seq(1 .. Len(nodes)) /\ ret \in 1 .. Len(nodes)
      BY <1>1, <2>1, Innermost DEF CallOK
    <3> QED
      BY <3>1, ToSetAppend
  <2> HIDE DEF s
  <2>7. InList(a) \cup Handed(a.at, ret) = InList(This) \cup Handed("stmt_done", ret)
    BY <1>1, <2>4, <2>5, <2>6, InLists DEF Handed
  <2> QED
    BY <1>1, <2>1, <2>2, <2>3, <2>4, <2>5, <2>7, TreeRelabels
<1>3. CASE Recovered
  <2> DEFINE a == At(This, "stmts")
  <2>1. Running("recover") /\ Keep /\ UNCHANGED <<ret, nodes, scope>> /\ Puts(a)
    BY <1>3, Innermost DEF Recovered, Goto, Puts, At
  <2>2. a.at = "stmts" /\ a.node = This.node /\ a.list = This.list /\ This.at = "recover"
    BY <2>1, AsListed, Innermost
  <2> HIDE DEF a
  <2>3. InList(a) = InList(This) /\ Handed(a.at, ret) = {} /\ Handed("recover", ret) = {}
    BY <1>1, <2>2, InLists DEF Handed
  <2> QED
    BY <1>1, <2>1, <2>2, <2>3, TreeRelabels
<1>4. CASE Production
  <2> DEFINE k == Productions[Current]
             a == Call(k)
  <2>1. Running("stmt") /\ Keep /\ UNCHANGED <<ret, nodes, scope>> /\ Puts(a)
    BY <1>4, Innermost DEF Production, Goto, Puts
  <2>2. k \in Keywords
    BY <1>4, Produced DEF Production
  <2>3. a.at = k /\ a.node = 0 /\ a.list = <<>> /\ This.at = "stmt"
    BY <2>1, Innermost DEF Call
  <2>4. k \notin ListLabels \cup Owners \cup Waiting /\ k # "rhs" /\ k # "postfix"
        /\ "stmt" \notin ListLabels \cup Owners \cup Waiting \cup NodeLists \cup {"rhs"}
    BY <2>2 DEF Keywords, DeclLabels, ListLabels, Owners, Waiting, NodeLists
  <2> HIDE DEF a, k
  <2>5. InList(a) \cup Handed(a.at, ret) = {} /\ InList(This) \cup Handed("stmt", ret) = {}
    BY <2>3, <2>4, InLists DEF Handed
  <2>6. This.node = 0
    BY <2>1, <2>4, NoNode
  <2> QED
    BY <2>1, <2>3, <2>4, <2>5, <2>6, TreeRelabels
<1> QED
  BY <1>2, <1>3, <1>4

(* Which calls return what they have.                                      *)
LEMMA ReturnTrees ==
    ASSUME Typed, Typed', Levelled, Treed, Lhs \/ NoOperator \/ PostfixDone
    PROVE  Treed'
<1>1. /\ {"lhs", "operators", "postfix"} \cap (Owners \cup ListLabels \cup {"run"} \cup Primaries) = {}
      /\ "lhs" \in Waiting \ NodeLists /\ "postfix" \in Waiting \ NodeLists
      /\ "operators" \in NodeLists \ Waiting
  BY DEF Owners, ListLabels, Primaries, Waiting, NodeLists
<1>2. CASE Lhs /\ nodes[ret].kind = "error"
  <2>1. /\ Running("lhs") /\ Keep /\ UNCHANGED <<nodes, scope>> /\ Pops /\ ret' = ret
        /\ This.at = "lhs"
    BY <1>2, Innermost DEF Lhs, Return, Pops
  <2>2. InList(This) \cup Handed("lhs", ret) = {ret'}
    BY <1>1, <2>1, InLists DEF Handed
  <2> QED
    BY <1>1, <2>1, <2>2, TreeReturns
<1>3. CASE Lhs /\ nodes[ret].kind # "error"
  <2> DEFINE s == <<ret>>
             a == Listed(This, "operators", s)
  <2>1. Running("lhs") /\ Keep /\ UNCHANGED <<ret, nodes, scope>> /\ Puts(a)
    BY <1>3, Innermost DEF Lhs, Goto, Puts, Listed
  <2>2. a.at = "operators" /\ a.node = This.node /\ a.list = s /\ This.at = "lhs"
    BY <2>1, AsListed, Innermost
  <2> HIDE DEF a
  <2>3. ToSet(s) = {ret}
    BY ToSets
  <2> HIDE DEF s
  <2>4. InList(a) \cup Handed(a.at, ret) = InList(This) \cup Handed("lhs", ret)
    BY <1>1, <2>2, <2>3, InLists DEF Handed
  <2>5. This.node = 0
    BY <1>1, <2>1, NoNode
  <2> QED
    BY <1>1, <2>1, <2>2, <2>4, <2>5, TreeRelabels
<1>4. CASE NoOperator
  <2>1. /\ Running("operators") /\ Keep /\ UNCHANGED <<nodes, scope>> /\ Pops
        /\ ret' = This.list[1] /\ This.at = "operators"
    BY <1>4, Innermost DEF NoOperator, Return, Pops
  <2>2. ToSet(This.list) = {This.list[1]}
    <3>1. Len(This.list) = 1 /\ This.list \in Seq(1 .. Len(nodes))
      BY <1>1, <2>1, Innermost DEF CallOK
    <3>2. DOMAIN This.list = {1}
      BY <3>1, LenProperties
    <3> QED
      BY <3>2 DEF ToSet
  <2>3. InList(This) \cup Handed("operators", ret) = {ret'}
    BY <1>1, <2>1, <2>2, InLists DEF Handed
  <2> QED
    BY <1>1, <2>1, <2>3, TreeReturns
<1>5. CASE PostfixDone
  <2>1. /\ Running("postfix") /\ Keep /\ UNCHANGED <<nodes, scope>> /\ Pops /\ ret' = ret
        /\ This.at = "postfix"
    BY <1>5, Innermost DEF PostfixDone, Return, Pops
  <2>2. InList(This) \cup Handed("postfix", ret) = {ret'}
    BY <1>1, <2>1, InLists DEF Handed
  <2> QED
    BY <1>1, <2>1, <2>2, TreeReturns
<1> QED
  BY <1>2, <1>3, <1>4, <1>5

(* A call begins on top of one that is elsewhere in its function.          *)
LEMMA PushTrees ==
    ASSUME Typed, Typed', Treed, Infix \/ NoPrefix \/ OpenParen \/ PrefixOperator \/ ExprStmt
    PROVE  Treed'
<1>0. PICK l \in {"infix", "prefix", "primary", "stmt"}, m \in {"prefix", "primary", "infix"} : \E b :
        /\ Running(l) /\ Keep /\ UNCHANGED <<ret, nodes, scope>>
        /\ \E v : Calls([Call(m) EXCEPT !.level = v], b)
        /\ b.at \in {"lhs", "postfix", "paren", "operand", "expr_stmt"} /\ b.node = 0
  <2>1. CASE Infix
    <3> DEFINE b == At(This, "lhs")
    <3>1. Running("infix") /\ Keep /\ UNCHANGED <<ret, nodes, scope>> /\ Calls(Call("prefix"), b)
      BY <2>1, Innermost DEF Infix, Goto, Calls, At
    <3>2. b.at = "lhs" /\ b.node = This.node
      BY <3>1, AsListed
    <3>3. This.node = 0
      BY <3>1, NoNode DEF Owners, ListLabels
    <3> HIDE DEF b
    <3>4. Call("prefix") = [Call("prefix") EXCEPT !.level = 1]
      BY DEF Call
    <3>5. Calls([Call("prefix") EXCEPT !.level = 1], b)
      BY <3>1, <3>4
    <3>6. b.at \in {"lhs", "postfix", "paren", "operand", "expr_stmt"} /\ b.node = 0
      BY <3>2, <3>3
    <3> QED
      BY <3>1, <3>5, <3>6
  <2>2. CASE NoPrefix
    <3> DEFINE b == Call("postfix")
    <3>1. Running("prefix") /\ Keep /\ UNCHANGED <<ret, nodes, scope>> /\ Calls(Call("primary"), b)
      BY <2>2, Innermost DEF NoPrefix, Goto, Calls
    <3>2. b.at = "postfix" /\ b.node = 0 /\ Call("primary") = [Call("primary") EXCEPT !.level = 1]
      BY DEF Call
    <3> HIDE DEF b
    <3> QED
      BY <3>1, <3>2, ZenonT(40)
  <2>3. CASE OpenParen
    <3> DEFINE b == Call("paren")
    <3>1. Running("primary") /\ Keep /\ UNCHANGED <<ret, nodes, scope>> /\ Calls(Call("infix"), b)
      BY <2>3, Innermost DEF OpenParen, Goto, Calls, Expr
    <3>2. b.at = "paren" /\ b.node = 0 /\ Call("infix") = [Call("infix") EXCEPT !.level = 1]
      BY DEF Call
    <3> HIDE DEF b
    <3> QED
      BY <3>1, <3>2, ZenonT(40)
  <2>4. CASE PrefixOperator
    <3> DEFINE s == <<TokenAt(window, n)>>
               b == [Call("operand") EXCEPT !.list = s]
    <3>1. Running("prefix") /\ Keep /\ UNCHANGED <<ret, nodes, scope>> /\ Calls(Call("infix"), b)
      BY <2>4, Innermost DEF PrefixOperator, Goto, Calls, Expr
    <3> HIDE DEF s
    <3>2. b.at = "operand" /\ b.node = 0 /\ Call("infix") = [Call("infix") EXCEPT !.level = 1]
      BY DEF Call
    <3> HIDE DEF b
    <3> QED
      BY <3>1, <3>2
  <2>5. CASE ExprStmt
    <3> DEFINE b == Call("expr_stmt")
    <3>1. Running("stmt") /\ Keep /\ UNCHANGED <<ret, nodes, scope>> /\ Calls(Call("infix"), b)
      BY <2>5, Innermost DEF ExprStmt, Goto, Calls, Expr
    <3>2. b.at = "expr_stmt" /\ b.node = 0 /\ Call("infix") = [Call("infix") EXCEPT !.level = 1]
      BY DEF Call
    <3> HIDE DEF b
    <3> QED
      BY <3>1, <3>2, ZenonT(40)
  <2> QED
    BY <2>1, <2>2, <2>3, <2>4, <2>5
<1>1. PICK b :
        /\ l \in {"infix", "prefix", "primary", "stmt"} /\ m \in {"prefix", "primary", "infix"}
        /\ Running(l) /\ Keep /\ UNCHANGED <<ret, nodes, scope>>
        /\ \E v : Calls([Call(m) EXCEPT !.level = v], b)
        /\ b.at \in {"lhs", "postfix", "paren", "operand", "expr_stmt"} /\ b.node = 0
  BY <1>0
<1>2. PICK v : Calls([Call(m) EXCEPT !.level = v], b)
  BY <1>1
<1> DEFINE a == [Call(m) EXCEPT !.level = v]
<1>3. a.at = m /\ a.node = 0 /\ a.list = <<>> /\ This.at = l
  BY <1>1, Innermost DEF Call
<1>4. Calls(a, b)
  BY <1>2
<1> HIDE DEF a
<1>5. /\ {l, m, b.at} \cap (Owners \cup ListLabels \cup NodeLists \cup {"run", "rhs"}) = {}
      /\ {l, m} \cap Waiting = {}
  BY <1>1 DEF Owners, ListLabels, NodeLists, Waiting
<1>6. InList(a) \cup InList(b) = {} /\ InList(This) \cup Handed(l, ret) = {}
  BY <1>3, <1>5, InLists DEF Handed
<1>7. This.node = 0
  BY <1>1, <1>5, NoNode
<1> QED
  BY <1>1, <1>3, <1>4, <1>5, <1>6, <1>7, TreeDescends

(* The right operand begins.                                               *)
LEMMA OperatorTrees ==
    ASSUME Typed, Typed', Treed, Operator
    PROVE  Treed'
<1> DEFINE t == TokenAt(window, n)
           s == Append(This.list, t)
           a == RightOf(Current)
           b == Listed(This, "rhs", s)
<1>1. /\ Running("operators") /\ Keep /\ UNCHANGED <<ret, nodes, scope>> /\ Calls(a, b)
      /\ IsInfix(Current, This.level)
  BY Innermost DEF Operator, Goto, Calls, Listed
<1>2. b.at = "rhs" /\ b.node = This.node /\ b.list = s
  <2> HIDE DEF s
  <2> QED
    BY <1>1, AsListed
<1>3. a.node = 0 /\ a.list = <<>> /\ a.at \in {"prefix", "infix"}
  BY DEF RightOf, Expr, Call
<1> HIDE DEF a, b
<1>4. /\ CallOK(input, This, nodes) /\ This.at = "operators"
  BY <1>1, Innermost
<1>5. /\ "operators" \in NodeLists \ Waiting
      /\ {"operators", "rhs"} \cap (Owners \cup ListLabels \cup {"run"}) = {}
      /\ {"prefix", "infix"} \cap (NodeLists \cup Waiting \cup {"rhs"}) = {}
  BY DEF NodeLists, ListLabels, Owners, Waiting
<1>6. This.list \in Seq(1 .. Len(nodes)) /\ Len(This.list) = 1
  BY <1>4, <1>5 DEF CallOK
<1>7. s[1] = This.list[1]
  <2>1. This.list \in Seq(Int) /\ t \in Int
    <3>1. This.list \in Seq(Int)
      BY <1>1, Innermost, CallFields
    <3>2. LET c == Listed(This, "rhs", s)
          IN  CallOK(input, c, nodes') /\ c.list[2] = t /\ Len(c.list) = 2
              /\ TokenAt(window, n) \in 1 .. n
      BY <1>1, RhsCall
    <3>3. n \in Nat
      BY <1>1, Innermost
    <3> QED
      BY <3>1, <3>2, <3>3
  <2> HIDE DEF t
  <2> QED
    BY <1>6, <2>1, AppendTo
<1>8. ToSet(This.list) = {This.list[1]}
  <2>1. DOMAIN This.list = {1}
    BY <1>6, LenProperties
  <2> QED
    BY <2>1 DEF ToSet
<1> HIDE DEF s
<1>9. InList(a) \cup InList(b) = InList(This) \cup Handed("operators", ret)
  <2>1. InList(b) = {s[1]}
    BY <1>2 DEF InList
  <2>2. InList(a) = {} /\ Handed("operators", ret) = {}
    BY <1>3, <1>5, InLists DEF Handed
  <2>3. InList(This) = ToSet(This.list)
    BY <1>4, <1>5, InLists
  <2> QED
    BY <1>7, <1>8, <2>1, <2>2, <2>3
<1>10. This.node = 0
  BY <1>1, <1>5, NoNode
<1> QED
  BY <1>1, <1>2, <1>3, <1>5, <1>9, <1>10, TreeDescends

(* An argument begins.                                                     *)
LEMMA ArgBegins ==
    ASSUME Typed, Typed', Treed, Arg
    PROVE  Treed'
<1> DEFINE b == At(This, "arg")
<1>1. Running("item") /\ Keep /\ UNCHANGED <<ret, nodes, scope>> /\ Calls(Expr, b)
  BY Innermost DEF Arg, Goto, Calls, At
<1>2. b.at = "arg" /\ b.node = This.node /\ b.list = This.list /\ This.at = "item"
  BY <1>1, AsListed, Innermost
<1> HIDE DEF b
<1>3. Expr.node = 0 /\ Expr.list = <<>> /\ Expr.at = "infix"
  BY DEF Expr, Call
<1>4. /\ {"item", "arg"} \cap (Owners \cup ListLabels \cup {"run"}) = {}
      /\ {"item", "arg"} \subseteq NodeLists /\ {"item", "infix"} \cap Waiting = {}
  BY DEF Owners, ListLabels, NodeLists, Waiting
<1>5. InList(Expr) \cup InList(b) = InList(This) \cup Handed("item", ret)
  BY <1>2, <1>3, <1>4, InLists DEF Handed
<1>6. This.node = 0
  BY <1>1, <1>4, NoNode
<1> QED
  BY <1>1, <1>2, <1>3, <1>4, <1>5, <1>6, TreeDescends

(* The next statement begins.                                              *)
LEMMA NextStmtTrees ==
    ASSUME Typed, Typed', Treed, NextStmt
    PROVE  Treed'
<1> DEFINE b == Since(This, Eaten)
           a == Call("stmt")
<1>1. Running("stmts") /\ Keep /\ UNCHANGED <<ret, nodes, scope>> /\ Calls(a, b)
  BY Innermost DEF NextStmt, Goto, Calls, Since
<1>2. b.at = "stmt_done" /\ b.node = This.node /\ b.list = This.list /\ This.at = "stmts"
  <2>1. This \in CallType
    BY <1>1, Innermost
  <2> QED
    BY <1>1, <2>1, CallAt, Innermost, ZenonT(40) DEF Since
<1> HIDE DEF b
<1>3. a.node = 0 /\ a.list = <<>> /\ a.at = "stmt"
  BY DEF Call
<1> HIDE DEF a
<1>4. /\ {"stmts", "stmt_done"} \subseteq NodeLists \cap ListLabels
      /\ {"stmts", "stmt"} \cap Waiting = {} /\ "run" \notin ListLabels
  BY DEF ListLabels, NodeLists, Waiting
<1>5. InList(a) \cup InList(b) = InList(This) \cup Handed("stmts", ret)
  BY <1>2, <1>3, <1>4, InLists DEF Handed
<1> QED
  BY <1>1, <1>2, <1>3, <1>4, <1>5, TreeDescends

(* A branch or a body: what has been parsed is kept, and a call begins.    *)
LEMMA BranchTrees ==
    ASSUME Typed, Typed', Treed,
           NEW l \in {"then", "else", "body"}, Running(l), Keep, UNCHANGED <<ret, nodes, scope>>,
           NEW k \in {"brace", "stmt"}, NEW b, Calls(Call(k), b), b.node = This.node,
           b.at \in {"else", "complete"},
           \/ l = "else" /\ b.list = Append(This.list, ret)
           \/ l # "else" /\ b.list = <<ret>>
    PROVE  Treed'
<1> DEFINE a == Call(k)
<1>1. a.node = 0 /\ a.list = <<>> /\ a.at = k
  BY DEF Call
<1>2. /\ {"then", "else", "body", "complete"} \subseteq Owners
      /\ {"else", "complete"} \subseteq NodeLists
      /\ {"then", "body"} \cap NodeLists = {} /\ {"then", "else", "body"} \subseteq Waiting
      /\ {"brace", "stmt"} \cap (Waiting \cup {"rhs"}) = {}
      /\ {"then", "else", "body", "complete"} \cap (ListLabels \cup {"run"}) = {}
  BY DEF ListLabels, NodeLists, Waiting, Owners
<1>3. This.at = l /\ CallOK(input, This, nodes) /\ ret \in 1 .. Len(nodes)
  BY <1>2, Innermost
<1>4. ToSet(b.list) = InList(This) \cup {ret}
  <2>1. CASE l = "else"
    <3>1. This.list \in Seq(1 .. Len(nodes))
      BY <1>2, <1>3, <2>1 DEF CallOK
    <3>2. ToSet(Append(This.list, ret)) = ToSet(This.list) \cup {ret}
      BY <1>3, <3>1, ToSetAppend
    <3> QED
      BY <1>2, <1>3, <2>1, <3>2, InLists
  <2>2. CASE l # "else"
    <3>1. InList(This) = {}
      BY <1>2, <1>3, <2>2, InLists
    <3>2. ToSet(<<ret>>) = {ret}
      BY ToSets
    <3> QED
      BY <2>2, <3>1, <3>2
  <2> QED
    BY <2>1, <2>2
<1>5. InList(a) \cup InList(b) = InList(This) \cup Handed(l, ret)
  BY <1>1, <1>2, <1>4, InLists DEF Handed
<1>6. Calls(a, b)
  OBVIOUS
<1> HIDE DEF a
<1> QED
  BY <1>1, <1>2, <1>5, <1>6, TreeDescends

(* The statements of the source are complete.                              *)
LEMMA EndOfSourceTrees ==
    ASSUME Typed, Typed', Treed, EndOfSource
    PROVE  Treed'
<1> DEFINE a == At(This, "gather")
           b == Call("run")
<1>1. /\ Running("stmts") /\ Keep /\ UNCHANGED <<ret, nodes, scope>> /\ Calls(a, b)
      /\ This.node = 0
  BY Innermost DEF EndOfSource, Goto, Calls, At
<1>2. a.at = "gather" /\ a.node = This.node /\ a.list = This.list /\ This.at = "stmts"
  BY <1>1, AsListed, Innermost
<1>3. b.at = "run" /\ b.node = 0 /\ b.list = <<>>
  BY DEF Call
<1> HIDE DEF a, b
<1>4. /\ {"stmts", "gather"} \subseteq NodeLists /\ "stmts" \in ListLabels
      /\ {"stmts", "gather"} \cap Waiting = {}
  BY DEF ListLabels, NodeLists, Waiting
<1>5. InList(a) \cup InList(b) = InList(This) \cup Handed("stmts", ret)
  BY <1>2, <1>3, <1>4, InLists DEF Handed
<1> QED
  BY <1>1, <1>2, <1>3, <1>4, <1>5, TreeDescends

-----------------------------------------------------------------------------
(* Steps that make a node.                                                 *)

(* A node is added, and registered in the block s if it is a declaration.  *)
Added(ns, ns2, s) ==
    LET N == Len(ns) + 1
    IN  /\ Len(ns2) = N /\ ns2 \in Seq(NodeType(Len(ns2)))
        /\ \A id \in 1 .. Len(ns) :
             /\ ns2[id].kind = ns[id].kind /\ ns2[id].outer = ns[id].outer
             /\ ns2[id].kids = ns[id].kids
             /\ ns2[id].decls = IF id = s /\ ns2[N].kind \in DeclKinds
                                THEN <<N>> \o ns[id].decls ELSE ns[id].decls
        /\ ns2[N].decls = <<>> /\ (ns2[N].kind = "brace" => ns2[N].outer = s)

Longer(ns, up, home, ns2, up2, home2, v, s) ==
    /\ Nested(ns2, up2, home2) /\ \A d : Frame(ns, up, home, ns2, up2, home2, d)
    /\ up2[Len(ns) + 1] = v /\ home2[Len(ns) + 1] = s
    /\ \A x \in 1 .. Len(ns) : up2[x] = up[x] /\ home2[x] = home[x]
    /\ \A u \in 0 .. Len(ns) : HomeOf(ns2, home2, u) = HomeOf(ns, home, u)

(* There is one more node, made as a part of v.                            *)
LEMMA TreeAdded ==
    ASSUME NEW ns, ns \in Seq(NodeType(Len(ns))), NEW up, NEW home, Nested(ns, up, home),
           NEW ns2, NEW v \in 0 .. Len(ns), Added(ns, ns2, HomeOf(ns, home, v)),
           \A x \in ToSet(ns2[Len(ns) + 1].kids) :
             x \in 1 .. Len(ns) /\ up[x] = v /\ ns2[Len(ns) + 1].kind # "brace"
    PROVE  Longer(ns, up, home, ns2, Append(up, v), Append(home, HomeOf(ns, home, v)), v,
                  HomeOf(ns, home, v))
<1> DEFINE N == Len(ns) + 1
           s == HomeOf(ns, home, v)
           up2 == Append(up, v)
           home2 == Append(home, s)
<1>1. Len(ns) \in Nat
  BY LenProperties
<1>2. /\ Len(ns2) = N /\ ns2 \in Seq(NodeType(Len(ns2)))
      /\ \A id \in 1 .. Len(ns) :
           /\ ns2[id].kind = ns[id].kind /\ ns2[id].outer = ns[id].outer
           /\ ns2[id].kids = ns[id].kids
           /\ ns2[id].decls = IF id = s /\ ns2[N].kind \in DeclKinds
                              THEN <<N>> \o ns[id].decls ELSE ns[id].decls
      /\ ns2[N].decls = <<>> /\ (ns2[N].kind = "brace" => ns2[N].outer = s)
  BY DEF Added
<1>3. /\ up \in Seq(Nat) /\ home \in Seq(Nat) /\ Len(up) = Len(ns) /\ Len(home) = Len(ns)
  BY DEF Nested, Ups
<1>4. s \in Nat /\ v \in Nat
  <2>1. v \in Nat
    BY <1>1
  <2>2. v # 0 => home[v] \in Nat
    BY <1>1, <1>3, ElementOfSeq
  <2> QED
    BY <2>1, <2>2 DEF HomeOf
<1>5. N = Len(ns) + 1 /\ s = HomeOf(ns, home, v)
  OBVIOUS
<1> HIDE DEF s
<1>6. /\ up2[N] = v /\ home2[N] = s
      /\ \A x \in 1 .. Len(ns) : up2[x] = up[x] /\ home2[x] = home[x]
  BY <1>3, <1>4, AppendTo
<1>7. \A x \in ToSet(ns2[N].kids) : x < N /\ up[x] = v /\ ns2[N].kind # "brace"
  BY <1>1
<1>8. Nested(ns2, up2, home2)
  <2> HIDE DEF N
  <2> QED
    BY <1>2, <1>5, <1>7, NestedNew, SMTT(30)
<1> HIDE DEF up2, home2
<1>9. \A d : Frame(ns, up, home, ns2, up2, home2, d)
  BY <1>1, <1>2, <1>6 DEF Frame
<1>10. \A u \in 0 .. Len(ns) : HomeOf(ns2, home2, u) = HomeOf(ns, home, u)
  <2>1. Frame(ns, up, home, ns2, up2, home2, 0)
    BY <1>9
  <2> QED
    BY <1>1, <2>1, HomeStays
<1>11. Longer(ns, up, home, ns2, up2, home2, v, s)
  BY <1>6, <1>8, <1>9, <1>10 DEF Longer
<1> QED
  BY <1>11 DEF up2, home2, s

(* The same of a step, where its block is known.                           *)
LEMMA NodeMade ==
    ASSUME nodes \in Seq(NodeType(Len(nodes))), NEW up, NEW home, Nested(nodes, up, home),
           NEW v \in 0 .. Len(nodes), NEW s, s = HomeOf(nodes, home, v), Added(nodes, nodes', s),
           \A x \in ToSet(nodes'[NewId].kids) :
             x \in 1 .. Len(nodes) /\ up[x] = v /\ nodes'[NewId].kind # "brace"
    PROVE  \E up2, home2 : Longer(nodes, up, home, nodes', up2, home2, v, s)
<1> DEFINE ns2 == nodes'
<1>1. /\ Added(nodes, ns2, HomeOf(nodes, home, v))
      /\ \A x \in ToSet(ns2[Len(nodes) + 1].kids) :
           x \in 1 .. Len(nodes) /\ up[x] = v /\ ns2[Len(nodes) + 1].kind # "brace"
  BY DEF NewId
<1> HIDE DEF ns2
<1>2. Longer(nodes, up, home, ns2, Append(up, v), Append(home, s), v, s)
  BY <1>1, TreeAdded
<1> QED
  BY <1>2 DEF ns2

(* The new node is what the innermost call returns.                        *)
LEMMA NewPops ==
    ASSUME Typed, Typed', Levelled, Treed, NEW l, Running(l), Keep, scope' = scope,
           Pops, ret' = NewId, l \notin Owners \cup ListLabels \cup {"run"},
           Added(nodes, nodes', scope), nodes'[NewId].kind # "brace",
           ToSet(nodes'[NewId].kids) = InList(This) \cup Handed(l, ret),
           l \in Primaries => nodes'[NewId].kind \in PlainKinds
    PROVE  Treed'
<1>1. PICK up, home, h : TreeOf(up, home, h)
  BY DEF Treed
<1>2. /\ nodes \in Seq(NodeType(Len(nodes))) /\ Nested(nodes, up, home) /\ Len(nodes) \in Nat
      /\ \A x \in InList(This) \cup Handed(l, ret) : up[x] = h[1] /\ x \in 1 .. Len(nodes)
      /\ This.node = 0 /\ ~IsBlock(This) /\ h[1] = h[2] /\ h[1] \in 0 .. Len(nodes)
      /\ scope = HomeOf(nodes, home, h[1])
  <2>1. Len(calls) \in Nat /\ \A i \in 1 .. Len(calls) + 1 : h[i] \in 0 .. Len(nodes)
    BY <1>1, Standing
  <2>2. h[1] \in 0 .. Len(nodes)
    BY <2>1
  <2> QED
    BY <1>1, <2>2, Standing DEF IsBlock
<1> DEFINE N == Len(nodes) + 1
           t == h[1]
<1>3. NewId = N
  BY DEF NewId
<1>4. \A x \in ToSet(nodes'[NewId].kids) :
        x \in 1 .. Len(nodes) /\ up[x] = t /\ nodes'[NewId].kind # "brace"
  BY <1>2, <1>3
<1> HIDE DEF t
<1>5. t \in 0 .. Len(nodes) /\ scope = HomeOf(nodes, home, t)
  BY <1>2 DEF t
<1>6. PICK up2, home2 : Longer(nodes, up, home, nodes', up2, home2, t, scope)
  BY <1>2, <1>4, <1>5, NodeMade
<1>7. /\ Nested(nodes', up2, home2) /\ \A d : Frame(nodes, up, home, nodes', up2, home2, d)
      /\ up2[NewId] = t /\ home2[NewId] = scope
      /\ \A x \in 1 .. Len(nodes) : up2[x] = up[x] /\ home2[x] = home[x]
      /\ \A u \in 0 .. Len(nodes) : HomeOf(nodes', home2, u) = HomeOf(nodes, home, u)
  BY <1>3, <1>6 DEF Longer
<1>8. up2[ret'] = h[2]
  BY <1>2, <1>3, <1>7 DEF t
<1>9. \A x \in Kept(This) \cup Handed(l, ret) \cup (Len(nodes) + 1 .. Len(nodes')) :
        IsKid(nodes', x) \/ x = ret'
  <2>1. Len(nodes') = N
    BY DEF Added
  <2>2. \A x \in Len(nodes) + 1 .. Len(nodes') : x = ret'
    BY <1>2, <1>3, <2>1
  <2>3. N \in 1 .. Len(nodes')
    BY <1>2, <2>1
  <2>4. \A x \in Kept(This) \cup Handed(l, ret) : x \in ToSet(nodes'[N].kids)
    BY <1>2, <1>3 DEF Kept
  <2> QED
    BY <2>2, <2>3, <2>4 DEF IsKid
<1> QED
  BY <1>1, <1>2, <1>7, <1>8, <1>9, TreePops

(* The innermost call goes on, with the new node in its list or in its     *)
(* hand.                                                                   *)
LEMMA NewPuts ==
    ASSUME Typed, Typed', Treed, NEW l, Running(l), Keep, scope' = scope,
           NEW a, Puts(a), a.node = This.node, l \notin ListLabels \cup {"run"},
           a.at \notin ListLabels, a.at \notin Owners => a.node = 0,
           Added(nodes, nodes', scope), nodes'[NewId].kind # "brace",
           \A x \in InList(This) \cup Handed(l, ret) \cup {NewId} :
             x \in ToSet(nodes'[NewId].kids) \cup InList(a) \cup Handed(a.at, ret'),
           ToSet(nodes'[NewId].kids) \subseteq InList(This) \cup Handed(l, ret),
           InList(a) \cup Handed(a.at, ret')
             \subseteq InList(This) \cup Handed(l, ret) \cup {NewId},
           a.at = "postfix" => nodes'[ret'].kind \in PlainKinds
    PROVE  Treed'
<1>1. PICK up, home, h : TreeOf(up, home, h)
  BY DEF Treed
<1>2. /\ nodes \in Seq(NodeType(Len(nodes))) /\ Nested(nodes, up, home) /\ Len(nodes) \in Nat
      /\ This.at = l /\ StackOK(nodes, up, calls, h, 1) /\ This = calls[1]
      /\ h[1] = IF This.node # 0 THEN This.node ELSE h[2]
      /\ \A x \in InList(This) \cup Handed(l, ret) : up[x] = h[1] /\ x \in 1 .. Len(nodes)
      /\ scope = HomeOf(nodes, home, h[1])
      /\ h[1] \in 0 .. Len(nodes) /\ This.node \in 0 .. Len(nodes)
  <2>1. Len(calls) \in Nat /\ \A i \in 1 .. Len(calls) + 1 : h[i] \in 0 .. Len(nodes)
    BY <1>1, Standing
  <2>2. h[1] \in 0 .. Len(nodes)
    BY <2>1
  <2> QED
    BY <1>1, <2>2, Standing
<1> DEFINE N == Len(nodes) + 1
           t == h[1]
<1>3. NewId = N
  BY DEF NewId
<1>4. \A x \in ToSet(nodes'[NewId].kids) :
        x \in 1 .. Len(nodes) /\ up[x] = t /\ nodes'[NewId].kind # "brace"
  BY <1>2, <1>3
<1>5. t \in 0 .. Len(nodes) /\ scope = HomeOf(nodes, home, t)
  BY <1>2
<1>6. PICK up2, home2 : Longer(nodes, up, home, nodes', up2, home2, t, scope)
  BY <1>2, <1>4, <1>5, NodeMade
<1>7. /\ Nested(nodes', up2, home2) /\ \A d : Frame(nodes, up, home, nodes', up2, home2, d)
      /\ up2[NewId] = t /\ home2[NewId] = scope
      /\ \A x \in 1 .. Len(nodes) : up2[x] = up[x] /\ home2[x] = home[x]
      /\ \A u \in 0 .. Len(nodes) : HomeOf(nodes', home2, u) = HomeOf(nodes, home, u)
  BY <1>3, <1>6 DEF Longer
<1>8. Len(nodes') = N /\ N \in 1 .. Len(nodes')
  <2>1. Len(nodes') = N
    BY DEF Added
  <2> QED
    BY <1>2, <2>1
<1>9. \A x \in InList(a) \cup Handed(a.at, ret') : up2[x] = t
  BY <1>2, <1>3, <1>7
<1>10. TopOK(nodes', up2, a, t, h[2])
  <2>1. This.node # 0 => /\ up2[This.node] = h[2] /\ nodes'[This.node].kids = <<>>
                         /\ nodes'[This.node].kind # "brace" /\ This.node > h[2]
    <3> SUFFICES ASSUME This.node # 0
                 PROVE  /\ up2[This.node] = h[2] /\ nodes'[This.node].kids = <<>>
                        /\ nodes'[This.node].kind # "brace" /\ This.node > h[2]
      OBVIOUS
    <3>1. This.node \in 1 .. Len(nodes)
      BY <1>2
    <3>2. /\ up[This.node] = h[2] /\ This.node > h[2] /\ nodes[This.node].kids = <<>>
          /\ nodes[This.node].kind # "brace"
      BY <1>2 DEF StackOK
    <3> QED
      BY <1>7, <3>1, <3>2 DEF Added
  <2> QED
    BY <1>2, <1>9, <2>1 DEF TopOK
<1>11. t \in 0 .. Len(nodes') /\ scope' = HomeOf(nodes', home2, t)
  <2>1. t \in 0 .. Len(nodes')
    BY <1>2, <1>8
  <2>2. HomeOf(nodes', home2, t) = HomeOf(nodes, home, t)
    <3> HIDE DEF t, N
    <3> QED
      BY <1>5, <1>6 DEF Longer
  <2> QED
    BY <1>2, <2>1, <2>2
<1>12. \A x \in Kept(This) \cup Handed(l, ret) \cup (Len(nodes) + 1 .. Len(nodes')) :
         IsKid(nodes', x) \/ x \in Kept(a) \cup Handed(a.at, ret')
  <2>1. \A x \in Len(nodes) + 1 .. Len(nodes') : x = NewId
    BY <1>2, <1>3, <1>8
  <2>2. \A x \in ToSet(nodes'[NewId].kids) : IsKid(nodes', x)
    BY <1>3, <1>8 DEF IsKid
  <2>3. \A x \in InList(This) \cup Handed(l, ret) \cup {NewId} :
          IsKid(nodes', x) \/ x \in Kept(a) \cup Handed(a.at, ret')
    BY <2>2 DEF Kept
  <2>4. \A x \in {This.node} \ {0} : x \in Kept(a)
    BY DEF Kept
  <2> QED
    BY <2>1, <2>3, <2>4 DEF Kept
<1> HIDE DEF t
<1> QED
  BY <1>1, <1>7, <1>9, <1>10, <1>11, <1>12, TreePuts

(* A call begins that goes on with the new node, maybe under another call. *)
LEMMA NewOpens ==
    ASSUME Typed, Typed', Treed, NEW l, Running(l), Keep,
           l \notin Owners \cup ListLabels \cup {"run"},
           InList(This) \cup Handed(l, ret) = {},
           Added(nodes, nodes', scope), nodes'[NewId].kids = <<>>,
           scope' = IF nodes'[NewId].kind = "brace" THEN NewId ELSE scope,
           NEW b, b.node = NewId, b.at \in Owners \cup {"stmts"}, InList(b) = {},
           nodes'[NewId].kind = "brace" <=> b.at = "stmts",
           \/ Puts(b) /\ b.at \notin Waiting
           \/ \E a : Calls(a, b) /\ a.node = 0 /\ InList(a) = {} /\ a.at \notin Waiting
    PROVE  Treed'
<1>1. PICK up, home, h : TreeOf(up, home, h)
  BY DEF Treed
<1>2. /\ nodes \in Seq(NodeType(Len(nodes))) /\ Nested(nodes, up, home) /\ Len(nodes) \in Nat
      /\ This.node = 0 /\ h[1] = h[2] /\ h[1] \in 0 .. Len(nodes)
      /\ scope = HomeOf(nodes, home, h[1])
  <2>1. Len(calls) \in Nat /\ \A i \in 1 .. Len(calls) + 1 : h[i] \in 0 .. Len(nodes)
    BY <1>1, Standing
  <2>2. h[1] \in 0 .. Len(nodes)
    BY <2>1
  <2> QED
    BY <1>1, <2>2, Standing
<1> DEFINE N == Len(nodes) + 1
           v == h[2]
<1>3. NewId = N
  BY DEF NewId
<1>4. \A x \in ToSet(nodes'[NewId].kids) :
        x \in 1 .. Len(nodes) /\ up[x] = v /\ nodes'[NewId].kind # "brace"
  BY ToSets
<1>5. v \in 0 .. Len(nodes) /\ scope = HomeOf(nodes, home, v)
  BY <1>2
<1>6. PICK up2, home2 : Longer(nodes, up, home, nodes', up2, home2, v, scope)
  BY <1>2, <1>4, <1>5, NodeMade
<1>7. /\ Nested(nodes', up2, home2) /\ \A d : Frame(nodes, up, home, nodes', up2, home2, d)
      /\ up2[NewId] = v /\ home2[NewId] = scope
      /\ \A x \in 1 .. Len(nodes) : up2[x] = up[x] /\ home2[x] = home[x]
      /\ \A u \in 0 .. Len(nodes) : HomeOf(nodes', home2, u) = HomeOf(nodes, home, u)
  BY <1>3, <1>6 DEF Longer
<1>8. Len(nodes') = N /\ N \in 0 .. Len(nodes') /\ N > v /\ N # 0
  <2>1. Len(nodes') = N
    BY DEF Added
  <2> QED
    BY <1>2, <1>5, <2>1
<1>9. "stmts" \in ListLabels /\ ListLabels \cap Owners = {}
  BY DEF ListLabels, Owners
<1> DEFINE t == NewId
<1>10. TopOK(nodes', up2, b, t, h[2])
  BY <1>3, <1>7, <1>8, <1>9 DEF TopOK
<1>11. t \in 0 .. Len(nodes') /\ scope' = HomeOf(nodes', home2, t)
  BY <1>3, <1>7, <1>8 DEF HomeOf
<1>12. \A x \in Kept(This) \cup Handed(l, ret) \cup (Len(nodes) + 1 .. Len(nodes')) : x \in Kept(b)
  <2>1. \A x \in Len(nodes) + 1 .. Len(nodes') : x = NewId
    BY <1>2, <1>3, <1>8
  <2>2. NewId \in Kept(b)
    BY <1>3, <1>8 DEF Kept
  <2>3. Kept(This) \cup Handed(l, ret) = {}
    BY <1>2 DEF Kept
  <2> QED
    BY <2>1, <2>2, <2>3
<1> HIDE DEF t, N, v
<1>13. Frame(nodes, up, home, nodes', up2, home2, This.node)
  BY <1>7
<1>14. CASE Puts(b) /\ b.at \notin Waiting
  <2>1. Handed(b.at, ret') = {} /\ b.at # "postfix"
    BY <1>14 DEF Handed, Waiting
  <2>2. \A x \in Kept(This) \cup Handed(l, ret) \cup (Len(nodes) + 1 .. Len(nodes')) :
          IsKid(nodes', x) \/ x \in Kept(b) \cup Handed(b.at, ret')
    BY <1>12
  <2> QED
    BY <1>1, <1>7, <1>10, <1>11, <1>13, <1>14, <2>1, <2>2, TreePuts
<1>15. ASSUME NEW a, Calls(a, b) /\ a.node = 0 /\ InList(a) = {} /\ a.at \notin Waiting
       PROVE  Treed'
  <2>1. \A x \in Kept(This) \cup Handed(l, ret) \cup (Len(nodes) + 1 .. Len(nodes')) :
          IsKid(nodes', x) \/ x \in Kept(a) \cup Kept(b)
    BY <1>12
  <2> QED
    BY <1>1, <1>7, <1>10, <1>11, <1>13, <1>15, <2>1, TreeCalls
<1> QED
  BY <1>14, <1>15

(* The nodes are nodes after each step.                                    *)
LEMMA NodesTyped ==
    ASSUME Typed', Keep
    PROVE  nodes' \in Seq(NodeType(Len(nodes')))
  BY DEF Typed, NodeType, n, Keep

(* The node of the innermost call is complete.                             *)
LEMMA Closes ==
    ASSUME Typed, Typed', Levelled, Treed, NEW l, Running(l), Keep, l \in Owners \cup ListLabels,
           Pops, ret' = This.node, This.node # 0,
           scope' = IF IsBlock(This) THEN nodes[This.node].outer ELSE scope,
           Len(nodes') = Len(nodes),
           \A id \in 1 .. Len(nodes) : id # This.node => nodes'[id] = nodes[id],
           /\ nodes'[This.node].kind = nodes[This.node].kind
           /\ nodes'[This.node].outer = nodes[This.node].outer
           /\ nodes'[This.node].decls = nodes[This.node].decls,
           ToSet(nodes'[This.node].kids) = InList(This) \cup Handed(l, ret)
    PROVE  Treed'
<1>1. PICK up, home, h : TreeOf(up, home, h)
  BY DEF Treed
<1> DEFINE d == This.node
           ns2 == nodes'
<1>2. /\ nodes \in Seq(NodeType(Len(nodes))) /\ Nested(nodes, up, home) /\ Len(nodes) \in Nat
      /\ \A x \in InList(This) \cup Handed(l, ret) : up[x] = h[1] /\ x \in 1 .. Len(nodes)
      /\ h[1] = d /\ up[d] = h[2] /\ d \in 1 .. Len(nodes)
  BY <1>1, Standing
<1>3. ns2 \in Seq(NodeType(Len(ns2)))
  BY NodesTyped
<1>4. Nested(ns2, up, home)
  <2>1. \A x \in ToSet(ns2[d].kids) : x \in ToSet(nodes[d].kids) \/ up[x] = d
    BY <1>2
  <2>2. /\ Len(ns2) = Len(nodes) /\ \A id \in 1 .. Len(nodes) : id # d => ns2[id] = nodes[id]
        /\ ns2[d].kind = nodes[d].kind /\ ns2[d].outer = nodes[d].outer
        /\ ns2[d].decls = nodes[d].decls
    OBVIOUS
  <2> HIDE DEF ns2, d
  <2> QED
    BY <1>2, <1>3, <2>1, <2>2, NestedSet, SMTT(30)
<1>5. Frame(nodes, up, home, nodes', up, home, d)
  BY <1>2 DEF Frame
<1>6. \A x \in Kept(This) \cup Handed(l, ret) \cup (Len(nodes) + 1 .. Len(nodes')) :
        IsKid(nodes', x) \/ x = ret'
  <2>1. \A x \in Len(nodes) + 1 .. Len(nodes') : FALSE
    BY <1>2
  <2>2. \A x \in ToSet(nodes'[d].kids) : IsKid(nodes', x)
    BY <1>2 DEF IsKid
  <2>3. \A x \in InList(This) \cup Handed(l, ret) : IsKid(nodes', x)
    BY <2>2
  <2>4. \A x \in Kept(This) : x \in InList(This) \/ x = ret'
    BY DEF Kept
  <2> QED
    BY <2>1, <2>3, <2>4
<1>7. l \notin Primaries
  BY DEF Owners, ListLabels, Primaries
<1> QED
  BY <1>1, <1>2, <1>4, <1>5, <1>6, <1>7, TreePops

(* The arena ns2 comes after ns, which keeps its places.                   *)
Wider(ns, up, home, ns2, up2, home2, d) ==
    /\ Nested(ns2, up2, home2) /\ Frame(ns, up, home, ns2, up2, home2, d)
    /\ \A x \in 1 .. Len(ns) : up2[x] = up[x]

(* The node d gets its children after the new node N, which is one of them *)
(* and an error, and which is parsed as a part of d.                       *)
LEMMA ErrorUnder ==
    ASSUME NEW ns, ns \in Seq(NodeType(Len(ns))), NEW up, NEW home, Nested(ns, up, home),
           NEW ns2, ns2 \in Seq(NodeType(Len(ns2))), NEW N, N = Len(ns) + 1, Len(ns2) = N,
           NEW d \in 1 .. Len(ns),
           \A id \in 1 .. Len(ns) :
             /\ ns2[id].kind = ns[id].kind /\ ns2[id].outer = ns[id].outer
             /\ ns2[id].decls = ns[id].decls
             /\ id # d => ns2[id].kids = ns[id].kids,
           ns2[N] = ErrorNode, ns[d].kids = <<>>,
           \A x \in ToSet(ns2[d].kids) : x = N \/ (x \in 1 .. Len(ns) /\ up[x] = d)
    PROVE  \E up2, home2 : Wider(ns, up, home, ns2, up2, home2, d)
<1> DEFINE ns1 == Append(ns, ErrorNode)
           s == HomeOf(ns, home, d)
<1>1. Len(ns) \in Nat /\ N \in Nat
  BY LenProperties
<1>2. /\ ErrorNode \in NodeType(N) /\ ErrorNode.kind = "error" /\ ErrorNode.kids = <<>>
      /\ ErrorNode.decls = <<>>
  <2>1. ErrorNode \in NodeType(N)
    BY <1>1, ErrorIs
  <2> QED
    BY <2>1 DEF ErrorNode, Node
<1>3. /\ ns1 \in Seq(NodeType(Len(ns1))) /\ Len(ns1) = N /\ ns1[N] = ErrorNode
      /\ \A id \in 1 .. Len(ns) : ns1[id] = ns[id]
  <2> DEFINE e == ErrorNode
  <2>1. e \in NodeType(Len(ns) + 1) /\ e.kind # "binary"
    BY <1>2
  <2> HIDE DEF e
  <2>2. LET r == Append(ns, e)
        IN  /\ Extends(ns, r) /\ Len(r) = Len(ns) + 1 /\ r[Len(ns) + 1] = e
            /\ \A id \in 1 .. Len(ns) : r[id] = ns[id]
    BY <2>1, NodeAdded
  <2> QED
    BY <2>2 DEF e, Extends
<1> HIDE DEF ns1
<1>4. Added(ns, ns1, HomeOf(ns, home, d))
  <2>1. ns1[N].kind \notin DeclKinds /\ ns1[N].kind # "brace" /\ ns1[N].decls = <<>>
    BY <1>2, <1>3 DEF DeclKinds
  <2> QED
    BY <1>3, <2>1 DEF Added
<1>5. \A x \in ToSet(ns1[Len(ns) + 1].kids) :
        x \in 1 .. Len(ns) /\ up[x] = d /\ ns1[Len(ns) + 1].kind # "brace"
  BY <1>2, <1>3, ToSets
<1> DEFINE up2 == Append(up, d)
           home2 == Append(home, s)
<1>6. Longer(ns, up, home, ns1, up2, home2, d, s)
  <2>1. d \in 0 .. Len(ns)
    BY <1>1
  <2> QED
    BY <1>4, <1>5, <2>1, TreeAdded
<1> HIDE DEF up2, home2, s
<1>7. /\ Nested(ns1, up2, home2) /\ Frame(ns, up, home, ns1, up2, home2, d)
      /\ up2[N] = d /\ \A x \in 1 .. Len(ns) : up2[x] = up[x]
  BY <1>6 DEF Longer
<1>8. /\ \A id \in 1 .. Len(ns1) : /\ ns2[id].kind = ns1[id].kind
                                   /\ ns2[id].outer = ns1[id].outer
                                   /\ ns2[id].decls = ns1[id].decls
                                   /\ id # d => ns2[id].kids = ns1[id].kids
      /\ d \in 1 .. Len(ns1) /\ Len(ns2) = Len(ns1)
  <2>1. \A id \in 1 .. Len(ns1) : id = N \/ id \in 1 .. Len(ns)
    BY <1>1, <1>3
  <2>2. d # N
    BY <1>1
  <2> QED
    BY <1>1, <1>3, <2>1, <2>2
<1>9. Nested(ns2, up2, home2)
  <2>1. \A x \in ToSet(ns2[d].kids) : x \in ToSet(ns1[d].kids) \/ up2[x] = d
    BY <1>7
  <2> QED
    BY <1>3, <1>7, <1>8, <2>1, NestedSame
<1>10. Frame(ns, up, home, ns2, up2, home2, d)
  BY <1>1, <1>3, <1>7, <1>8 DEF Frame
<1>11. Wider(ns, up, home, ns2, up2, home2, d)
  BY <1>7, <1>9, <1>10 DEF Wider
<1> QED
  BY <1>11

(* The node of the innermost call is complete, but its last child is       *)
(* missing.                                                                *)
LEMMA ClosesBadly ==
    ASSUME Typed, Typed', Levelled, Treed, NEW l, Running(l), Keep, l \in Owners,
           Pops, ret' = This.node, This.node # 0, scope' = scope,
           Len(nodes') = Len(nodes) + 1, nodes'[NewId] = ErrorNode,
           \A id \in 1 .. Len(nodes) :
             /\ nodes'[id].kind = nodes[id].kind /\ nodes'[id].outer = nodes[id].outer
             /\ nodes'[id].decls = nodes[id].decls
             /\ id # This.node => nodes'[id].kids = nodes[id].kids,
           ToSet(nodes'[This.node].kids) = InList(This) \cup Handed(l, ret) \cup {NewId}
    PROVE  Treed'
<1>1. PICK up, home, h : TreeOf(up, home, h)
  BY DEF Treed
<1> DEFINE d == This.node
           N == NewId
           ns2 == nodes'
<1>2. /\ nodes \in Seq(NodeType(Len(nodes))) /\ Nested(nodes, up, home) /\ Len(nodes) \in Nat
      /\ \A x \in InList(This) \cup Handed(l, ret) : up[x] = h[1] /\ x \in 1 .. Len(nodes)
      /\ h[1] = d /\ up[d] = h[2] /\ d \in 1 .. Len(nodes) /\ This.at = l
      /\ StackOK(nodes, up, calls, h, 1) /\ This = calls[1]
  BY <1>1, Standing
<1>3. ns2 \in Seq(NodeType(Len(ns2)))
  BY NodesTyped
<1>4. nodes[d].kids = <<>>
  BY <1>2 DEF StackOK
<1>5. N = Len(nodes) + 1
  BY DEF NewId
<1>6. \E up2, home2 : Wider(nodes, up, home, ns2, up2, home2, d)
  <2>1. \A x \in ToSet(ns2[d].kids) : x = N \/ (x \in 1 .. Len(nodes) /\ up[x] = d)
    BY <1>2
  <2>2. /\ Len(ns2) = N /\ ns2[N] = ErrorNode
        /\ \A id \in 1 .. Len(nodes) :
             /\ ns2[id].kind = nodes[id].kind /\ ns2[id].outer = nodes[id].outer
             /\ ns2[id].decls = nodes[id].decls
             /\ id # d => ns2[id].kids = nodes[id].kids
    BY <1>5
  <2> HIDE DEF ns2, d, N
  <2> QED
    BY <1>2, <1>3, <1>4, <1>5, <2>1, <2>2, ErrorUnder
<1>7. PICK up2, home2 : Wider(nodes, up, home, ns2, up2, home2, d)
  BY <1>6
<1>8. Nested(nodes', up2, home2) /\ Frame(nodes, up, home, nodes', up2, home2, This.node)
  BY <1>7 DEF Wider
<1>9. up2[ret'] = h[2]
  BY <1>2, <1>7 DEF Wider
<1>10. \A x \in Kept(This) \cup Handed(l, ret) \cup (Len(nodes) + 1 .. Len(nodes')) :
        IsKid(nodes', x) \/ x = ret'
  <2>1. d \in 1 .. Len(nodes')
    BY <1>2
  <2>2. \A x \in ToSet(nodes'[d].kids) : IsKid(nodes', x)
    BY <2>1 DEF IsKid
  <2>3. \A x \in Len(nodes) + 1 .. Len(nodes') : x = NewId
    BY <1>2, <1>5
  <2>4. \A x \in Kept(This) : x \in InList(This) \/ x = ret'
    BY DEF Kept
  <2> QED
    BY <2>2, <2>3, <2>4
<1>11. l \notin Primaries /\ ~IsBlock(This)
  BY <1>2 DEF Owners, ListLabels, Primaries, IsBlock
<1> QED
  BY <1>1, <1>8, <1>9, <1>10, <1>11, TreePops

(* A node that is no declaration is added.                                 *)
LEMMA AppendAdded ==
    ASSUME Typed, nodes' \in Seq(NodeType(Len(nodes'))), NEW u, nodes' = Append(nodes, u),
           u.kind \notin DeclKinds, u.decls = <<>>, u.kind = "brace" => u.outer = scope
    PROVE  Added(nodes, nodes', scope) /\ nodes'[NewId] = u
<1> DEFINE S == NodeType(Len(nodes)) \cup {u}
<1>1. nodes \in Seq(S) /\ u \in S
  <2>1. nodes \in Seq(NodeType(Len(nodes)))
    BY DEF Typed
  <2> QED
    BY <2>1, SeqGrows
<1> HIDE DEF S
<1>2. /\ Len(Append(nodes, u)) = Len(nodes) + 1 /\ Append(nodes, u)[Len(nodes) + 1] = u
      /\ \A i \in 1 .. Len(nodes) : Append(nodes, u)[i] = nodes[i]
  BY <1>1, AppendTo
<1> QED
  BY <1>2 DEF Added, NewId

(* The same for a step.                                                    *)
LEMMA AppendAdds ==
    ASSUME Typed, Typed', Keep, NEW u, nodes' = Append(nodes, u),
           u.kind \notin DeclKinds, u.decls = <<>>, u.kind = "brace" => u.outer = scope
    PROVE  Added(nodes, nodes', scope) /\ nodes'[NewId] = u
<1>1. nodes' \in Seq(NodeType(Len(nodes')))
  BY NodesTyped
<1> QED
  BY <1>1, AppendAdded

(* A declaration is added.                                                 *)
LEMMA DeclaredAdds ==
    ASSUME Typed, NEW k \in DeclKinds
    PROVE  /\ Added(nodes, Declared(k), scope)
           /\ Declared(k)[NewId].kind = k /\ Declared(k)[NewId].kids = <<>>
<1> DEFINE u == Node(k, <<Name>>, <<>>)
           all == Append(nodes, u)
           N == Len(nodes) + 1
<1>1. nodes \in Seq(NodeType(Len(nodes))) /\ Len(nodes) \in Nat /\ scope \in 0 .. Len(nodes)
  BY LenProperties DEF Typed
<1>2. /\ Extends(nodes, Declared(k)) /\ Len(Declared(k)) = N /\ Declared(k)[NewId].kind = k
  BY DeclaredNodes
<1>3. /\ Len(all) = N /\ all[N] = u /\ \A i \in 1 .. Len(nodes) : all[i] = nodes[i]
      /\ all \in Seq(NodeType(Len(nodes)) \cup {u})
  <2> DEFINE S == NodeType(Len(nodes)) \cup {u}
  <2> HIDE DEF u
  <2>1. nodes \in Seq(S) /\ u \in S
    BY <1>1, SeqGrows
  <2> HIDE DEF S
  <2>2. /\ Len(all) = N /\ all[N] = u /\ \A i \in 1 .. Len(nodes) : all[i] = nodes[i]
        /\ all \in Seq(S)
    BY <2>1, AppendTo
  <2> QED
    BY <2>2 DEF S
<1>4. u.kind = k /\ u.decls = <<>> /\ u.kids = <<>> /\ k # "brace"
  BY DEF Node, DeclKinds
<1>5. Declared(k) = IF scope = 0 THEN all ELSE [all EXCEPT ![scope].decls = <<NewId>> \o @]
  BY DEF Declared, New
<1>6. NewId = N /\ N \notin 1 .. Len(nodes) /\ N \in 1 .. N
  BY <1>1 DEF NewId
<1> HIDE DEF u, all, N
<1>7. /\ Declared(k)[N] = u
      /\ \A i \in 1 .. Len(nodes) :
           /\ Declared(k)[i].kind = nodes[i].kind /\ Declared(k)[i].outer = nodes[i].outer
           /\ Declared(k)[i].kids = nodes[i].kids
           /\ Declared(k)[i].decls = IF i = scope THEN <<N>> \o nodes[i].decls ELSE nodes[i].decls
  <2>1. CASE scope = 0
    <3>1. Declared(k) = all /\ \A i \in 1 .. Len(nodes) : i # scope
      BY <1>5, <2>1
    <3> QED
      BY <1>3, <3>1
  <2>2. CASE scope # 0
    <3>1. scope \in 1 .. Len(nodes) /\ scope # N
      BY <1>1, <1>6, <2>2
    <3>2. DOMAIN all = 1 .. N
      BY <1>3, LenProperties
    <3>3. scope \in DOMAIN all /\ N \in DOMAIN all /\ 1 .. Len(nodes) \subseteq DOMAIN all
      BY <1>1, <1>3, <1>6, <3>1, <3>2 DEF N
    <3>4. Declared(k) = [all EXCEPT ![scope].decls = <<N>> \o @]
      BY <1>5, <1>6, <2>2
    <3>5. Declared(k)[N] = u
      BY <1>3, <3>1, <3>3, <3>4
    <3>6. ASSUME NEW i \in 1 .. Len(nodes)
          PROVE  /\ i # scope => Declared(k)[i] = nodes[i]
                 /\ i = scope => Declared(k)[i] = [nodes[i] EXCEPT !.decls = <<N>> \o @]
      BY <1>3, <3>3, <3>4
    <3>7. ASSUME NEW i \in 1 .. Len(nodes)
          PROVE  nodes[i] = [kind |-> nodes[i].kind, toks |-> nodes[i].toks,
                             kids |-> nodes[i].kids, decls |-> nodes[i].decls,
                             outer |-> nodes[i].outer]
      BY <1>1, NodeFields
    <3>8. ASSUME NEW i \in 1 .. Len(nodes)
          PROVE  /\ Declared(k)[i].kind = nodes[i].kind /\ Declared(k)[i].outer = nodes[i].outer
                 /\ Declared(k)[i].kids = nodes[i].kids
                 /\ Declared(k)[i].decls = IF i = scope THEN <<N>> \o nodes[i].decls
                                           ELSE nodes[i].decls
      BY <3>6, <3>7
    <3> QED
      BY <3>5, <3>8
  <2> QED
    BY <2>1, <2>2
<1>8. Declared(k) \in Seq(NodeType(Len(Declared(k))))
  BY <1>2 DEF Extends
<1> QED
  BY <1>2, <1>4, <1>6, <1>7, <1>8 DEF Added, N

(* Calls that have nothing yet.                                            *)
Bare == {"primary", "stmt", "brace", "if", "while", "ret", "brk", "nxt"} \cup DeclLabels

(* Such a call has nothing.                                                *)
LEMMA BareIs ==
    ASSUME Typed, NEW l \in Bare, Running(l)
    PROVE  /\ InList(This) \cup Handed(l, ret) = {}
           /\ l \notin Owners \cup ListLabels \cup {"run"}
<1>1. l \notin NodeLists \cup {"rhs"} \cup Waiting \cup Owners \cup ListLabels \cup {"run"}
  BY DEF Bare, NodeLists, ListLabels, Waiting, Owners, DeclLabels
<1>2. This.at = l
  BY Innermost
<1> QED
  BY <1>1, <1>2, InLists DEF Handed

(* A leaf is returned.                                                     *)
LEMMA LeafTrees ==
    ASSUME Typed, Typed', Levelled, Treed, NEW l \in Bare, Running(l), Keep, UNCHANGED scope,
           Pops, ret' = NewId, NEW k, NEW ts, nodes' = Append(nodes, Node(k, ts, <<>>)),
           k \notin DeclKinds \cup {"brace"}, l = "primary" => k \in PlainKinds
    PROVE  Treed'
<1> DEFINE u == Node(k, ts, <<>>)
<1>1. u.kind = k /\ u.decls = <<>> /\ u.kids = <<>> /\ nodes' = Append(nodes, u)
  BY DEF Node
<1> HIDE DEF u
<1>2. Added(nodes, nodes', scope) /\ nodes'[NewId] = u
  BY <1>1, AppendAdds
<1>3. ToSet(nodes'[NewId].kids) = InList(This) \cup Handed(l, ret)
  BY <1>1, <1>2, BareIs, ToSets
<1>4. l \in Primaries => l = "primary"
  BY DEF Primaries, Bare, DeclLabels
<1> QED
  BY <1>1, <1>2, <1>3, <1>4, BareIs, NewPops

(* Leaves: atoms, errors, and jumps.                                       *)
LEMMA LeavesTrees ==
    ASSUME Typed, Typed', Levelled, Treed,
           Atom \/ NoExpr \/ ExprAtEnd \/ StmtAtEnd \/ DeclAtEnd \/ BrkOrNxt
    PROVE  Treed'
<1>1. ErrorNode = Node("error", <<>>, <<>>)
  BY DEF ErrorNode
<1>2. {"error", "literal", "name"} \subseteq PlainKinds /\ "error" \notin DeclKinds
      /\ {"error", "literal", "name", "brk", "nxt"} \cap (DeclKinds \cup {"brace"}) = {}
  BY DEF PlainKinds, DeclKinds
<1>3. CASE Atom
  <2> DEFINE ts == <<TokenAt(window, n)>>
  <2>1. /\ Running("primary") /\ Keep /\ UNCHANGED scope /\ Pops /\ ret' = NewId
        /\ nodes' = Append(nodes, Node(Current, ts, <<>>)) /\ Current \in {"literal", "name"}
    BY <1>3, Innermost DEF Atom, Return, Pops, New
  <2> HIDE DEF ts
  <2>2. "primary" \in Bare
    BY DEF Bare
  <2>3. Current \notin DeclKinds \cup {"brace"} /\ Current \in PlainKinds
    BY <1>2, <2>1
  <2> QED
    BY <2>1, <2>2, <2>3, LeafTrees
<1>4. CASE NoExpr \/ ExprAtEnd \/ StmtAtEnd \/ DeclAtEnd
  <2>1. PICK l \in Bare : /\ Running(l) /\ Keep /\ UNCHANGED scope /\ Pops /\ ret' = NewId
                          /\ nodes' = Append(nodes, ErrorNode)
    <3>1. CASE NoExpr \/ ExprAtEnd
      <4>1. /\ Running("primary") /\ Keep /\ UNCHANGED scope /\ Pops /\ ret' = NewId
            /\ nodes' = Append(nodes, ErrorNode)
        BY <3>1 DEF NoExpr, ExprAtEnd, Return, Pops, Running
      <4> QED
        BY <4>1 DEF Bare
    <3>2. CASE StmtAtEnd
      <4>1. /\ Running("stmt") /\ Keep /\ UNCHANGED scope /\ Pops /\ ret' = NewId
            /\ nodes' = Append(nodes, ErrorNode)
        BY <3>2 DEF StmtAtEnd, Return, Pops, Running
      <4> QED
        BY <4>1 DEF Bare
    <3>3. CASE DeclAtEnd
      <4>1. PICK l \in DeclKinds : Running(l)
        BY <3>3 DEF DeclAtEnd
      <4>2. /\ Keep /\ UNCHANGED scope /\ Pops /\ ret' = NewId
            /\ nodes' = Append(nodes, ErrorNode)
        BY <3>3, <4>1 DEF DeclAtEnd, Return, Pops, Running
      <4>3. l \in Bare
        BY DEF Bare, DeclLabels, DeclKinds
      <4> QED
        BY <4>1, <4>2, <4>3
    <3> QED
      BY <1>4, <3>1, <3>2, <3>3
  <2> QED
    BY <1>1, <1>2, <2>1, LeafTrees
<1>5. CASE BrkOrNxt
  <2>1. PICK l \in {"brk", "nxt"} : Running(l) /\ nodes' = New(l, <<>>, <<>>)
    BY <1>5 DEF BrkOrNxt
  <2>2. /\ Keep /\ UNCHANGED scope /\ Pops /\ ret' = NewId
        /\ nodes' = Append(nodes, Node(l, <<>>, <<>>))
    BY <1>5, <2>1 DEF BrkOrNxt, Return, Pops, Running, New
  <2>3. l \in Bare /\ l \notin DeclKinds \cup {"brace"} /\ l # "primary"
    BY DEF Bare, DeclKinds
  <2> QED
    BY <2>1, <2>2, <2>3, LeafTrees
<1> QED
  BY <1>3, <1>4, <1>5

(* What has been parsed is wrapped.                                        *)
LEMMA WrapTrees ==
    ASSUME Typed, Typed', Levelled, Treed, Operand \/ CloseParen \/ WrapExpr
    PROVE  Treed'
<1>1. PICK l, k, ts :
        /\ l \in {"operand", "paren", "expr_stmt"} /\ k \in {"unary", "paren", "expr_stmt"}
        /\ Running(l) /\ Keep /\ UNCHANGED scope /\ Pops /\ ret' = NewId
        /\ nodes' = Append(nodes, Node(k, ts, <<ret>>))
        /\ l = "paren" => k = "paren"
  <2>1. CASE Operand
    <3> DEFINE ts == This.list
    <3>1. /\ Running("operand") /\ Keep /\ UNCHANGED scope /\ Pops /\ ret' = NewId
          /\ nodes' = Append(nodes, Node("unary", ts, <<ret>>))
      BY <2>1 DEF Operand, Return, Pops, Running, New
    <3> HIDE DEF ts
    <3> QED
      BY <3>1
  <2>2. CASE CloseParen
    <3> DEFINE ts == <<>>
    <3>1. /\ Running("paren") /\ Keep /\ UNCHANGED scope /\ Pops /\ ret' = NewId
          /\ nodes' = Append(nodes, Node("paren", ts, <<ret>>))
      BY <2>2 DEF CloseParen, Return, Pops, Running, New
    <3> HIDE DEF ts
    <3> QED
      BY <3>1
  <2>3. CASE WrapExpr
    <3> DEFINE ts == <<>>
    <3>1. /\ Running("expr_stmt") /\ Keep /\ UNCHANGED scope /\ Pops /\ ret' = NewId
          /\ nodes' = Append(nodes, Node("expr_stmt", ts, <<ret>>))
      BY <2>3 DEF WrapExpr, Return, Pops, Running, New
    <3> HIDE DEF ts
    <3> QED
      BY <3>1
  <2> QED
    BY <2>1, <2>2, <2>3
<1> DEFINE u == Node(k, ts, <<ret>>)
<1>2. u.kind = k /\ u.decls = <<>> /\ u.kids = <<ret>> /\ nodes' = Append(nodes, u)
  BY <1>1 DEF Node
<1> HIDE DEF u
<1>3. k \notin DeclKinds \cup {"brace"}
  BY <1>1 DEF DeclKinds
<1>4. Added(nodes, nodes', scope) /\ nodes'[NewId] = u
  BY <1>1, <1>2, <1>3, AppendAdds
<1>5. l \in Waiting \ NodeLists /\ l # "rhs" /\ l \notin Owners \cup ListLabels \cup {"run"}
  BY <1>1 DEF Waiting, NodeLists, ListLabels, Owners
<1>6. This.at = l
  BY <1>1, Innermost
<1>7. ToSet(nodes'[NewId].kids) = InList(This) \cup Handed(l, ret)
  BY <1>2, <1>4, <1>5, <1>6, InLists, ToSets DEF Handed
<1>8. l \in Primaries => l = "paren"
  BY <1>1 DEF Primaries
<1>9. "paren" \in PlainKinds
  BY DEF PlainKinds
<1> QED
  BY <1>1, <1>2, <1>3, <1>4, <1>5, <1>7, <1>8, <1>9, NewPops

(* A variable without a value.                                             *)
LEMMA VarWithoutTrees ==
    ASSUME Typed, Typed', Levelled, Treed, VarWithout
    PROVE  Treed'
<1>1. /\ Running("var") /\ Keep /\ UNCHANGED scope /\ Pops /\ ret' = NewId
      /\ nodes' = Declared("var")
  BY DEF VarWithout, NameOf, Return, Pops, Running
<1>2. /\ Added(nodes, nodes', scope) /\ nodes'[NewId].kind = "var"
      /\ nodes'[NewId].kids = <<>>
  BY <1>1, DeclaredAdds DEF DeclKinds
<1>3. "var" \in Bare /\ "var" \notin Primaries
  BY DEF Bare, DeclLabels, Primaries
<1>4. ToSet(nodes'[NewId].kids) = InList(This) \cup Handed("var", ret)
  BY <1>1, <1>2, <1>3, BareIs, ToSets
<1> QED
  BY <1>1, <1>2, <1>3, <1>4, BareIs, NewPops

(* The calls stay.                                                         *)
LEMMA PutSelf ==
    ASSUME Typed, calls # <<>>, UNCHANGED calls
    PROVE  Puts(This)
<1>1. calls \in Seq(CallType)
  BY DEF Typed, CallsOK
<1>2. calls = <<Head(calls)>> \o Tail(calls)
  BY <1>1
<1> QED
  BY <1>2 DEF Puts, This

(* A call goes on with an operation of two nodes or more.                  *)
LEMMA RhsTrees ==
    ASSUME Typed, Typed', Treed, Rhs
    PROVE  Treed'
<1> DEFINE ts == <<This.list[2]>>
           ks == <<This.list[1], ret>>
           u == Node("binary", ts, ks)
           s == <<NewId>>
           a == Listed(This, "operators", s)
<1>1. /\ Running("rhs") /\ Keep /\ UNCHANGED <<ret, scope>> /\ Puts(a)
      /\ nodes' = Append(nodes, u)
  BY DEF Rhs, Goto, Puts, New, Listed, Running
<1>2. /\ u.kind = "binary" /\ u.decls = <<>> /\ u.kids = ks
      /\ u.kind \notin DeclKinds \cup {"brace"}
  BY DEF Node, DeclKinds
<1>3. a.at = "operators" /\ a.node = This.node /\ a.list = s /\ This.at = "rhs"
  <2> HIDE DEF s
  <2> QED
    BY <1>1, AsListed, Innermost
<1> HIDE DEF u, a
<1>4. Added(nodes, nodes', scope) /\ nodes'[NewId] = u
  BY <1>1, <1>2, AppendAdds
<1>5. /\ "operators" \in NodeLists \ (Waiting \cup Owners \cup ListLabels)
      /\ "rhs" \in Waiting /\ "rhs" \notin Owners \cup ListLabels \cup {"run"}
  BY DEF NodeLists, Waiting, ListLabels, Owners
<1>6. This.node = 0
  BY <1>1, <1>5, NoNode
<1>7. ToSet(nodes'[NewId].kids) = InList(This) \cup Handed("rhs", ret)
  <2>1. ToSet(ks) = {This.list[1], ret}
    <3> DEFINE x == This.list[1]
    <3> HIDE DEF x
    <3>1. ToSet(<<x, ret>>) = {x, ret}
      BY ToSets
    <3> QED
      BY <3>1 DEF x
  <2>2. InList(This) = {This.list[1]}
    BY <1>3 DEF InList
  <2> QED
    BY <1>2, <1>4, <1>5, <2>1, <2>2 DEF Handed
<1>8. InList(a) \cup Handed(a.at, ret') = {NewId}
  <2>1. ToSet(s) = {NewId}
    BY ToSets
  <2> QED
    BY <1>3, <1>5, <2>1, InLists DEF Handed
<1> HIDE DEF ts, ks, s
<1> QED
  BY <1>1, <1>2, <1>3, <1>4, <1>5, <1>6, <1>7, <1>8, NewPuts

(* The arguments are complete.                                             *)
LEMMA CloseArgsTrees ==
    ASSUME Typed, Typed', Treed, CloseArgs
    PROVE  Treed'
<1> DEFINE u == Node("apply", <<>>, This.list)
           a == Call("postfix")
<1>1. /\ Running("args") /\ Keep /\ UNCHANGED scope /\ ret' = NewId /\ Puts(a)
      /\ nodes' = Append(nodes, u)
  BY DEF CloseArgs, Goto, Puts, New, Running
<1>2. /\ u.kind = "apply" /\ u.decls = <<>> /\ u.kids = This.list
      /\ u.kind \notin DeclKinds \cup {"brace"} /\ u.kind \in PlainKinds
  BY DEF Node, DeclKinds, PlainKinds
<1>3. a.at = "postfix" /\ a.node = 0 /\ a.list = <<>> /\ This.at = "args"
  BY <1>1, Innermost DEF Call
<1> HIDE DEF u, a
<1>4. Added(nodes, nodes', scope) /\ nodes'[NewId] = u
  BY <1>1, <1>2, AppendAdds
<1>5. /\ "postfix" \in Waiting \ (NodeLists \cup Owners \cup ListLabels)
      /\ "args" \in NodeLists \ Waiting /\ "args" \notin Owners \cup ListLabels \cup {"run"}
  BY DEF NodeLists, Waiting, ListLabels, Owners
<1>6. This.node = 0
  BY <1>1, <1>5, NoNode
<1>7. ToSet(nodes'[NewId].kids) = InList(This) \cup Handed("args", ret)
  BY <1>2, <1>3, <1>4, <1>5, InLists DEF Handed
<1>8. InList(a) \cup Handed(a.at, ret') = {NewId}
  BY <1>1, <1>3, <1>5, InLists DEF Handed
<1> QED
  BY <1>1, <1>2, <1>3, <1>4, <1>5, <1>6, <1>7, <1>8, NewPuts

(* A member is named.                                                      *)
LEMMA NamedMemberTrees ==
    ASSUME Typed, Typed', Treed, Member, Kind(Take(window)) = "name"
    PROVE  Treed'
<1> DEFINE ts == <<TokenAt(Take(window), n)>>
           ks == <<ret>>
           u == Node("member", ts, ks)
           a == This
<1>1. /\ Running("postfix") /\ Keep /\ UNCHANGED <<scope, calls>> /\ ret' = NewId
      /\ nodes' = Append(nodes, u)
  BY DEF Member, New
<1>2. /\ u.kind = "member" /\ u.decls = <<>> /\ u.kids = ks
      /\ u.kind \notin DeclKinds \cup {"brace"} /\ u.kind \in PlainKinds
  BY DEF Node, DeclKinds, PlainKinds
<1> HIDE DEF u
<1>3. Added(nodes, nodes', scope) /\ nodes'[NewId] = u
  BY <1>1, <1>2, AppendAdds
<1>4. Puts(a) /\ a.at = "postfix"
  BY <1>1, PutSelf, Innermost
<1>5. /\ "postfix" \in Waiting \ (NodeLists \cup Owners \cup ListLabels \cup {"run", "rhs"})
  BY DEF NodeLists, Waiting, ListLabels, Owners
<1>6. a.node = 0
  BY <1>1, <1>5, NoNode
<1>7. InList(a) = {}
  BY <1>4, <1>5, InLists
<1>8. ToSet(nodes'[NewId].kids) = InList(a) \cup Handed("postfix", ret)
  BY <1>2, <1>3, <1>5, <1>7, ToSets DEF Handed
<1>9. InList(a) \cup Handed(a.at, ret') = {NewId}
  BY <1>1, <1>4, <1>5, <1>7 DEF Handed
<1> HIDE DEF ts, ks
<1> QED
  BY <1>1, <1>2, <1>3, <1>4, <1>5, <1>6, <1>8, <1>9, NewPuts

(* The first branch begins, or is missing.                                 *)
LEMMA ThenTrees ==
    ASSUME Typed, Typed', Treed, Then
    PROVE  Treed'
<1> DEFINE s == <<ret>>
           a == Listed(This, "else", s)
           braced == Current = "l_brace"
<1>1. /\ Running("then") /\ Keep /\ UNCHANGED scope
      /\ braced => Goto(<<Call("brace"), a>>) /\ UNCHANGED <<ret, nodes>>
      /\ ~braced => nodes' = Append(nodes, ErrorNode) /\ ret' = NewId /\ Goto(<<a>>)
  BY DEF Then, Listed
<1>2. a.at = "else" /\ a.node = This.node /\ a.list = s /\ This.at = "then" /\ calls # <<>>
  <2> HIDE DEF s
  <2> QED
    BY <1>1, AsListed, Innermost
<1> HIDE DEF a, braced
<1>3. CASE braced
  <2> DEFINE l == "then"
             k == "brace"
  <2>1. l \in {"then", "else", "body"} /\ Running(l) /\ UNCHANGED <<ret, nodes, scope>>
        /\ k \in {"brace", "stmt"} /\ Calls(Call(k), a) /\ a.at \in {"else", "complete"}
        /\ l # "else"
    BY <1>1, <1>2, <1>3 DEF Goto, Calls
  <2> HIDE DEF l, k
  <2> QED
    BY <1>1, <1>2, <2>1, BranchTrees
<1>4. CASE ~braced
  <2> DEFINE u == ErrorNode
  <2>1. /\ u.kind = "error" /\ u.decls = <<>> /\ u.kids = <<>>
        /\ u.kind \notin DeclKinds \cup {"brace"}
    BY DEF ErrorNode, Node, DeclKinds
  <2>2. nodes' = Append(nodes, u) /\ ret' = NewId /\ Puts(a)
    BY <1>1, <1>2, <1>4 DEF Goto, Puts
  <2> HIDE DEF u
  <2>3. Added(nodes, nodes', scope) /\ nodes'[NewId] = u
    BY <1>1, <2>1, <2>2, AppendAdds
  <2>4. /\ "then" \in Waiting \ (NodeLists \cup ListLabels \cup {"run", "rhs"})
        /\ "else" \in (NodeLists \cap Waiting \cap Owners) \ ListLabels
    BY DEF NodeLists, Waiting, ListLabels, Owners
  <2>5. ToSet(nodes'[NewId].kids) = {}
    BY <2>1, <2>3, ToSets
  <2>6. InList(This) \cup Handed("then", ret) = {ret}
    BY <1>2, <2>4, InLists DEF Handed
  <2>7. InList(a) \cup Handed(a.at, ret') = {ret, NewId}
    <3>1. ToSet(s) = {ret}
      BY ToSets
    <3> QED
      BY <1>2, <2>2, <2>4, <3>1, InLists DEF Handed
  <2> HIDE DEF s
  <2> QED
    BY <1>1, <1>2, <2>1, <2>2, <2>3, <2>4, <2>5, <2>6, <2>7, NewPuts
<1> QED
  BY <1>3, <1>4

(* The call that goes on with the new node.                                *)
LEMMA OwnerIs ==
    ASSUME NEW m \in Owners \cup {"stmts"}, NEW d
    PROVE  /\ Owner(m, d).at = m /\ Owner(m, d).node = d /\ InList(Owner(m, d)) = {}
<1> DEFINE c == Owner(m, d)
<1>1. c.at = m /\ c.node = d /\ c.list = <<>>
  BY DEF Owner, Call
<1> HIDE DEF c
<1>2. c.at # "rhs"
  BY <1>1 DEF Owners
<1>3. InList(c) = {}
  BY <1>1, <1>2, InLists
<1> QED
  BY <1>1, <1>3 DEF c

(* A call that waits for the last child.                                   *)
LEMMA CompleteIs ==
    ASSUME NEW d
    PROVE  Complete(d, <<>>) = Owner("complete", d)
<1> DEFINE e == Owner("complete", d)
<1>1. e = [at |-> "complete", node |-> d, level |-> 1, list |-> <<>>, from |-> 0]
  BY DEF Owner, Call
<1>2. Complete(d, <<>>) = [e EXCEPT !.list = <<>>]
  BY DEF Complete, Owner
<1> HIDE DEF e
<1>3. Complete(d, <<>>) = e
  BY <1>1, <1>2
<1> QED
  BY <1>3 DEF e

(* A call that begins has nothing.                                         *)
LEMMA CallEmpty ==
    ASSUME NEW k \in {"infix", "brace"}
    PROVE  Call(k).node = 0 /\ InList(Call(k)) = {} /\ Call(k).at \notin Waiting
<1> DEFINE c == Call(k)
<1>1. c.at = k /\ c.node = 0 /\ c.list = <<>>
  BY DEF Call
<1> HIDE DEF c
<1>2. c.at # "rhs" /\ c.at \notin Waiting
  BY <1>1 DEF Waiting
<1>3. InList(c) = {}
  BY <1>1, <1>2, InLists
<1> QED
  BY <1>1, <1>2, <1>3 DEF c

(* A statement or a declaration is made before its parts are parsed.       *)
LEMMA KeywordTrees ==
    ASSUME Typed, Typed', Treed, IfStmt \/ WhileStmt \/ RetStmt
    PROVE  Treed'
<1>1. PICK l \in {"if", "while", "ret"}, m \in {"then", "body", "complete"} :
        Keyword(l, Call(m))
  BY DEF IfStmt, WhileStmt, RetStmt
<1> DEFINE u == Node(l, <<>>, <<>>)
           b == Owner(m, NewId)
           a == Call("infix")
<1>2. /\ Running(l) /\ Keep /\ UNCHANGED scope /\ Calls(a, b) /\ nodes' = Append(nodes, u)
  BY <1>1 DEF Keyword, Goto, Calls, New, Running, Owner, Expr
<1>3. /\ u.kind = l /\ u.decls = <<>> /\ u.kids = <<>>
      /\ u.kind \notin DeclKinds \cup {"brace"}
  BY <1>1 DEF Node, DeclKinds
<1> HIDE DEF u
<1>4. Added(nodes, nodes', scope) /\ nodes'[NewId] = u
  BY <1>2, <1>3, AppendAdds
<1>5. m \in Owners /\ m # "stmts" /\ l \in Bare
  BY <1>1 DEF Owners, Bare
<1>6. b.at = m /\ b.node = NewId /\ InList(b) = {}
  BY <1>5, OwnerIs
<1>7. a.node = 0 /\ InList(a) = {} /\ a.at \notin Waiting
  BY CallEmpty
<1> HIDE DEF a, b
<1> QED
  BY <1>2, <1>3, <1>4, <1>5, <1>6, <1>7, BareIs, NewOpens

(* A declaration whose parts follow.                                       *)
LEMMA DeclTrees ==
    ASSUME Typed, Typed', Treed,
           VarWithInit \/ FunDecl \/ (ObjDecl /\ Kind(AfterName) = "l_brace")
    PROVE  Treed'
<1>1. PICK l \in DeclKinds, m \in {"complete", "params"} :
        /\ Running(l) /\ Keep /\ UNCHANGED scope /\ nodes' = Declared(l)
        /\ \/ Puts(Owner(m, NewId)) /\ m = "params"
           \/ \E k \in {"infix", "brace"} : Calls(Call(k), Owner(m, NewId))
  <2>1. CASE VarWithInit
    <3>1. /\ Running("var") /\ Keep /\ UNCHANGED scope /\ nodes' = Declared("var")
          /\ Calls(Call("infix"), Complete(NewId, <<>>))
      BY <2>1 DEF VarWithInit, NameOf, Goto, Calls, Running, Expr
    <3> QED
      BY <3>1, CompleteIs DEF DeclKinds
  <2>2. CASE FunDecl
    <3>1. /\ Running("fun") /\ Keep /\ UNCHANGED scope /\ nodes' = Declared("fun")
          /\ Puts(Owner("params", NewId))
      BY <2>2 DEF FunDecl, NameOf, Goto, Puts, Running, Owner
    <3> QED
      BY <3>1 DEF DeclKinds
  <2>3. CASE ObjDecl /\ Kind(AfterName) = "l_brace"
    <3>1. /\ Running("obj") /\ Keep /\ UNCHANGED scope /\ nodes' = Declared("obj")
          /\ Calls(Call("brace"), Complete(NewId, <<>>))
      BY <2>3 DEF ObjDecl, NameOf, Goto, Calls, Running
    <3> QED
      BY <3>1, CompleteIs DEF DeclKinds
  <2> QED
    BY <2>1, <2>2, <2>3
<1> DEFINE b == Owner(m, NewId)
<1>2. /\ Added(nodes, nodes', scope) /\ nodes'[NewId].kind = l /\ nodes'[NewId].kids = <<>>
  BY <1>1, DeclaredAdds
<1>3. m \in Owners /\ m # "stmts" /\ l \in Bare /\ l # "brace" /\ "params" \notin Waiting
  BY <1>1 DEF Owners, Bare, DeclLabels, DeclKinds, Waiting
<1>4. b.at = m /\ b.node = NewId /\ InList(b) = {}
  BY <1>3, OwnerIs
<1>5. \/ Puts(b) /\ b.at \notin Waiting
      \/ \E a : Calls(a, b) /\ a.node = 0 /\ InList(a) = {} /\ a.at \notin Waiting
  <2>1. CASE Puts(b) /\ m = "params"
    BY <1>3, <1>4, <2>1
  <2>2. ASSUME NEW k \in {"infix", "brace"}, Calls(Call(k), b)
        PROVE  \E a : Calls(a, b) /\ a.node = 0 /\ InList(a) = {} /\ a.at \notin Waiting
    BY <2>2, CallEmpty
  <2> QED
    BY <1>1, <2>1, <2>2
<1> HIDE DEF b
<1> QED
  BY <1>1, <1>2, <1>3, <1>4, <1>5, BareIs, NewOpens

(* A block begins.                                                         *)
LEMMA OpenBraceTrees ==
    ASSUME Typed, Typed', Treed, OpenBrace
    PROVE  Treed'
<1> DEFINE u == [Node("brace", <<>>, <<>>) EXCEPT !.outer = scope]
           b == Owner("stmts", NewId)
<1>1. /\ Running("brace") /\ Keep /\ scope' = NewId /\ Puts(b) /\ nodes' = Append(nodes, u)
  BY DEF OpenBrace, Goto, Puts, Running, Owner
<1>2. /\ u.kind = "brace" /\ u.decls = <<>> /\ u.kids = <<>> /\ u.outer = scope
      /\ u.kind \notin DeclKinds
  BY DEF Node, DeclKinds
<1> HIDE DEF u
<1>3. Added(nodes, nodes', scope) /\ nodes'[NewId] = u
  BY <1>1, <1>2, AppendAdds
<1>4. b.at = "stmts" /\ b.node = NewId /\ InList(b) = {}
  BY OwnerIs
<1>5. "brace" \in Bare /\ "stmts" \notin Waiting
  BY DEF Bare, Waiting
<1> HIDE DEF b
<1> QED
  BY <1>1, <1>2, <1>3, <1>4, <1>5, BareIs, NewOpens

(* A branch or a body follows.                                             *)
LEMMA FollowTrees ==
    ASSUME Typed, Typed', Treed,
           (Else /\ Current = "else") \/ (Body /\ Current = "l_brace")
    PROVE  Treed'
<1>1. CASE Else /\ Current = "else"
  <2> DEFINE l == "else"
             k == "stmt"
             s == Append(This.list, ret)
             b == Complete(This.node, s)
  <2>1. /\ Running(l) /\ Keep /\ UNCHANGED <<ret, nodes, scope>> /\ Calls(Call(k), b)
        /\ l \in {"then", "else", "body"} /\ k \in {"brace", "stmt"} /\ l = "else"
    BY <1>1 DEF Else, Goto, Calls, Running
  <2> HIDE DEF l, k, s
  <2>2. b.at = "complete" /\ b.node = This.node /\ b.list = s
    BY DEF Complete, Call
  <2> HIDE DEF b
  <2>3. b.at \in {"else", "complete"} /\ (l = "else" /\ b.list = Append(This.list, ret))
    BY <2>1, <2>2 DEF s
  <2> QED
    BY <2>1, <2>2, <2>3, BranchTrees
<1>2. CASE Body /\ Current = "l_brace"
  <2> DEFINE l == "body"
             k == "brace"
             s == <<ret>>
             b == Complete(This.node, s)
  <2>1. /\ Running(l) /\ Keep /\ UNCHANGED <<ret, nodes, scope>> /\ Calls(Call(k), b)
        /\ l \in {"then", "else", "body"} /\ k \in {"brace", "stmt"} /\ l # "else"
    BY <1>2 DEF Body, Goto, Calls, Running
  <2> HIDE DEF l, k, s
  <2>2. b.at = "complete" /\ b.node = This.node /\ b.list = s
    BY DEF Complete, Call
  <2> HIDE DEF b
  <2>3. b.at \in {"else", "complete"} /\ (l # "else" /\ b.list = <<ret>>)
    BY <2>1, <2>2 DEF s
  <2> QED
    BY <2>1, <2>2, <2>3, BranchTrees
<1> QED
  BY <1>1, <1>2

(* The node d has the children ks, and no other changes.                   *)
Given(ns, ns2, d, ks) ==
    /\ Len(ns2) = Len(ns)
    /\ \A i \in 1 .. Len(ns) : /\ i # d => ns2[i] = ns[i]
                               /\ ns2[i].kind = ns[i].kind /\ ns2[i].outer = ns[i].outer
                               /\ ns2[i].decls = ns[i].decls
    /\ ns2[d].kids = ks

(* A node gets its children.                                               *)
LEMMA GivenIs ==
    ASSUME NEW ns, ns \in Seq(NodeType(Len(ns))), NEW d \in 1 .. Len(ns), NEW ks
    PROVE  LET ns2 == [ns EXCEPT ![d].kids = ks]
           IN  /\ Given(ns, ns2, d, ks)
               /\ \E T : ns2 \in Seq(T)
<1> DEFINE u == [ns[d] EXCEPT !.kids = ks]
           S == NodeType(Len(ns)) \cup {u}
           ns2 == [ns EXCEPT ![d] = u]
<1>1. ns[d] = [kind |-> ns[d].kind, toks |-> ns[d].toks, kids |-> ns[d].kids,
               decls |-> ns[d].decls, outer |-> ns[d].outer]
  BY NodeFields
<1>2. /\ u.kind = ns[d].kind /\ u.outer = ns[d].outer /\ u.decls = ns[d].decls /\ u.kids = ks
  BY <1>1
<1>3. [ns EXCEPT ![d].kids = ks] = ns2
  OBVIOUS
<1>4. ns \in Seq(S) /\ u \in S
  BY SeqGrows
<1> HIDE DEF u, S
<1>5. /\ ns2 \in Seq(S) /\ Len(ns2) = Len(ns) /\ ns2[d] = u
      /\ \A i \in 1 .. Len(ns) : i # d => ns2[i] = ns[i]
  BY <1>4, ExceptSeq
<1> HIDE DEF ns2
<1>6. Given(ns, ns2, d, ks)
  BY <1>2, <1>5 DEF Given
<1> QED
  BY <1>3, <1>5, <1>6

(* The kids of a node are given, and there is one more node.               *)
GivenMore(ns, ns2, d, ks, u) ==
    /\ Len(ns2) = Len(ns) + 1 /\ ns2[Len(ns) + 1] = u
    /\ \A i \in 1 .. Len(ns) : /\ i # d => ns2[i].kids = ns[i].kids
                               /\ ns2[i].kind = ns[i].kind /\ ns2[i].outer = ns[i].outer
                               /\ ns2[i].decls = ns[i].decls
    /\ ns2[d].kids = ks

(* A node gets its children, and an error is added.                        *)
LEMMA GivenMoreIs ==
    ASSUME NEW ns, NEW d \in 1 .. Len(ns), Len(ns) \in Nat, NEW ks, NEW u,
           NEW ns1, Given(ns, ns1, d, ks), NEW T, ns1 \in Seq(T)
    PROVE  GivenMore(ns, Append(ns1, u), d, ks, u)
<1> DEFINE S == T \cup {u}
           ns2 == Append(ns1, u)
<1>1. ns1 \in Seq(S) /\ u \in S
  BY SeqGrows
<1> HIDE DEF S
<1>2. /\ Len(ns2) = Len(ns1) + 1 /\ ns2[Len(ns1) + 1] = u
      /\ \A i \in 1 .. Len(ns1) : ns2[i] = ns1[i]
  BY <1>1, AppendTo
<1>3. Len(ns1) = Len(ns)
  BY DEF Given
<1> HIDE DEF ns2
<1> QED
  BY <1>2, <1>3 DEF Given, GivenMore, ns2

(* Nodes that are complete.                                                *)
LEMMA ClosesTrees ==
    ASSUME Typed, Typed', Levelled, Treed,
           Completed \/ CloseBrace \/ (Else /\ Current # "else")
    PROVE  Treed'
<1>0. PICK l \in {"complete", "else", "stmts"} :
        /\ Running(l) /\ Keep /\ Pops /\ ret' = This.node
        /\ nodes' = [nodes EXCEPT ![This.node].kids =
                       IF l = "stmts" THEN This.list ELSE Append(This.list, ret)]
        /\ l = "stmts" => This.node # 0
        /\ scope' = IF l = "stmts" THEN nodes[This.node].outer ELSE scope
  <2>1. CASE Completed
    BY <2>1 DEF Completed, Return, Pops, Running
  <2>2. CASE CloseBrace
    BY <2>2 DEF CloseBrace, Return, Pops, Running
  <2>3. CASE Else /\ Current # "else"
    BY <2>3 DEF Else, Return, Pops, Running
  <2> QED
    BY <2>1, <2>2, <2>3
<1> DEFINE s == IF l = "stmts" THEN This.list ELSE Append(This.list, ret)
<1>1. /\ l \in {"complete", "else", "stmts"}
      /\ Running(l) /\ Keep /\ Pops /\ ret' = This.node
      /\ nodes' = [nodes EXCEPT ![This.node].kids = s]
      /\ l = "stmts" => This.node # 0
      /\ scope' = IF l = "stmts" THEN nodes[This.node].outer ELSE scope
      /\ s = IF l = "stmts" THEN This.list ELSE Append(This.list, ret)
  BY <1>0
<1> HIDE DEF s
<1>2. /\ l \in NodeLists /\ l \in Owners \cup ListLabels
      /\ l \in Waiting <=> l # "stmts"
      /\ l \in ListLabels <=> l = "stmts"
      /\ l # "stmts" => l \in Owners
  BY <1>1 DEF NodeLists, Owners, ListLabels, Waiting
<1>3. /\ This.at = l /\ CallOK(input, This, nodes) /\ Len(nodes) \in Nat
      /\ l \in Waiting => ret \in 1 .. Len(nodes)
  BY <1>1, Innermost
<1>4. /\ This.node # 0 /\ This.node \in 1 .. Len(nodes) /\ This.list \in Seq(1 .. Len(nodes))
      /\ nodes \in Seq(NodeType(Len(nodes)))
  BY <1>1, <1>2, <1>3 DEF CallOK, Typed
<1>5. ToSet(s) = InList(This) \cup Handed(l, ret)
  <2>1. InList(This) = ToSet(This.list)
    BY <1>2, <1>3, InLists
  <2>2. l # "stmts" => ToSet(Append(This.list, ret)) = ToSet(This.list) \cup {ret}
    BY <1>2, <1>3, <1>4, ToSetAppend
  <2> QED
    BY <1>1, <1>2, <2>1, <2>2 DEF Handed
<1>6. Given(nodes, nodes', This.node, s)
  <2> DEFINE ns2 == [nodes EXCEPT ![This.node].kids = s]
  <2>1. Given(nodes, ns2, This.node, s)
    BY <1>4, GivenIs
  <2> QED
    BY <1>1, <2>1
<1>7. scope' = IF IsBlock(This) THEN nodes[This.node].outer ELSE scope
  BY <1>1, <1>2, <1>3, <1>4 DEF IsBlock
<1>8. /\ Len(nodes') = Len(nodes)
      /\ \A id \in 1 .. Len(nodes) : id # This.node => nodes'[id] = nodes[id]
      /\ nodes'[This.node].kind = nodes[This.node].kind
      /\ nodes'[This.node].outer = nodes[This.node].outer
      /\ nodes'[This.node].decls = nodes[This.node].decls
      /\ ToSet(nodes'[This.node].kids) = InList(This) \cup Handed(l, ret)
  BY <1>4, <1>5, <1>6 DEF Given
<1> QED
  BY <1>1, <1>2, <1>4, <1>7, <1>8, Closes

(* The body that is missing.                                               *)
LEMMA NoBodyTrees ==
    ASSUME Typed, Typed', Levelled, Treed, Body, Current # "l_brace"
    PROVE  Treed'
<1> DEFINE ks == <<ret, NewId>>
           d == This.node
           ns1 == [nodes EXCEPT ![d].kids = ks]
<1>1. /\ Running("body") /\ Keep /\ Pops /\ ret' = d /\ UNCHANGED scope
      /\ nodes' = Append(ns1, ErrorNode)
  BY DEF Body, Return, Pops, Running
<1>2. /\ "body" \in (Owners \cap Waiting) \ (NodeLists \cup {"rhs"})
  BY DEF Owners, Waiting, NodeLists, ListLabels
<1>3. This.at = "body" /\ CallOK(input, This, nodes) /\ Len(nodes) \in Nat
  BY <1>1, Innermost
<1>4. /\ d # 0 /\ d \in 1 .. Len(nodes) /\ nodes \in Seq(NodeType(Len(nodes)))
  BY <1>1, <1>2, <1>3 DEF CallOK, Typed
<1>5. ToSet(ks) = InList(This) \cup Handed("body", ret) \cup {NewId}
  <2>1. ToSet(ks) = {ret, NewId}
    <3> DEFINE y == NewId
    <3> HIDE DEF y
    <3>1. ToSet(<<ret, y>>) = {ret, y}
      BY ToSets
    <3> QED
      BY <3>1 DEF y
  <2> QED
    BY <1>2, <1>3, <2>1, InLists DEF Handed
<1> HIDE DEF ks
<1>6. GivenMore(nodes, nodes', d, ks, ErrorNode)
  <2>1. Given(nodes, ns1, d, ks)
    BY <1>4, GivenIs
  <2>2. PICK T : ns1 \in Seq(T)
    BY <1>4, GivenIs
  <2> HIDE DEF ns1, d
  <2> QED
    BY <1>1, <1>3, <1>4, <2>1, <2>2, GivenMoreIs
<1>7. /\ Len(nodes') = Len(nodes) + 1 /\ nodes'[NewId] = ErrorNode
      /\ \A id \in 1 .. Len(nodes) :
           /\ nodes'[id].kind = nodes[id].kind /\ nodes'[id].outer = nodes[id].outer
           /\ nodes'[id].decls = nodes[id].decls
           /\ id # This.node => nodes'[id].kids = nodes[id].kids
      /\ ToSet(nodes'[This.node].kids) = InList(This) \cup Handed("body", ret) \cup {NewId}
  BY <1>5, <1>6 DEF GivenMore, NewId
<1> QED
  BY <1>1, <1>2, <1>4, <1>7, ClosesBadly

(* The tokens of a node are given.                                         *)
LEMMA ToksGiven ==
    ASSUME NEW ns, ns \in Seq(NodeType(Len(ns))), NEW d \in 1 .. Len(ns), NEW ts
    PROVE  LET ns2 == [ns EXCEPT ![d].toks = ts]
           IN  /\ Len(ns2) = Len(ns)
               /\ \A i \in 1 .. Len(ns) : /\ ns2[i].kind = ns[i].kind
                                          /\ ns2[i].outer = ns[i].outer
                                          /\ ns2[i].decls = ns[i].decls
                                          /\ ns2[i].kids = ns[i].kids
<1> DEFINE u == [ns[d] EXCEPT !.toks = ts]
           S == NodeType(Len(ns)) \cup {u}
           ns2 == [ns EXCEPT ![d] = u]
<1>1. ns[d] = [kind |-> ns[d].kind, toks |-> ns[d].toks, kids |-> ns[d].kids,
               decls |-> ns[d].decls, outer |-> ns[d].outer]
  BY NodeFields
<1>2. /\ u.kind = ns[d].kind /\ u.outer = ns[d].outer /\ u.decls = ns[d].decls
      /\ u.kids = ns[d].kids
  BY <1>1
<1>3. [ns EXCEPT ![d].toks = ts] = ns2
  OBVIOUS
<1>4. ns \in Seq(S) /\ u \in S
  BY SeqGrows
<1> HIDE DEF u, S
<1>5. /\ Len(ns2) = Len(ns) /\ ns2[d] = u
      /\ \A i \in 1 .. Len(ns) : i # d => ns2[i] = ns[i]
  BY <1>4, ExceptSeq
<1> HIDE DEF ns2
<1> QED
  BY <1>2, <1>3, <1>5

(* The list of parameters is complete.                                     *)
LEMMA CloseParamsTrees ==
    ASSUME Typed, Typed', Levelled, Treed, CloseParams
    PROVE  Treed'
<1> DEFINE closed == Current = "r_paren"
           rest == IF closed THEN Take(window) ELSE Look
           braced == Kind(rest) = "l_brace"
           d == This.node
           ts == nodes[d].toks \o This.list
           named == [nodes EXCEPT ![d].toks = ts]
           ks == <<NewId>>
           a == Call("brace")
           b == Owner("complete", d)
<1>1. /\ Running("params") /\ Keep /\ UNCHANGED scope
      /\ braced => nodes' = named /\ Calls(a, b) /\ UNCHANGED ret
      /\ ~braced => /\ nodes' = Append([named EXCEPT ![d].kids = ks], ErrorNode)
                    /\ ret' = d /\ Pops
  <2>1. Complete(d, <<>>) = b
    BY CompleteIs
  <2> QED
    BY <2>1 DEF CloseParams, Return, Pops, Running, Goto, Calls
<1> HIDE DEF braced, rest, closed, ts
<1>2. /\ "params" \in Owners \ (NodeLists \cup ListLabels \cup Waiting \cup {"rhs", "run"})
  BY DEF Owners, Waiting, NodeLists, ListLabels
<1>3. This.at = "params" /\ CallOK(input, This, nodes) /\ Len(nodes) \in Nat
  BY <1>1, Innermost
<1>4. /\ d # 0 /\ d \in 1 .. Len(nodes) /\ nodes \in Seq(NodeType(Len(nodes)))
  BY <1>1, <1>2, <1>3 DEF CallOK, Typed
<1>5. InList(This) \cup Handed("params", ret) = {}
  BY <1>2, <1>3, InLists DEF Handed
<1>6. /\ Len(named) = Len(nodes)
      /\ \A i \in 1 .. Len(nodes) : /\ named[i].kind = nodes[i].kind
                                    /\ named[i].outer = nodes[i].outer
                                    /\ named[i].decls = nodes[i].decls
                                    /\ named[i].kids = nodes[i].kids
  BY <1>4, ToksGiven
<1>7. CASE ~braced
  <2> DEFINE ns1 == [named EXCEPT ![d].kids = ks]
  <2>1. named \in Seq(NodeType(Len(named)))
    <3> DEFINE p == nodes[d].toks
    <3>1. nodes[d].kind # "binary" /\ This.list \in Seq(0 .. n) /\ p \in Seq(0 .. n)
      <4>1. "params" \in TokenLists
        BY DEF TokenLists
      <4> QED
        BY <1>3, <1>4, <4>1, NodeFields DEF CallOK, n
    <3>2. ts \in Seq(0 .. n)
      BY <3>1, ConcatProperties DEF ts
    <3>3. Extends(nodes, named)
      BY <1>4, <3>1, <3>2, ToksSet
    <3> QED
      BY <3>3 DEF Extends
  <2>2. nodes' = Append(ns1, ErrorNode) /\ ret' = d /\ Pops
    BY <1>1, <1>7
  <2> HIDE DEF named, ks, d
  <2>3. Given(named, ns1, d, ks)
    BY <1>4, <1>6, <2>1, GivenIs
  <2>4. PICK T : ns1 \in Seq(T)
    BY <1>4, <1>6, <2>1, GivenIs
  <2> HIDE DEF ns1
  <2>5. GivenMore(named, nodes', d, ks, ErrorNode)
    BY <1>3, <1>4, <1>6, <2>2, <2>3, <2>4, GivenMoreIs
  <2>6. /\ Len(nodes') = Len(nodes) + 1 /\ nodes'[NewId] = ErrorNode
        /\ \A id \in 1 .. Len(nodes) :
             /\ nodes'[id].kind = nodes[id].kind /\ nodes'[id].outer = nodes[id].outer
             /\ nodes'[id].decls = nodes[id].decls
             /\ id # d => nodes'[id].kids = nodes[id].kids
        /\ nodes'[d].kids = ks
    BY <1>4, <1>6, <2>5 DEF GivenMore, NewId
  <2>7. ToSet(nodes'[d].kids) = InList(This) \cup Handed("params", ret) \cup {NewId}
    <3>1. ToSet(ks) = {NewId}
      BY ToSets DEF ks
    <3> QED
      BY <1>5, <2>6, <3>1
  <2> QED
    BY <1>1, <1>2, <1>4, <2>2, <2>6, <2>7, ClosesBadly DEF d
<1>8. CASE braced
  <2>1. PICK up, home, h : TreeOf(up, home, h)
    BY DEF Treed
  <2>2. /\ Nested(nodes, up, home) /\ h[1] = d /\ up[d] = h[2] /\ d > h[2]
        /\ scope = HomeOf(nodes, home, d) /\ StackOK(nodes, up, calls, h, 1)
        /\ This = calls[1]
    BY <1>1, <1>4, <2>1, Standing
  <2>3. nodes' = named /\ Calls(a, b) /\ nodes' \in Seq(NodeType(Len(nodes')))
    BY <1>1, <1>8, NodesTyped
  <2> HIDE DEF named, ks, d
  <2> DEFINE ns2 == nodes'
  <2>4. ns2 = named /\ ns2 \in Seq(NodeType(Len(ns2)))
    BY <2>3
  <2> HIDE DEF ns2
  <2>5. Nested(ns2, up, home)
    <3>1. \A x \in ToSet(ns2[d].kids) : x \in ToSet(nodes[d].kids) \/ up[x] = d
      BY <1>4, <1>6, <2>4
    <3> QED
      BY <1>4, <1>6, <2>2, <2>4, <3>1, NestedSame, SMTT(30)
  <2>6. Frame(nodes, up, home, ns2, up, home, d)
    BY <1>3, <1>6, <2>4 DEF Frame
  <2>7. b.at = "complete" /\ b.node = d /\ InList(b) = {}
    <3>1. "complete" \in Owners
      BY DEF Owners
    <3> QED
      BY <3>1, OwnerIs
  <2>8. a.node = 0 /\ InList(a) = {} /\ a.at \notin Waiting
    BY CallEmpty
  <2> HIDE DEF a, b
  <2>9. TopOK(ns2, up, b, d, h[2])
    <3>1. nodes[d].kids = <<>> /\ nodes[d].kind # "brace"
      BY <1>2, <1>3, <1>4, <2>2 DEF StackOK, d
    <3>2. ns2[d].kids = <<>> /\ ns2[d].kind # "brace"
      BY <1>4, <1>6, <2>4, <3>1
    <3>3. "complete" \in Owners \ ListLabels
      BY DEF Owners, ListLabels
    <3> QED
      BY <1>4, <2>2, <2>7, <3>2, <3>3 DEF TopOK
  <2>10. /\ \A x \in Kept(This) \cup Handed("params", ret)
                     \cup (Len(nodes) + 1 .. Len(nodes')) :
              IsKid(nodes', x) \/ x \in Kept(a) \cup Kept(b)
    <3>1. Len(nodes') = Len(nodes)
      BY <1>6, <2>3
    <3>2. \A x : x \notin (Len(nodes) + 1 .. Len(nodes'))
      BY <1>3, <3>1
    <3> QED
      BY <1>5, <2>7, <3>2 DEF Kept, d
  <2>11. d \in 0 .. Len(nodes') /\ scope' = HomeOf(nodes', home, d)
    <3>1. d \in 0 .. Len(nodes)
      BY <1>4
    <3>2. HomeOf(ns2, home, d) = HomeOf(nodes, home, d)
      BY <1>3, <2>6, <3>1, HomeStays
    <3> QED
      BY <1>1, <1>6, <2>2, <2>3, <3>1, <3>2 DEF ns2
  <2>12. /\ Nested(nodes', up, home) /\ Frame(nodes, up, home, nodes', up, home, This.node)
         /\ TopOK(nodes', up, b, d, h[2])
    BY <2>5, <2>6, <2>9 DEF ns2, d
  <2> QED
    BY <1>1, <1>2, <1>4, <2>1, <2>3, <2>8, <2>10, <2>11, <2>12, TreeCalls DEF d
<1> QED
  BY <1>7, <1>8

(* A node becomes an error.                                                *)
LEMMA SpoiltIs ==
    ASSUME NEW ns, ns \in Seq(NodeType(Len(ns))), NEW d \in 1 .. Len(ns)
    PROVE  LET ns2 == [ns EXCEPT ![d].kind = "error"]
           IN  /\ Len(ns2) = Len(ns) /\ ns2[d].kind = "error"
               /\ \A i \in 1 .. Len(ns) : /\ i # d => ns2[i] = ns[i]
                                          /\ ns2[i].outer = ns[i].outer
                                          /\ ns2[i].decls = ns[i].decls
                                          /\ ns2[i].kids = ns[i].kids
<1> DEFINE u == [ns[d] EXCEPT !.kind = "error"]
           S == NodeType(Len(ns)) \cup {u}
           ns2 == [ns EXCEPT ![d] = u]
<1>1. ns[d] = [kind |-> ns[d].kind, toks |-> ns[d].toks, kids |-> ns[d].kids,
               decls |-> ns[d].decls, outer |-> ns[d].outer]
  BY NodeFields
<1>2. /\ u.kind = "error" /\ u.outer = ns[d].outer /\ u.decls = ns[d].decls
      /\ u.kids = ns[d].kids
  BY <1>1
<1>3. [ns EXCEPT ![d].kind = "error"] = ns2
  OBVIOUS
<1>4. ns \in Seq(S) /\ u \in S
  BY SeqGrows
<1> HIDE DEF u, S
<1>5. /\ Len(ns2) = Len(ns) /\ ns2[d] = u
      /\ \A i \in 1 .. Len(ns) : i # d => ns2[i] = ns[i]
  BY <1>4, ExceptSeq
<1> HIDE DEF ns2
<1> QED
  BY <1>2, <1>3, <1>5

(* No name follows the dot.                                                *)
LEMMA BadMemberTrees ==
    ASSUME Typed, Typed', Levelled, Treed, Member, Kind(Take(window)) # "name"
    PROVE  Treed'
<1> DEFINE d == ret
           ns2 == nodes'
<1>1. /\ Running("postfix") /\ Keep /\ UNCHANGED scope /\ Pops /\ ret' = ret
      /\ nodes' = [nodes EXCEPT ![d].kind = "error"]
  BY DEF Member, Return, Pops, Running
<1>2. /\ "postfix" \in Waiting \ (NodeLists \cup Owners \cup ListLabels \cup {"run", "rhs"})
  BY DEF NodeLists, Waiting, ListLabels, Owners
<1>3. PICK up, home, h : TreeOf(up, home, h)
  BY DEF Treed
<1>4. /\ nodes \in Seq(NodeType(Len(nodes))) /\ Nested(nodes, up, home) /\ Len(nodes) \in Nat
      /\ This.node = 0 /\ h[1] = h[2] /\ This.at = "postfix" /\ This = calls[1]
      /\ calls # <<>> /\ ~IsBlock(This)
      /\ \A x \in Handed("postfix", ret) : up[x] = h[1] /\ x \in 1 .. Len(nodes)
  BY <1>1, <1>2, <1>3, Standing DEF IsBlock
<1>5. d \in 1 .. Len(nodes) /\ up[d] = h[2]
  BY <1>2, <1>4 DEF Handed
<1>6. nodes[d].kind \in PlainKinds
  BY <1>3, <1>4 DEF TreeOf, Plain
<1>7. ns2 \in Seq(NodeType(Len(ns2)))
  BY <1>1, NodesTyped
<1>8. /\ Len(ns2) = Len(nodes) /\ ns2[d].kind = "error"
      /\ \A i \in 1 .. Len(nodes) : /\ i # d => ns2[i] = nodes[i]
                                    /\ ns2[i].outer = nodes[i].outer
                                    /\ ns2[i].decls = nodes[i].decls
                                    /\ ns2[i].kids = nodes[i].kids
  BY <1>1, <1>4, <1>5, SpoiltIs
<1> HIDE DEF ns2, d
<1>9. Nested(ns2, up, home)
  <2>1. \A x \in ToSet(ns2[d].kids) : x \in ToSet(nodes[d].kids) \/ up[x] = d
    BY <1>5, <1>8
  <2>2. \A i \in 1 .. Len(nodes) : i # d => ns2[i] = nodes[i]
    BY <1>8
  <2>3. ns2[d].outer = nodes[d].outer /\ ns2[d].decls = nodes[d].decls
    BY <1>5, <1>8
  <2>4. Len(ns2) = Len(nodes) /\ (nodes[d].kind \in PlainKinds /\ ns2[d].kind = "error")
    BY <1>6, <1>8
  <2>5. nodes \in Seq(NodeType(Len(nodes))) /\ Nested(nodes, up, home) /\ d \in 1 .. Len(nodes)
    BY <1>4, <1>5
  <2> QED
    BY <1>7, <2>1, <2>2, <2>3, <2>4, <2>5, NestedSet, ZenonT(60)
<1>10. Frame(nodes, up, home, ns2, up, home, 0)
  <2>1. \A i \in 1 .. Len(nodes) : ns2[i].kind = "brace" <=> nodes[i].kind = "brace"
    BY <1>6, <1>8 DEF PlainKinds
  <2> QED
    BY <1>4, <1>8, <2>1 DEF Frame
<1>11. \A x \in Kept(This) \cup Handed("postfix", ret) \cup (Len(nodes) + 1 .. Len(nodes')) :
         IsKid(nodes', x) \/ x = ret'
  <2>1. Kept(This) = {}
    BY <1>2, <1>4, InLists DEF Kept
  <2>2. \A x : x \notin (Len(nodes) + 1 .. Len(nodes'))
    BY <1>4, <1>8 DEF ns2
  <2> QED
    BY <1>1, <2>1, <2>2 DEF Handed
<1>12. nodes'[ret'].kind \in PlainKinds
  BY <1>1, <1>8 DEF PlainKinds, ns2, d
<1>13. Nested(nodes', up, home) /\ Frame(nodes, up, home, nodes', up, home, This.node)
       /\ up[ret'] = h[2]
  BY <1>1, <1>4, <1>5, <1>9, <1>10 DEF ns2, d
<1> QED
  BY <1>1, <1>2, <1>3, <1>4, <1>11, <1>12, <1>13, TreePops

(* A new node, and then more of its parts.                                 *)
LEMMA FrameTwice ==
    ASSUME NEW a, NEW up, NEW home, NEW b, NEW up2, NEW home2, NEW c, NEW up3, NEW home3,
           NEW d, NEW e, Len(a) \in Nat, Len(b) \in Nat, Len(c) \in Nat,
           Frame(a, up, home, b, up2, home2, d), Frame(b, up2, home2, c, up3, home3, e),
           e \notin 1 .. Len(a)
    PROVE  Frame(a, up, home, c, up3, home3, d)
<1>1. \A x \in 1 .. Len(a) : x \in 1 .. Len(b) /\ x # e
  BY DEF Frame
<1> QED
  BY <1>1 DEF Frame

(* The body of an object is missing.                                       *)
LEMMA NoObjectTrees ==
    ASSUME Typed, Typed', Levelled, Treed, ObjDecl, Kind(AfterName) # "l_brace"
    PROVE  Treed'
<1> DEFINE m == NewId
           ks == <<m + 1>>
           all == Declared("obj")
           ns1 == [all EXCEPT ![m].kids = ks]
           ns2 == nodes'
<1>1. /\ Running("obj") /\ Keep /\ UNCHANGED scope /\ Pops /\ ret' = m
      /\ nodes' = Append(ns1, ErrorNode)
  BY DEF ObjDecl, NameOf, Return, Pops, Running
<1>2. /\ "obj" \in Bare \ (ListLabels \cup {"run"} \cup Primaries)
  BY DEF ListLabels, Bare, DeclLabels, DeclKinds, Primaries
<1>3. /\ InList(This) \cup Handed("obj", ret) = {}
      /\ "obj" \notin Owners \cup ListLabels \cup {"run"}
  BY <1>1, <1>2, BareIs
<1>4. PICK up, home, h : TreeOf(up, home, h)
  BY DEF Treed
<1> DEFINE v == h[2]
<1>5. /\ nodes \in Seq(NodeType(Len(nodes))) /\ Nested(nodes, up, home) /\ Len(nodes) \in Nat
      /\ This.node = 0 /\ h[1] = h[2] /\ This = calls[1] /\ ~IsBlock(This)
      /\ v \in 0 .. Len(nodes) /\ scope = HomeOf(nodes, home, v)
  <2>1. h[1] \in 0 .. Len(nodes)
    BY <1>1, <1>4, Standing, AboveOne
  <2> QED
    BY <1>1, <1>3, <1>4, <2>1, Standing DEF IsBlock
<1>6. Added(nodes, all, scope) /\ all[m].kind = "obj" /\ all[m].kids = <<>>
  BY DeclaredAdds DEF DeclKinds
<1>7. m = Len(nodes) + 1 /\ Len(all) = m /\ all \in Seq(NodeType(Len(all))) /\ m \in 1 .. m
  BY <1>5, <1>6 DEF NewId, Added
<1>8. Given(all, ns1, m, ks) /\ \E T : ns1 \in Seq(T)
  <2> HIDE DEF all, m, ks
  <2> QED
    BY <1>7, GivenIs
<1> HIDE DEF ns1
<1>9. GivenMore(all, ns2, m, ks, ErrorNode)
  <2>1. PICK T : ns1 \in Seq(T)
    BY <1>8
  <2> HIDE DEF all, m, ks
  <2>2. GivenMore(all, Append(ns1, ErrorNode), m, ks, ErrorNode)
    BY <1>5, <1>7, <1>8, <2>1, GivenMoreIs
  <2> QED
    BY <1>1, <2>2
<1>10. ns2 \in Seq(NodeType(Len(ns2)))
  BY <1>1, NodesTyped
<1> HIDE DEF all, ns2, m
<1>11. ToSet(ks) = {m + 1}
  BY ToSets
<1> HIDE DEF ks
<1>12. \E up2, home2 : Longer(nodes, up, home, all, up2, home2, v, scope)
  <2>1. \A x \in ToSet(all[Len(nodes) + 1].kids) :
          x \in 1 .. Len(nodes) /\ up[x] = v /\ all[Len(nodes) + 1].kind # "brace"
    BY <1>6, <1>7, ToSets
  <2> QED
    BY <1>5, <1>6, <1>7, <2>1, TreeAdded
<1>13. PICK up2, home2 : Longer(nodes, up, home, all, up2, home2, v, scope)
  BY <1>12
<1>14. \E up3, home3 : Wider(all, up2, home2, ns2, up3, home3, m)
  <2>1. Nested(all, up2, home2)
    BY <1>13 DEF Longer
  <2>2. \A x \in ToSet(ns2[m].kids) : x = m + 1
    BY <1>9, <1>11 DEF GivenMore
  <2>3. Len(ns2) = m + 1 /\ ns2[m + 1] = ErrorNode
    BY <1>7, <1>9 DEF GivenMore
  <2>4. \A id \in 1 .. Len(all) :
          /\ ns2[id].kind = all[id].kind /\ ns2[id].outer = all[id].outer
          /\ ns2[id].decls = all[id].decls
          /\ id # m => ns2[id].kids = all[id].kids
    BY <1>9 DEF GivenMore
  <2> QED
    BY <1>6, <1>7, <1>10, <2>1, <2>2, <2>3, <2>4, ErrorUnder
<1>15. PICK up3, home3 : Wider(all, up2, home2, ns2, up3, home3, m)
  BY <1>14
<1>16. Len(ns2) = Len(nodes) + 2
  BY <1>5, <1>7, <1>9 DEF GivenMore
<1>17. Frame(nodes, up, home, ns2, up3, home3, This.node)
  <2>1. Frame(nodes, up, home, all, up2, home2, This.node)
    BY <1>13 DEF Longer
  <2>2. Frame(all, up2, home2, ns2, up3, home3, m)
    BY <1>15 DEF Wider
  <2>3. m \notin 1 .. Len(nodes) /\ Len(all) \in Nat /\ Len(ns2) \in Nat
    BY <1>5, <1>7, <1>16
  <2> QED
    BY <1>5, <2>1, <2>2, <2>3, FrameTwice
<1>18. up3[m] = v
  BY <1>7, <1>13, <1>15 DEF Longer, Wider
<1>19. \A x \in Kept(This) \cup Handed("obj", ret) \cup (Len(nodes) + 1 .. Len(nodes')) :
         IsKid(nodes', x) \/ x = ret'
  <2>1. Kept(This) \cup Handed("obj", ret) = {}
    BY <1>3, <1>5 DEF Kept
  <2>2. \A x \in Len(nodes) + 1 .. Len(nodes') : x = m \/ x = m + 1
    BY <1>5, <1>7, <1>16 DEF ns2
  <2>3. m + 1 \in ToSet(nodes'[m].kids)
    BY <1>9, <1>11 DEF GivenMore, ns2
  <2>4. m \in 1 .. Len(nodes')
    BY <1>5, <1>7, <1>16 DEF ns2
  <2> QED
    BY <1>1, <2>1, <2>2, <2>3, <2>4 DEF IsKid, m
<1>20. /\ Nested(nodes', up3, home3) /\ Frame(nodes, up, home, nodes', up3, home3, This.node)
       /\ up3[ret'] = h[2]
  BY <1>1, <1>15, <1>17, <1>18 DEF Wider, ns2, m
<1> QED
  BY <1>1, <1>2, <1>4, <1>5, <1>19, <1>20, TreePops

-----------------------------------------------------------------------------
(* The end of the source.                                                  *)

(* What is at the top: the statements still to go through, those that wait *)
(* for a declaration, and the declarations.                                *)
AtTop(ns, up, list, run, ds) ==
    /\ \A x \in ToSet(list) \cup ToSet(run) \cup ToSet(ds) : up[x] = 0
    /\ \A x \in 1 .. Len(ns) :
         IsKid(ns, x) \/ x \in ToSet(list) \cup ToSet(run) \cup ToSet(ds)

(* It is what the two calls that are left know.                            *)
LEMMA GatherState ==
    ASSUME Typed, Running("gather"), NEW up, NEW home, NEW h, TreeOf(up, home, h)
    PROVE  /\ This.node = 0 /\ calls[2].node = 0 /\ scope = 0 /\ outcome = "run"
           /\ This.at = "gather" /\ calls[2].at = "run"
           /\ Nested(nodes, up, home) /\ AtTop(nodes, up, This.list, Run, decls)
<1>1. /\ Len(calls) = 2 /\ calls[2].at = "run" /\ This = calls[1] /\ This.at = "gather"
      /\ outcome = "run" /\ Len(nodes) \in Nat
  BY Gathering
<1>2. /\ {"gather", "run"} \cap (Owners \cup ListLabels \cup {"rhs"}) = {}
      /\ {"gather", "run"} \subseteq NodeLists /\ "gather" \notin Waiting
  BY DEF NodeLists, Owners, ListLabels, Waiting
<1>3. /\ InList(calls[1]) = ToSet(This.list) /\ InList(calls[2]) = ToSet(Run)
      /\ Handed("gather", ret) = {}
  BY <1>1, <1>2, InLists DEF Handed, Run
<1>4. /\ StackOK(nodes, up, calls, h, 1) /\ StackOK(nodes, up, calls, h, 2) /\ h[3] = 0
      /\ calls # <<>>
  <2>1. 1 \in 1 .. Len(calls) /\ 2 \in 1 .. Len(calls) /\ Len(calls) + 1 = 3
    BY <1>1
  <2> QED
    BY <1>1, <2>1 DEF TreeOf, Stacked, Running
<1>5. calls[1].node = 0 /\ calls[2].node = 0
  BY <1>1, <1>2, <1>4 DEF StackOK
<1>6. h[2] = 0 /\ h[1] = 0
  <2>1. h[2] = h[3]
    BY <1>4, <1>5 DEF StackOK
  <2>2. h[1] = h[2]
    BY <1>4, <1>5 DEF StackOK
  <2> QED
    BY <1>4, <2>1, <2>2
<1>7. \A x \in ToSet(This.list) \cup ToSet(Run) : up[x] = 0
  BY <1>3, <1>4, <1>6 DEF StackOK
<1>8. \A x \in ToSet(decls) : up[x] = 0
  BY DEF TreeOf
<1>9. ASSUME NEW x \in 1 .. Len(nodes), ~IsKid(nodes, x)
      PROVE  x \in ToSet(This.list) \cup ToSet(Run) \cup ToSet(decls)
  <2>1. \A i \in 1 .. Len(calls) : Kept(calls[i]) \subseteq ToSet(This.list) \cup ToSet(Run)
    <3>1. \A i \in 1 .. Len(calls) : i = 1 \/ i = 2
      BY <1>1
    <3> QED
      BY <1>3, <1>5, <3>1 DEF Kept
  <2>2. \/ \E i \in 1 .. Len(calls) : x \in Kept(calls[i])
        \/ x \in Handed(calls[1].at, ret)
        \/ x \in ToSet(decls)
    BY <1>9 DEF TreeOf, Covered
  <2> QED
    BY <1>1, <1>3, <2>1, <2>2
<1>10. scope = 0
  BY <1>6 DEF TreeOf, HomeOf
<1> QED
  BY <1>1, <1>5, <1>7, <1>8, <1>9, <1>10 DEF AtTop, TreeOf

(* That is enough.                                                         *)
LEMMA GatherOn ==
    ASSUME NEW up, NEW home, Nested(nodes', up, home), Len(nodes') \in Nat, scope' = 0,
           NEW a, NEW b, calls' = <<a, b>>, a.at = "gather", b.at = "run",
           a.node = 0, b.node = 0, AtTop(nodes', up, a.list, b.list, decls')
    PROVE  Treed'
<1> DEFINE z == 0
           h == <<z, z, z>>
           cs == calls'
           ns == nodes'
<1>1. /\ {"gather", "run"} \cap (Owners \cup ListLabels \cup {"rhs", "postfix"}) = {}
      /\ {"gather", "run"} \subseteq NodeLists /\ "gather" \notin Waiting
  BY DEF NodeLists, Owners, ListLabels, Waiting
<1>2. Len(cs) = 2 /\ cs[1] = a /\ cs[2] = b /\ cs # <<>>
  OBVIOUS
<1>3. h \in Seq(Nat) /\ Len(h) = 3 /\ h[1] = 0 /\ h[2] = 0 /\ h[3] = 0
  OBVIOUS
<1> HIDE DEF h
<1>4. InList(a) = ToSet(a.list) /\ InList(b) = ToSet(b.list) /\ Handed(a.at, ret') = {}
  BY <1>1, InLists DEF Handed
<1>5. StackOK(ns, up, cs, h, 1) /\ StackOK(ns, up, cs, h, 2)
  BY <1>2, <1>3, <1>4 DEF StackOK, AtTop
<1> HIDE DEF cs
<1>6. Stacked(ns, up, cs, ret', h)
  <2>1. \A i \in 1 .. 3 : h[i] = 0
    <3>1. \A i \in 1 .. 3 : i = 1 \/ i = 2 \/ i = 3
      OBVIOUS
    <3> QED
      BY <1>3, <3>1
  <2>2. \A i \in 1 .. 2 : StackOK(ns, up, cs, h, i)
    <3>1. \A i \in 1 .. 2 : i = 1 \/ i = 2
      OBVIOUS
    <3> QED
      BY <1>5, <3>1
  <2> QED
    BY <1>2, <1>3, <1>4, <2>1, <2>2 DEF Stacked
<1>7. Covered(ns, cs, ret', decls')
  <2>1. Kept(a) = ToSet(a.list) /\ Kept(b) = ToSet(b.list)
    BY <1>4 DEF Kept
  <2> QED
    BY <1>2, <2>1 DEF Covered, AtTop
<1>8. Bottomed(cs)
  BY <1>2 DEF Bottomed
<1>9. Plain(ns, cs, ret')
  BY <1>2 DEF Plain
<1>10. /\ Nested(nodes', up, home) /\ Stacked(nodes', up, calls', ret', h)
       /\ Covered(nodes', calls', ret', decls') /\ scope' = HomeOf(nodes', home, h[1])
       /\ (\A x \in ToSet(decls') : up[x] = 0) /\ Bottomed(calls') /\ Plain(nodes', calls', ret')
  BY <1>3, <1>6, <1>7, <1>8, <1>9 DEF AtTop, HomeOf, cs
<1>11. TreeOf(up, home, h)'
  BY <1>10 DEF TreeOf
<1> QED
  BY <1>11 DEF Treed

(* The first of a list, and the rest.                                      *)
LEMMA ToSetTail ==
    ASSUME NEW S, NEW s \in Seq(S), s # <<>>
    PROVE  Head(s) \in S /\ Tail(s) \in Seq(S) /\ ToSet(s) = {Head(s)} \cup ToSet(Tail(s))
<1> DEFINE t == Tail(s)
<1>1. /\ Head(s) = s[1] /\ t \in Seq(S) /\ Len(t) = Len(s) - 1 /\ Len(s) \in Nat
      /\ Len(s) >= 1 /\ \A i \in 1 .. Len(t) : t[i] = s[i + 1]
  BY HeadTailProperties, LenProperties, EmptySeq
<1>2. DOMAIN s = 1 .. Len(s) /\ DOMAIN t = 1 .. Len(t)
  BY <1>1, LenProperties
<1> HIDE DEF t
<1>3. ASSUME NEW i \in 1 .. Len(s)
      PROVE  s[i] = s[1] \/ (i - 1 \in 1 .. Len(t) /\ t[i - 1] = s[i])
  <2>1. CASE i = 1
    BY <2>1
  <2>2. CASE i # 1
    <3>1. i - 1 \in 1 .. Len(t) /\ (i - 1) + 1 = i
      BY <1>1, <2>2
    <3> QED
      BY <1>1, <3>1
  <2> QED
    BY <2>1, <2>2
<1>4. \A x \in ToSet(s) : x \in {s[1]} \cup ToSet(t)
  BY <1>2, <1>3 DEF ToSet
<1>5. 1 \in 1 .. Len(s) /\ \A i \in 1 .. Len(t) : i + 1 \in 1 .. Len(s)
  BY <1>1
<1>6. \A x \in {s[1]} \cup ToSet(t) : x \in ToSet(s)
  BY <1>1, <1>2, <1>5, SMTT(30) DEF ToSet
<1> QED
  BY <1>1, <1>4, <1>6, HeadTailProperties DEF t

(* A statement waits for the next declaration.                             *)
LEMMA GatherStmtTrees ==
    ASSUME Typed, Treed, GatherStmt
    PROVE  Treed'
<1> DEFINE s == This.list
           c == calls[2]
           a == [This EXCEPT !.list = Tail(s)]
           b == [c EXCEPT !.list = Append(c.list, Head(s))]
<1>1. /\ Running("gather") /\ s # <<>> /\ calls' = <<a, b>>
      /\ UNCHANGED <<decls, nodes, scope>>
  BY DEF GatherStmt, Keep
<1>2. PICK up, home, h : TreeOf(up, home, h)
  BY DEF Treed
<1>3. /\ This.node = 0 /\ c.node = 0 /\ scope = 0 /\ This.at = "gather" /\ c.at = "run"
      /\ Nested(nodes, up, home) /\ AtTop(nodes, up, s, c.list, decls)
  BY <1>1, <1>2, GatherState DEF Run
<1>4. /\ s \in Seq(1 .. Len(nodes)) /\ c.list \in Seq(1 .. Len(nodes)) /\ Len(nodes) \in Nat
      /\ This \in CallType /\ c \in CallType
  BY <1>1, Gathering DEF Run
<1>5. /\ a.at = "gather" /\ a.node = 0 /\ a.list = Tail(s)
      /\ b.at = "run" /\ b.node = 0 /\ b.list = Append(c.list, Head(s))
  BY <1>3, <1>4, CallAt, ZenonT(40)
<1>6. Head(s) \in 1 .. Len(nodes) /\ ToSet(s) = {Head(s)} \cup ToSet(Tail(s))
  <2> HIDE DEF s
  <2> QED
    BY <1>1, <1>4, ToSetTail
<1>7. ToSet(b.list) = ToSet(c.list) \cup {Head(s)}
  <2> DEFINE y == Head(s)
  <2> HIDE DEF y, s, c, b
  <2>1. y \in 1 .. Len(nodes) /\ b.list = Append(c.list, y)
    BY <1>5, <1>6 DEF y, b
  <2> DEFINE r == c.list
  <2>2. r \in Seq(1 .. Len(nodes)) /\ b.list = Append(r, y)
    BY <1>4, <2>1
  <2> HIDE DEF r
  <2>3. ToSet(Append(r, y)) = ToSet(r) \cup {y}
    BY <2>1, <2>2, ToSetAppend
  <2> QED
    BY <2>2, <2>3 DEF y, r
<1> HIDE DEF a, b, c, s
<1>8. ToSet(a.list) \cup ToSet(b.list) = ToSet(s) \cup ToSet(c.list)
  BY <1>5, <1>6, <1>7
<1>9. AtTop(nodes', up, a.list, b.list, decls')
  BY <1>1, <1>3, <1>8 DEF AtTop, IsKid
<1>10. Nested(nodes', up, home) /\ Len(nodes') \in Nat /\ scope' = 0
  BY <1>1, <1>3, <1>4
<1> QED
  BY <1>1, <1>5, <1>9, <1>10, GatherOn

(* A declaration is a declaration of the source.                           *)
LEMMA GatherDeclTrees ==
    ASSUME Typed, Treed, GatherDecl
    PROVE  Treed'
<1> DEFINE s == This.list
           c == calls[2]
           a == [This EXCEPT !.list = Tail(s)]
           b == Call("run")
<1>1. /\ Running("gather") /\ s # <<>> /\ calls' = <<a, b>> /\ c.list = <<>>
      /\ UNCHANGED <<nodes, scope>> /\ decls' = Append(decls, Head(s))
  BY DEF GatherDecl, GathersDecl, Run
<1>2. PICK up, home, h : TreeOf(up, home, h)
  BY DEF Treed
<1>3. /\ This.node = 0 /\ scope = 0 /\ This.at = "gather"
      /\ Nested(nodes, up, home) /\ AtTop(nodes, up, s, c.list, decls)
  BY <1>1, <1>2, GatherState DEF Run
<1>4. s \in Seq(1 .. Len(nodes)) /\ Len(nodes) \in Nat /\ This \in CallType
  BY <1>1, Gathering
<1>5. /\ a.at = "gather" /\ a.node = 0 /\ a.list = Tail(s)
      /\ b.at = "run" /\ b.node = 0 /\ b.list = <<>>
  <2>1. a.at = "gather" /\ a.node = 0 /\ a.list = Tail(s)
    BY <1>3, <1>4, CallAt
  <2>2. b.at = "run" /\ b.node = 0 /\ b.list = <<>>
    BY DEF Call
  <2> QED
    BY <2>1, <2>2
<1>6. Head(s) \in 1 .. Len(nodes) /\ ToSet(s) = {Head(s)} \cup ToSet(Tail(s))
  <2> HIDE DEF s
  <2> QED
    BY <1>1, <1>4, ToSetTail
<1>7. ToSet(decls') = ToSet(decls) \cup {Head(s)}
  <2> DEFINE y == Head(s)
  <2> HIDE DEF y, s
  <2>1. y \in 1 .. Len(nodes) /\ decls' = Append(decls, y)
    BY <1>1, <1>6 DEF y
  <2>2. decls \in Seq(1 .. Len(nodes))
    BY DEF Typed
  <2>3. ToSet(Append(decls, y)) = ToSet(decls) \cup {y}
    BY <2>1, <2>2, ToSetAppend
  <2> QED
    BY <2>1, <2>3 DEF y
<1> HIDE DEF a, b, c, s
<1>8. ToSet(a.list) \cup ToSet(b.list) \cup ToSet(decls')
        = ToSet(s) \cup ToSet(c.list) \cup ToSet(decls)
  BY <1>1, <1>5, <1>6, <1>7
<1>9. AtTop(nodes', up, a.list, b.list, decls')
  BY <1>1, <1>3, <1>8 DEF AtTop, IsKid
<1>10. Nested(nodes', up, home) /\ Len(nodes') \in Nat /\ scope' = 0
  BY <1>1, <1>3, <1>4
<1> QED
  BY <1>1, <1>5, <1>9, <1>10, GatherOn

(* The statements that wait become a node.                                 *)
LEMMA WrapRunTrees ==
    ASSUME Typed, Typed', Treed, WrapRun
    PROVE  Treed'
<1> DEFINE r == Run
           ts == <<>>
           u == Node("top", ts, r)
           a == This
           b == Call("run")
           m == NewId
<1>1. /\ Running("gather") /\ calls' = <<a, b>> /\ UNCHANGED <<input, scope>>
      /\ decls' = Append(decls, m) /\ nodes' = Append(nodes, u)
  BY DEF WrapRun, New
<1>2. PICK up, home, h : TreeOf(up, home, h)
  BY DEF Treed
<1>3. /\ a.node = 0 /\ scope = 0 /\ a.at = "gather"
      /\ Nested(nodes, up, home) /\ AtTop(nodes, up, a.list, r, decls)
  BY <1>1, <1>2, GatherState
<1>4. /\ r \in Seq(1 .. Len(nodes)) /\ a.list \in Seq(1 .. Len(nodes)) /\ Len(nodes) \in Nat
      /\ nodes \in Seq(NodeType(Len(nodes))) /\ m = Len(nodes) + 1
      /\ decls \in Seq(1 .. Len(nodes))
  BY <1>1, Gathering DEF Typed, NewId
<1>5. b.at = "run" /\ b.node = 0 /\ b.list = <<>>
  BY DEF Call
<1>6. u.kind = "top" /\ u.kids = r /\ u.decls = <<>> /\ u.kind \notin DeclKinds
  BY DEF Node, DeclKinds
<1>7. nodes' \in Seq(NodeType(Len(nodes')))
  BY <1>1 DEF Typed, NodeType, n
<1> HIDE DEF u, a, b, r
<1>8. Added(nodes, nodes', scope) /\ nodes'[m] = u
  BY <1>1, <1>6, <1>7, AppendAdded
<1>9. \A x \in ToSet(r) : x \in 1 .. Len(nodes) /\ up[x] = 0
  <2>1. ToSet(r) \subseteq 1 .. Len(nodes)
    BY <1>4, Elements
  <2> QED
    BY <1>3, <2>1 DEF AtTop
<1>10. \E up2, home2 : Longer(nodes, up, home, nodes', up2, home2, 0, scope)
  <2>1. 0 \in 0 .. Len(nodes) /\ scope = HomeOf(nodes, home, 0)
    BY <1>3, <1>4 DEF HomeOf
  <2>2. \A x \in ToSet(nodes'[NewId].kids) :
          x \in 1 .. Len(nodes) /\ up[x] = 0 /\ nodes'[NewId].kind # "brace"
    BY <1>6, <1>8, <1>9 DEF m
  <2> QED
    BY <1>3, <1>4, <1>8, <2>1, <2>2, NodeMade
<1>11. PICK up2, home2 : Longer(nodes, up, home, nodes', up2, home2, 0, scope)
  BY <1>10
<1>12. /\ Nested(nodes', up2, home2) /\ up2[m] = 0
       /\ \A x \in 1 .. Len(nodes) : up2[x] = up[x]
  BY <1>4, <1>11 DEF Longer
<1>13. Len(nodes') = m /\ \A x \in 1 .. Len(nodes) : nodes'[x].kids = nodes[x].kids
  BY <1>4, <1>8 DEF Added
<1>14. ToSet(decls') = ToSet(decls) \cup {m}
  <2>1. decls \in Seq(1 .. m) /\ m \in 1 .. m
    BY <1>4, BelowGrows
  <2> HIDE DEF m
  <2> QED
    BY <1>1, <2>1, ToSetAppend
<1> HIDE DEF m
<1>15. ToSet(b.list) = {}
  BY <1>5, ToSets
<1>16. ASSUME NEW x \in ToSet(a.list) \cup ToSet(b.list) \cup ToSet(decls')
       PROVE  up2[x] = 0
  <2>1. CASE x = m
    BY <1>12, <2>1
  <2>2. CASE x # m
    <3>1. x \in ToSet(a.list) \cup ToSet(decls)
      BY <1>14, <1>15, <1>16, <2>2
    <3>2. ToSet(a.list) \subseteq 1 .. Len(nodes) /\ ToSet(decls) \subseteq 1 .. Len(nodes)
      BY <1>4, Elements
    <3> QED
      BY <1>3, <1>12, <3>1, <3>2 DEF AtTop
  <2> QED
    BY <2>1, <2>2
<1>17. ASSUME NEW x \in 1 .. Len(nodes')
       PROVE  IsKid(nodes', x) \/ x \in ToSet(a.list) \cup ToSet(b.list) \cup ToSet(decls')
  <2>1. CASE x = m
    BY <1>14, <2>1
  <2>2. CASE x # m
    <3>1. x \in 1 .. Len(nodes)
      BY <1>4, <1>13, <2>2
    <3>2. CASE IsKid(nodes, x)
      <4>1. PICK p \in 1 .. Len(nodes) : x \in ToSet(nodes[p].kids)
        BY <3>2 DEF IsKid
      <4>2. p \in 1 .. Len(nodes') /\ x \in ToSet(nodes'[p].kids)
        BY <1>4, <1>13, <4>1
      <4> QED
        BY <4>2 DEF IsKid
    <3>3. CASE x \in ToSet(r)
      <4>1. m \in 1 .. Len(nodes') /\ x \in ToSet(nodes'[m].kids)
        BY <1>4, <1>6, <1>8, <1>13, <3>3
      <4> QED
        BY <4>1 DEF IsKid
    <3>4. CASE x \in ToSet(a.list) \cup ToSet(decls)
      BY <1>14, <3>4
    <3> QED
      BY <1>3, <3>1, <3>2, <3>3, <3>4 DEF AtTop
  <2> QED
    BY <2>1, <2>2
<1>18. AtTop(nodes', up2, a.list, b.list, decls')
  BY <1>16, <1>17 DEF AtTop
<1>19. Len(nodes') \in Nat /\ scope' = 0
  BY <1>1, <1>3, <1>4, <1>13
<1> QED
  BY <1>1, <1>3, <1>5, <1>12, <1>18, <1>19, GatherOn

(* Nothing is left to be done.                                             *)
LEMMA FinishTrees ==
    ASSUME Typed, Treed, Finish
    PROVE  Treed'
<1> DEFINE z == 0
           h2 == <<z>>
           e == calls'
<1>1. /\ Running("gather") /\ calls' = <<>> /\ This.list = <<>> /\ Run = <<>>
      /\ UNCHANGED <<ret, nodes, scope, decls>> /\ outcome' = "done"
  BY DEF Finish
<1>2. PICK up, home, h : TreeOf(up, home, h)
  BY DEF Treed
<1>3. scope = 0 /\ Nested(nodes, up, home) /\ AtTop(nodes, up, This.list, Run, decls)
  BY <1>1, <1>2, GatherState
<1>4. Len(nodes) \in Nat
  BY <1>1, Gathering
<1>5. h2 \in Seq(Nat) /\ Len(h2) = 1 /\ h2[1] = 0
  OBVIOUS
<1>6. e = <<>> /\ Len(e) = 0
  BY <1>1
<1> HIDE DEF h2, e
<1>7. Stacked(nodes, up, e, ret, h2)
  BY <1>4, <1>5, <1>6 DEF Stacked
<1>8. Covered(nodes, e, ret, decls)
  <2>1. ToSet(This.list) = {} /\ ToSet(Run) = {}
    BY <1>1, ToSets
  <2> QED
    BY <1>3, <2>1 DEF AtTop, Covered
<1>9. Plain(nodes, e, ret)
  BY <1>6 DEF Plain
<1>10. /\ Nested(nodes', up, home) /\ Stacked(nodes', up, calls', ret', h2)
       /\ Covered(nodes', calls', ret', decls') /\ scope' = HomeOf(nodes', home, h2[1])
       /\ (\A x \in ToSet(decls') : up[x] = 0) /\ outcome' # "run"
       /\ Plain(nodes', calls', ret')
  BY <1>1, <1>3, <1>5, <1>7, <1>8, <1>9 DEF AtTop, HomeOf, e
<1>11. TreeOf(up, home, h2)'
  BY <1>10 DEF TreeOf
<1> QED
  BY <1>11 DEF Treed

(* No step makes a tree that is none.                                      *)
LEMMA DeclarationTrees ==
    ASSUME Typed, Typed', Levelled, Treed, Declaration
    PROVE  Treed'
<1>1. CASE DeclAtEnd
  BY <1>1, LeavesTrees
<1>2. CASE VarWithInit \/ FunDecl
  BY <1>2, DeclTrees
<1>3. CASE VarWithout
  BY <1>3, VarWithoutTrees
<1>4. CASE VarLast \/ FunNoParams \/ ObjLast
  BY <1>4, TreeStops DEF VarLast, FunNoParams, ObjLast, Stop
<1>5. CASE NextParam \/ NoParam
  BY <1>5, ParamTrees
<1>6. CASE SkipComma
  BY <1>6, TreeSkips
<1>7. CASE Param
  <2>1. CASE Overflow
    BY <2>1, TreeStops DEF Overflow, Stop
  <2>2. CASE ~Overflow
    BY <1>7, <2>2, ParamTrees
  <2> QED
    BY <2>1, <2>2
<1>8. CASE CloseParams
  BY <1>8, CloseParamsTrees
<1>9. CASE ObjDecl
  BY <1>9, DeclTrees, NoObjectTrees
<1>10. CASE Completed
  BY <1>10, ClosesTrees
<1> QED
  BY <1>1, <1>2, <1>3, <1>4, <1>5, <1>6, <1>7, <1>8, <1>9, <1>10 DEF Declaration

(* The same of expressions.                                                *)
LEMMA ExpressionTrees ==
    ASSUME Typed, Typed', Levelled, Treed, Expression
    PROVE  Treed'
<1>1. CASE Infix \/ PrefixOperator \/ NoPrefix \/ OpenParen
  BY <1>1, PushTrees
<1>2. CASE Lhs \/ NoOperator \/ PostfixDone
  BY <1>2, ReturnTrees
<1>3. CASE Operator
  BY <1>3, OperatorTrees
<1>4. CASE Rhs
  BY <1>4, RhsTrees
<1>5. CASE Operand \/ CloseParen
  BY <1>5, WrapTrees
<1>6. CASE Atom \/ ExprAtEnd \/ NoExpr
  BY <1>6, LeavesTrees
<1>7. CASE Member
  BY <1>7, NamedMemberTrees, BadMemberTrees
<1>8. CASE OpenArgs \/ NextArg
  BY <1>8, ArgTrees
<1>9. CASE Arg
  BY <1>9, ArgBegins
<1>10. CASE ArgParsed
  <2>1. CASE Overflow
    BY <2>1, TreeStops DEF Overflow, Stop
  <2>2. CASE ~Overflow
    BY <1>10, <2>2, ArgTrees
  <2> QED
    BY <2>1, <2>2
<1>11. CASE CloseArgs
  BY <1>11, CloseArgsTrees
<1> QED
  BY <1>1, <1>2, <1>3, <1>4, <1>5, <1>6, <1>7, <1>8, <1>9, <1>10, <1>11 DEF Expression

(* The same of statements.                                                 *)
LEMMA StatementTrees ==
    ASSUME Typed, Typed', Levelled, Treed, Statement
    PROVE  Treed'
<1>1. CASE SkipSemicolon \/ RecoverSkips
  BY <1>1, TreeSkips
<1>2. CASE NextStmt
  BY <1>2, NextStmtTrees
<1>3. CASE StmtParsed
  <2>1. CASE Stop("undefined")
    BY <2>1, TreeStops DEF Stop
  <2>2. CASE ~Stop("undefined")
    <3>1. outcome' = outcome
      BY <1>3, <2>2 DEF StmtParsed, Keep
    <3> QED
      BY <1>3, <3>1, StmtTrees
  <2> QED
    BY <2>1, <2>2
<1>4. CASE Recovered \/ Production
  BY <1>4, StmtTrees
<1>5. CASE StmtAtEnd \/ BrkOrNxt
  BY <1>5, LeavesTrees
<1>6. CASE ExprStmt
  BY <1>6, PushTrees
<1>7. CASE WrapExpr
  BY <1>7, WrapTrees
<1>8. CASE OpenBrace
  BY <1>8, OpenBraceTrees
<1>9. CASE CloseBrace
  BY <1>9, ClosesTrees
<1>10. CASE IfStmt \/ WhileStmt \/ RetStmt
  BY <1>10, KeywordTrees
<1>11. CASE Then
  BY <1>11, ThenTrees
<1>12. CASE Else
  BY <1>12, FollowTrees, ClosesTrees
<1>13. CASE Body
  BY <1>13, FollowTrees, NoBodyTrees
<1>14. CASE EndOfSource
  BY <1>14, EndOfSourceTrees
<1>15. CASE GatherStmt \/ WrapRun \/ GatherDecl
  BY <1>15, GatherStmtTrees, WrapRunTrees, GatherDeclTrees
<1>16. CASE Finish
  BY <1>16, FinishTrees
<1> QED
  BY <1>1, <1>2, <1>3, <1>4, <1>5, <1>6, <1>7, <1>8, <1>9, <1>10, <1>11, <1>12, <1>13,
     <1>14, <1>15, <1>16, RecoverWays DEF Statement

(* The same of every step.                                                 *)
LEMMA TreesGrow ==
    ASSUME IInv, Treed, [Next]_vars
    PROVE  Treed'
<1>1. Typed /\ Levelled /\ Typed'
  BY NextInv DEF IInv
<1>2. CASE UNCHANGED vars
  BY <1>2, TreeStays DEF vars
<1> QED
  BY <1>1, <1>2, DeclarationTrees, ExpressionTrees, StatementTrees DEF Next

(* There is no node yet.                                                   *)
LEMMA NoTrees ==
    ASSUME Init
    PROVE  Treed
<1> DEFINE z == 0
           h == <<z, z>>
           up == <<>>
           c == Call("stmts")
<1>1. /\ calls = <<c>> /\ nodes = <<>> /\ scope = 0 /\ decls = <<>> /\ outcome = "run"
  BY DEF Init
<1>2. c.at = "stmts" /\ c.node = 0 /\ c.list = <<>>
  BY DEF Call
<1> HIDE DEF c
<1>3. Len(calls) = 1 /\ calls[1] = c /\ calls # <<>> /\ Len(nodes) = 0
  BY <1>1
<1>4. h \in Seq(Nat) /\ Len(h) = 2 /\ h[1] = 0 /\ h[2] = 0
  OBVIOUS
<1> HIDE DEF h
<1>5. "stmts" \in ListLabels \cap NodeLists /\ "stmts" \notin Waiting
  BY DEF ListLabels, NodeLists, Waiting
<1>6. up \in Seq(Nat) /\ Len(up) = 0
  BY EmptyList
<1> HIDE DEF up
<1>7. Nested(nodes, up, up)
  BY <1>3, <1>6 DEF Nested, Ups, Parted
<1>8. InList(c) = {} /\ Handed(c.at, ret) = {}
  BY <1>2, <1>5, InLists DEF Handed
<1>9. StackOK(nodes, up, calls, h, 1)
  BY <1>2, <1>3, <1>4, <1>5, <1>8 DEF StackOK
<1>10. Stacked(nodes, up, calls, ret, h)
  <2>1. \A i \in 1 .. 2 : h[i] = 0
    <3>1. \A i \in 1 .. 2 : i = 1 \/ i = 2
      OBVIOUS
    <3> QED
      BY <1>4, <3>1
  <2>2. \A i \in 1 .. 1 : i = 1
    OBVIOUS
  <2> QED
    BY <1>3, <1>4, <1>8, <1>9, <2>1, <2>2 DEF Stacked
<1>11. Covered(nodes, calls, ret, decls)
  BY <1>3 DEF Covered
<1>12. Bottomed(calls) /\ Plain(nodes, calls, ret)
  BY <1>2, <1>3, <1>5 DEF Bottomed, Plain
<1>13. \A x \in ToSet(decls) : up[x] = 0
  BY <1>1, ToSets
<1>14. TreeOf(up, up, h)
  BY <1>1, <1>4, <1>7, <1>10, <1>11, <1>12, <1>13 DEF TreeOf, HomeOf
<1> QED
  BY <1>14 DEF Treed

(* When it is done, nothing is left to be parsed.                          *)
Ended == outcome = "done" => calls = <<>>

(* That stays so.                                                          *)
LEMMA EndedNext ==
    ASSUME Ended, [Next]_vars
    PROVE  Ended'
<1>1. CASE UNCHANGED vars
  BY <1>1 DEF Ended, vars
<1>2. CASE Next
  <2>1. CASE outcome' # "done"
    BY <2>1 DEF Ended
  <2>2. CASE outcome' = "done"
    <3>1. CASE Finish
      BY <3>1 DEF Finish, Ended
    <3>2. CASE ~Finish
      <4>1. CASE Declaration
        BY <2>2, <4>1 DEF Declaration, DeclAtEnd, VarWithInit, VarWithout, VarLast, FunDecl,
           FunNoParams, NextParam, SkipComma, NoParam, Param, CloseParams, ObjDecl, ObjLast,
           Completed, NameOf, Keep, Stop, Overflow, Running
      <4>2. CASE Expression
        BY <2>2, <4>2 DEF Expression, Infix, Lhs, Operator, NoOperator, Rhs, PrefixOperator,
           NoPrefix, Operand, Atom, OpenParen, ExprAtEnd, NoExpr, CloseParen, PostfixDone,
           Member, OpenArgs, NextArg, Arg, ArgParsed, CloseArgs, Keep, Stop, Overflow, Running
      <4>3. CASE Statement
        BY <2>2, <3>2, <4>3 DEF Statement, SkipSemicolon, NextStmt, StmtParsed, Recover,
           StmtAtEnd, Production, ExprStmt, WrapExpr, OpenBrace, CloseBrace, IfStmt, Then,
           Else, WhileStmt, Body, BrkOrNxt, RetStmt, Keyword, EndOfSource, GatherStmt, WrapRun,
           GatherDecl, Keep, Stop, Running
      <4> QED
        BY <1>2, <4>1, <4>2, <4>3 DEF Next
    <3> QED
      BY <3>1, <3>2
  <2> QED
    BY <2>1, <2>2
<1> QED
  BY <1>1, <1>2

(* The trees of every reachable state.                                     *)
THEOREM TreesNest == Spec => [](IInv /\ Treed /\ Ended)
<1>1. Init => IInv /\ Treed /\ Ended
  BY InitHolds, NoTrees DEF Init, Ended
<1>2. IInv /\ Treed /\ Ended /\ [Next]_vars => (IInv /\ Treed /\ Ended)'
  BY NextInv, TreesGrow, EndedNext
<1> QED
  BY <1>1, <1>2, PTL DEF Spec

-----------------------------------------------------------------------------
(* What the trees say in the end.                                          *)

(* The declarations below each node, as the equation that defines them.    *)
FromKids(ns, f, id) == UNION {Own(ns, f, kid) : kid \in ToSet(ns[id].kids)}
Unders(ns, f)       == f = [id \in DOMAIN ns |-> FromKids(ns, f, id)]

(* The sets that hold them.                                                *)
Holders(ns)    == [DOMAIN ns -> SUBSET (DOMAIN ns)]
Holds(ns, f)   == f \in Holders(ns) /\ \A id \in DOMAIN ns : FromKids(ns, f, id) \subseteq f[id]
Held(ns, id)   == {d \in DOMAIN ns : \A f : Holds(ns, f) => d \in f[id]}
LeastHeld(ns)     == [id \in DOMAIN ns |-> Held(ns, id)]

(* What is in the sets.                                                    *)
LEMMA FromKidsIs ==
    ASSUME NEW ns, NEW f, NEW id, NEW d
    PROVE  d \in FromKids(ns, f, id) <=> \E kid \in ToSet(ns[id].kids) : d \in Own(ns, f, kid)
  BY DEF FromKids

(* What a node has of its own.                                             *)
LEMMA OwnIs ==
    ASSUME NEW ns, NEW f, NEW id, NEW d
    PROVE  d \in Own(ns, f, id) <=> /\ ns[id].kind # "brace"
                                    /\ d \in f[id] \/ (d = id /\ ns[id].kind \in DeclKinds)
  BY DEF Own

(* They grow with what they are made from.                                 *)
LEMMA FromKidsGrows ==
    ASSUME NEW ns, NEW f, NEW g, NEW id,
           \A kid \in ToSet(ns[id].kids) : f[kid] \subseteq g[kid]
    PROVE  FromKids(ns, f, id) \subseteq FromKids(ns, g, id)
<1> SUFFICES ASSUME NEW d, d \in FromKids(ns, f, id)
             PROVE  d \in FromKids(ns, g, id)
  OBVIOUS
<1>1. PICK kid \in ToSet(ns[id].kids) : d \in Own(ns, f, kid)
  BY FromKidsIs
<1>2. d \in Own(ns, g, kid)
  BY <1>1, OwnIs
<1> QED
  BY <1>1, <1>2, FromKidsIs

(* There are such sets: the least that hold them.                          *)
LEMMA UndersExist ==
    ASSUME NEW ns, \A id \in DOMAIN ns : ToSet(ns[id].kids) \subseteq DOMAIN ns
    PROVE  Unders(ns, LeastHeld(ns))
<1> DEFINE f == LeastHeld(ns)
           t == [id \in DOMAIN ns |-> FromKids(ns, f, id)]
<1>1. \A id \in DOMAIN ns : f[id] = Held(ns, id)
  BY DEF LeastHeld
<1>2. f \in Holders(ns)
  BY DEF LeastHeld, Held, Holders
<1>3. ASSUME NEW g, Holds(ns, g), NEW id \in DOMAIN ns
      PROVE  f[id] \subseteq g[id]
  BY <1>1, <1>3 DEF Held
<1> HIDE DEF f
<1>4. ASSUME NEW g, Holds(ns, g), NEW id \in DOMAIN ns
      PROVE  FromKids(ns, f, id) \subseteq g[id]
  <2>1. FromKids(ns, f, id) \subseteq FromKids(ns, g, id)
    BY <1>3, <1>4, FromKidsGrows
  <2> QED
    BY <1>4, <2>1 DEF Holds
<1>5. ASSUME NEW id \in DOMAIN ns
      PROVE  FromKids(ns, f, id) \subseteq DOMAIN ns
  <2> SUFFICES ASSUME NEW d, d \in FromKids(ns, f, id)
               PROVE  d \in DOMAIN ns
    OBVIOUS
  <2>1. PICK kid \in ToSet(ns[id].kids) : d \in Own(ns, f, kid)
    BY FromKidsIs
  <2>2. kid \in DOMAIN ns
    BY <2>1
  <2>3. f[kid] \subseteq DOMAIN ns
    BY <1>2, <2>2 DEF Holders
  <2> QED
    BY <2>1, <2>2, <2>3, OwnIs
<1>6. ASSUME NEW id \in DOMAIN ns
      PROVE  FromKids(ns, f, id) \subseteq f[id]
  BY <1>1, <1>4, <1>5 DEF Held
<1>7. t \in Holders(ns) /\ \A id \in DOMAIN ns : t[id] = FromKids(ns, f, id)
  BY <1>5 DEF Holders
<1> HIDE DEF t
<1>8. Holds(ns, t)
  <2>1. ASSUME NEW id \in DOMAIN ns
        PROVE  FromKids(ns, t, id) \subseteq FromKids(ns, f, id)
    <3>1. \A kid \in ToSet(ns[id].kids) : t[kid] \subseteq f[kid]
      BY <1>6, <1>7
    <3> QED
      BY <3>1, FromKidsGrows
  <2> QED
    BY <1>7, <2>1 DEF Holds
<1>9. \A id \in DOMAIN ns : f[id] = FromKids(ns, f, id)
  BY <1>3, <1>6, <1>7, <1>8
<1>10. f = [id \in DOMAIN ns |-> f[id]]
  BY <1>2 DEF Holders
<1>11. f = [id \in DOMAIN ns |-> FromKids(ns, f, id)]
  BY <1>9, <1>10, Zenon
<1> QED
  BY <1>11 DEF Unders, f

(* What is below a node, through its children.                             *)
LEMMA DeclsUnderIs ==
    ASSUME NEW ns, \A id \in DOMAIN ns : ToSet(ns[id].kids) \subseteq DOMAIN ns
    PROVE  \A id \in DOMAIN ns : \A d :
             d \in DeclsUnder(ns)[id]
               <=> \E kid \in ToSet(ns[id].kids) : d \in Own(ns, DeclsUnder(ns), kid)
<1>1. DeclsUnder(ns) = CHOOSE f : Unders(ns, f)
  BY Zenon DEF DeclsUnder, Unders, FromKids
<1>2. \E f : Unders(ns, f)
  BY UndersExist
<1>3. Unders(ns, DeclsUnder(ns))
  BY <1>1, <1>2, Zenon
<1> DEFINE u == DeclsUnder(ns)
<1> HIDE DEF u
<1>4. \A id \in DOMAIN ns : u[id] = FromKids(ns, u, id)
  BY <1>3, Zenon DEF Unders, u
<1> QED
  BY <1>4, FromKidsIs DEF u

(* Of some numbers one is the least.                                       *)
LEMMA LeastNumber ==
    ASSUME NEW S \in SUBSET Nat, S # {}
    PROVE  \E i \in S : \A j \in S : i <= j
<1> DEFINE Less == {pair \in Nat \X Nat : pair[1] < pair[2]}
<1>1. IsWellFoundedOn(Less, Nat)
  BY NatLessThanWellFounded, Zenon DEF OpToRel
<1>2. \A i, j \in Nat : j < i => <<j, i>> \in Less
  OBVIOUS
<1> HIDE DEF Less
<1>3. PICK i \in S : \A j \in S : ~ (<<j, i>> \in Less)
  BY <1>1, WFMin, Zenon
<1>4. \A j \in S : ~ (j < i)
  BY <1>2, <1>3, Zenon
<1> QED
  BY <1>4

(* Of some things one is the least by f, and by g among equals.            *)
LEMMA LeastOf ==
    ASSUME NEW B, B # {}, NEW f, NEW g, \A x \in B : f[x] \in Nat /\ g[x] \in Nat
    PROVE  \E x \in B : \A y \in B : f[x] < f[y] \/ (f[x] = f[y] /\ g[x] <= g[y])
<1> DEFINE F == {f[x] : x \in B}
<1>1. F \in SUBSET Nat /\ F # {}
  OBVIOUS
<1>2. PICK i \in F : \A j \in F : i <= j
  <2> HIDE DEF F
  <2> QED
    BY <1>1, LeastNumber
<1> DEFINE G == {g[x] : x \in {z \in B : f[z] = i}}
<1>3. G \in SUBSET Nat /\ G # {}
  OBVIOUS
<1>4. PICK k \in G : \A j \in G : k <= j
  <2> HIDE DEF F, G
  <2> QED
    BY <1>3, LeastNumber
<1>5. PICK x \in B : f[x] = i /\ g[x] = k
  OBVIOUS
<1>6. ASSUME NEW y \in B
      PROVE  f[x] < f[y] \/ (f[x] = f[y] /\ g[x] <= g[y])
  <2>1. i <= f[y]
    BY <1>2
  <2>2. f[y] = i => k <= g[y]
    BY <1>4
  <2> QED
    BY <1>5, <2>1, <2>2
<1> QED
  BY <1>6

(* Of some nodes there is one none of whose parts is another of them, and  *)
(* one that is no part of another.                                         *)
LEMMA LastOf ==
    ASSUME NEW ns, NEW up, NEW home, Ups(ns, up, home), Len(ns) \in Nat,
           NEW B \in SUBSET (1 .. Len(ns)), B # {}
    PROVE  /\ \E x \in B : \A k \in 1 .. Len(ns) : PartOf(ns, up, k, x) => k \notin B
           /\ \E x \in B : \A p \in 1 .. Len(ns) : PartOf(ns, up, x, p) => p \notin B
<1> DEFINE N == Len(ns)
           f == [x \in B |-> N - up[x]]
           i == [x \in B |-> x]
           j == [x \in B |-> N - x]
<1>1. \A x \in 1 .. N : up[x] \in Nat /\ up[x] < x
  BY ElementOfSeq DEF Ups
<1>2. \A x \in B : f[x] \in Nat /\ i[x] \in Nat /\ j[x] \in Nat /\ up[x] \in Nat
  BY <1>1
<1>3. \A x \in B : f[x] = N - up[x] /\ i[x] = x /\ j[x] = N - x
  OBVIOUS
<1> HIDE DEF f, i, j
<1>4. \E x \in B : \A k \in 1 .. Len(ns) : PartOf(ns, up, k, x) => k \notin B
  <2>1. PICK x \in B : \A y \in B : f[x] < f[y] \/ (f[x] = f[y] /\ i[x] <= i[y])
    BY <1>2, LeastOf
  <2>2. ASSUME NEW k \in B, PartOf(ns, up, k, x)
        PROVE  FALSE
    <3>1. f[x] < f[k] \/ (f[x] = f[k] /\ i[x] <= i[k])
      BY <2>1
    <3>2. /\ up[x] > up[k] \/ (up[x] = up[k] /\ x <= k)
          /\ up[x] \in Nat /\ up[k] \in Nat /\ x \in Nat /\ k \in Nat /\ up[x] < x
      BY <1>1, <1>2, <1>3, <3>1
    <3> QED
      BY <2>2, <3>2 DEF PartOf
  <2> QED
    BY <2>2
<1>5. \E x \in B : \A p \in 1 .. Len(ns) : PartOf(ns, up, x, p) => p \notin B
  <2>1. PICK x \in B : \A y \in B : up[x] < up[y] \/ (up[x] = up[y] /\ j[x] <= j[y])
    BY <1>2, LeastOf
  <2>2. ASSUME NEW p \in B, PartOf(ns, up, x, p)
        PROVE  FALSE
    <3>1. up[x] < up[p] \/ (up[x] = up[p] /\ j[x] <= j[p])
      BY <2>1
    <3>2. /\ up[x] < up[p] \/ (up[x] = up[p] /\ x >= p)
          /\ up[x] \in Nat /\ up[p] \in Nat /\ x \in Nat /\ p \in Nat /\ up[p] < p
      BY <1>1, <1>2, <1>3, <3>1
    <3> QED
      BY <2>2, <3>2 DEF PartOf
  <2> QED
    BY <2>2
<1> QED
  BY <1>4, <1>5

(* The block of a part.                                                    *)
LEMMA HomeOfPart ==
    ASSUME NEW ns, NEW up, NEW home, Ups(ns, up, home), Len(ns) \in Nat,
           NEW k \in 1 .. Len(ns), NEW p \in 1 .. Len(ns), PartOf(ns, up, k, p)
    PROVE  home[k] = HomeOf(ns, home, p)
<1>1. home[k] = HomeOf(ns, home, up[k]) /\ home[p] = HomeOf(ns, home, up[p])
  BY DEF Ups
<1>2. CASE up[k] = p
  BY <1>1, <1>2
<1>3. CASE up[k] = up[p] /\ ns[p].kind # "brace"
  <2>1. p # 0
    OBVIOUS
  <2> QED
    BY <1>1, <1>3, <2>1 DEF HomeOf
<1> QED
  BY <1>2, <1>3 DEF PartOf

(* A declaration below a block is in the tree of the block.                *)
LEMMA BelowIsUnder ==
    ASSUME NEW ns, NEW up, NEW home, Nested(ns, up, home), Len(ns) \in Nat,
           ns \in Seq(NodeType(Len(ns))),
           \A x \in 1 .. Len(ns) : IsKid(ns, x) \/ up[x] = 0,
           NEW b \in 1 .. Len(ns), ns[b].kind = "brace"
    PROVE  /\ DeclsUnder(ns)[b] \subseteq Below(ns, home, b)
           /\ Below(ns, home, b) \subseteq DeclsUnder(ns)[b]
<1> DEFINE u == DeclsUnder(ns)
           N == Len(ns)
<1>1. \A p \in 1 .. N : \A x \in ToSet(ns[p].kids) : x \in 1 .. N /\ PartOf(ns, up, x, p)
  BY KidsAre DEF Nested, Parted
<1>2. \A p \in 1 .. N : \A d :
        d \in u[p] <=> \E kid \in ToSet(ns[p].kids) : d \in Own(ns, u, kid)
  <2>1. DOMAIN ns = 1 .. N
    BY LenProperties
  <2> QED
    BY <1>1, <2>1, DeclsUnderIs
<1> HIDE DEF u
<1>3. Ups(ns, up, home) /\ \A x \in 1 .. N : up[x] \in Nat /\ home[x] \in Nat
  BY ElementOfSeq DEF Nested, Ups
<1>4. ASSUME NEW p \in 1 .. N
      PROVE  \A d \in u[p] : /\ d \in 1 .. N /\ ns[d].kind \in DeclKinds
                             /\ home[d] = HomeOf(ns, home, p)
  <2> DEFINE Good(q, d) == /\ d \in 1 .. N /\ ns[d].kind \in DeclKinds
                           /\ home[d] = HomeOf(ns, home, q)
             B == {q \in 1 .. N : \E d \in u[q] : ~Good(q, d)}
  <2> HIDE DEF Good
  <2>1. ASSUME NEW q \in B, \A k \in 1 .. N : PartOf(ns, up, k, q) => k \notin B
        PROVE  FALSE
    <3>1. PICK d \in u[q] : ~Good(q, d)
      OBVIOUS
    <3>2. PICK kid \in ToSet(ns[q].kids) : d \in Own(ns, u, kid)
      BY <1>2
    <3>3. kid \in 1 .. N /\ PartOf(ns, up, kid, q)
      BY <1>1
    <3>4. home[kid] = HomeOf(ns, home, q)
      BY <1>3, <3>3, HomeOfPart
    <3>5. ns[kid].kind # "brace" /\ HomeOf(ns, home, kid) = home[kid]
      BY <3>2, <3>3, OwnIs DEF HomeOf
    <3>6. CASE d = kid /\ ns[kid].kind \in DeclKinds
      BY <3>1, <3>3, <3>4, <3>6 DEF Good
    <3>7. CASE d \in u[kid]
      <4>1. kid \notin B
        BY <2>1, <3>3
      <4>2. Good(kid, d)
        BY <3>3, <3>7, <4>1
      <4> QED
        BY <3>1, <3>4, <3>5, <4>2 DEF Good
    <3> QED
      BY <3>2, <3>6, <3>7, OwnIs
  <2>2. B = {}
    <3>1. B \in SUBSET (1 .. N)
      OBVIOUS
    <3> HIDE DEF B
    <3> QED
      <4>1. B # {} => \E x \in B : \A k \in 1 .. N : PartOf(ns, up, k, x) => k \notin B
        BY <1>3, <3>1, LastOf
      <4> QED
        BY <2>1, <4>1
  <2> QED
    BY <2>2 DEF Good
<1>5. ASSUME NEW d \in 1 .. N, ns[d].kind \in DeclKinds, home[d] = b
      PROVE  d \in u[b]
  <2> DEFINE B == {x \in 1 .. N : ns[x].kind # "brace" /\ home[x] = b
                                  /\ d \in Own(ns, u, x) /\ d \notin u[b]}
  <2>1. ASSUME NEW x \in B, \A p \in 1 .. N : PartOf(ns, up, x, p) => p \notin B
        PROVE  FALSE
    <3>1. up[x] # 0
      BY <1>3 DEF Ups, HomeOf
    <3>2. PICK p \in 1 .. N : x \in ToSet(ns[p].kids)
      BY <3>1 DEF IsKid
    <3>3. PartOf(ns, up, x, p)
      BY <1>1, <3>2
    <3>4. home[x] = HomeOf(ns, home, p)
      BY <1>3, <3>3, HomeOfPart
    <3>5. d \in u[p]
      BY <1>2, <3>2
    <3>6. CASE ns[p].kind = "brace"
      BY <3>4, <3>5, <3>6 DEF HomeOf
    <3>7. CASE ns[p].kind # "brace"
      <4>1. home[p] = b
        BY <3>4, <3>7 DEF HomeOf
      <4>2. d \in Own(ns, u, p)
        BY <3>5, <3>7, OwnIs
      <4>3. p \in B
        BY <3>7, <4>1, <4>2
      <4> QED
        BY <2>1, <3>3, <4>3
    <3> QED
      BY <3>6, <3>7
  <2>2. B = {}
    <3>1. B \in SUBSET (1 .. N)
      OBVIOUS
    <3> HIDE DEF B
    <3> QED
      BY <1>3, <2>1, <3>1, LastOf
  <2>3. ns[d].kind # "brace" /\ d \in Own(ns, u, d)
    BY <1>5, OwnIs DEF DeclKinds
  <2> QED
    BY <1>5, <2>2, <2>3
<1>6. HomeOf(ns, home, b) = b
  BY DEF HomeOf
<1> QED
  BY <1>4, <1>5, <1>6 DEF Below, u

(* What blocks know when the parser is done.                               *)
LEMMA DeclsHold ==
    ASSUME Typed, Treed, Ended
    PROVE  BlocksKnowDecls
<1> SUFFICES ASSUME outcome = "done", NEW id \in DOMAIN nodes, nodes[id].kind = "brace"
             PROVE  /\ ToSet(nodes[id].decls) = DeclsUnder(nodes)[id]
                    /\ Falls(nodes[id].decls)
  BY DEF BlocksKnowDecls, Falls
<1>1. PICK up, home, h : TreeOf(up, home, h)
  BY DEF Treed
<1>2. /\ nodes \in Seq(NodeType(Len(nodes))) /\ Len(nodes) \in Nat /\ id \in 1 .. Len(nodes)
      /\ Nested(nodes, up, home)
  BY <1>1, LenProperties DEF Typed, TreeOf
<1>3. calls = <<>> /\ Len(calls) = 0
  BY DEF Ended
<1>4. \A x \in 1 .. Len(nodes) : IsKid(nodes, x) \/ up[x] = 0
  BY <1>1, <1>3 DEF TreeOf, Covered
<1>5. DeclsUnder(nodes)[id] = Below(nodes, home, id)
  <2> DEFINE ns == nodes
             b == id
  <2>1. /\ ns \in Seq(NodeType(Len(ns))) /\ Len(ns) \in Nat /\ b \in 1 .. Len(ns)
        /\ Nested(ns, up, home) /\ ns[b].kind = "brace"
        /\ \A x \in 1 .. Len(ns) : IsKid(ns, x) \/ up[x] = 0
    BY <1>2, <1>4
  <2> HIDE DEF ns, b
  <2>2. /\ DeclsUnder(ns)[b] \subseteq Below(ns, home, b)
        /\ Below(ns, home, b) \subseteq DeclsUnder(ns)[b]
    BY <2>1, BelowIsUnder
  <2> QED
    BY <2>2 DEF ns, b
<1> QED
  BY <1>2, <1>5 DEF Nested, BlockOK

(* Each block of every source knows exactly the declarations for which it  *)
(* is the innermost block, the last one first: what capture_set relies on. *)
THEOREM DeclsAreKnown == Spec => []BlocksKnowDecls
<1>1. IInv /\ Treed /\ Ended => BlocksKnowDecls
  BY DeclsHold DEF IInv
<1> QED
  BY <1>1, TreesNest, PTL

=============================================================================
