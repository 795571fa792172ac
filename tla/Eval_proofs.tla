----------------------------- MODULE Eval_proofs -----------------------------
(***************************************************************************)
(* Proofs about Eval, for every set of programs, every capture_set and     *)
(* every size of the value stack.                                          *)
(***************************************************************************)
EXTENDS Eval, SequenceTheorems, WellFoundedInduction, TLAPS

---------------------------------------------------------------------------
(* Least and greatest indices.                                             *)

(* A nonempty set of naturals has a least element.                         *)
LEMMA LeastIndex ==
    ASSUME NEW S \in SUBSET Nat, S # {}
    PROVE  \E i \in S : \A j \in S : i <= j
<1> DEFINE Less == {pair \in Nat \X Nat : pair[1] < pair[2]}
<1>1. IsWellFoundedOn(Less, Nat)
  BY NatLessThanWellFounded, Zenon DEF OpToRel
<1>2. \A i, j \in Nat : j < i => <<j, i>> \in Less
  OBVIOUS
<1> HIDE DEF Less
<1>3. PICK i \in S : \A j \in S : ~ (<<j, i>> \in Less)
  BY <1>1, WFMin, Zenon
<1>4. \A j \in S : ~ (j < i)
  BY <1>2, <1>3, Zenon
<1>5. \A j \in S : i <= j
  BY <1>4
<1> QED
  BY <1>5

(* A nonempty set of naturals below a bound has a greatest element.        *)
LEMMA GreatestIndex ==
    ASSUME NEW n \in Nat, NEW S \in SUBSET (0 .. n), S # {}
    PROVE  \E i \in S : \A j \in S : j <= i
<1> DEFINE Co == {n - i : i \in S}
<1>1. Co \in SUBSET Nat /\ Co # {}
  OBVIOUS
<1>2. PICK k \in Co : \A l \in Co : k <= l
  <2> HIDE DEF Co
  <2> QED
    BY <1>1, LeastIndex
<1>3. PICK i \in S : k = n - i
  OBVIOUS
<1>4. \A j \in S : n - j \in Co
  OBVIOUS
<1>5. \A j \in S : j <= i
  BY <1>2, <1>3, <1>4
<1> QED
  BY <1>5

---------------------------------------------------------------------------
(* What is left to do.  The frame counts of the items do not increase      *)
(* towards the bottom, and those below an item that pops one frame are     *)
(* smaller still.                                                          *)
Pops(item) == item.op = "lazy" \/ (item.op = "post" /\ item.node.kind = "brace")

Ordered(t, n) ==
    /\ \A i \in 1 .. Len(t) : t[i].d <= n
    /\ \A i, j \in 1 .. Len(t) : i < j => t[j].d <= t[i].d
    /\ \A i, j \in 1 .. Len(t) : i < j /\ Pops(t[i]) => t[j].d < t[i].d

(* A conditional and a loop wait for their own parts.  The variable of an  *)
(* unfinished assignment is in the frame noted, and the item counts on     *)
(* that frame.                                                             *)
AliveItem(item, ls, gs) ==
    /\ item.op = "condition" => item.node.kind = "if"
    /\ item.op \in {"loop_condition", "loop_body"} => item.node.kind = "while"
    /\ item.op = "assigned" =>
         IF item.at = 0 THEN item.node.lhs.name \in DOMAIN gs
         ELSE item.at <= item.d /\ item.node.lhs.name \in DOMAIN ls[item.at]

Alive(t, ls, gs) == \A i \in 1 .. Len(t) : AliveItem(t[i], ls, gs)

Suffix(s, t) == \E k \in 1 .. Len(t) + 1 : s = SubSeq(t, k, Len(t))

(* The fields of the items of a list.                                      *)
LEMMA ItemFields ==
    ASSUME NEW t \in Seq(TodoItem), NEW i \in 1 .. Len(t)
    PROVE  t[i].op \in Ops /\ t[i].node \in Node /\ t[i].d \in Nat /\ t[i].at \in Nat
<1>1. t[i] \in TodoItem
  BY ElementOfSeq
<1> QED
  BY <1>1 DEF TodoItem

(* What a suffix of a sequence holds.                                      *)
LEMMA SuffixItems ==
    ASSUME NEW T, NEW t \in Seq(T), NEW k \in 1 .. Len(t) + 1
    PROVE  /\ SubSeq(t, k, Len(t)) \in Seq(T)
           /\ Len(SubSeq(t, k, Len(t))) = Len(t) - k + 1
           /\ \A i \in 1 .. Len(t) - k + 1 : SubSeq(t, k, Len(t))[i] = t[k + i - 1]
<1>1. Len(t) \in Nat /\ \A i \in k .. Len(t) : t[i] \in T
  BY LenProperties, ElementOfSeq
<1> QED
  BY <1>1, SubSeqProperties

(* A sequence is a suffix of itself.                                       *)
LEMMA SelfSuffix ==
    ASSUME NEW T, NEW t \in Seq(T)
    PROVE  Suffix(t, t)
<1>1. SubSeq(t, 1, Len(t)) = t /\ Len(t) \in Nat
  BY SubSeqFull, LenProperties
<1> QED
  BY <1>1 DEF Suffix

(* A walk that is cut short leaves a part of what was to do.               *)
LEMMA UnwindSuffix ==
    ASSUME NEW T, NEW t \in Seq(T)
    PROVE  Suffix(Unwind(t), t)
<1>1. Len(t) \in Nat
  BY LenProperties
<1>2. CASE Stops(t) = {}
  <2>1. SubSeq(t, Len(t) + 1, Len(t)) = <<>>
    BY <1>1, SubSeqEmpty
  <2> QED
    BY <1>1, <1>2, <2>1, Len(t) + 1 \in 1 .. Len(t) + 1 DEF Unwind, Suffix
<1>3. CASE Stops(t) # {}
  <2>1. Stops(t) \in SUBSET (1 .. Len(t)) /\ Stops(t) \in SUBSET Nat
    BY <1>1 DEF Stops
  <2>2. \E i \in Stops(t) : \A j \in Stops(t) : i <= j
    BY <1>3, <2>1, LeastIndex
  <2> DEFINE first == CHOOSE i \in Stops(t) : \A j \in Stops(t) : i <= j
  <2>3. first \in 1 .. Len(t)
    BY <2>1, <2>2
  <2>4. Unwind(t) = SubSeq(t, first, Len(t))
    BY <1>3 DEF Unwind
  <2> HIDE DEF first
  <2> QED
    BY <1>1, <2>3, <2>4 DEF Suffix
<1> QED
  BY <1>2, <1>3

(* What lies below the first item.                                         *)
LEMMA Below ==
    ASSUME NEW t \in Seq(TodoItem), t # <<>>, NEW n \in Int, Ordered(t, n),
           NEW s, Suffix(s, Tail(t)), NEW ls, NEW gs, Alive(t, ls, gs)
    PROVE  /\ s \in Seq(TodoItem)
           /\ Ordered(s, Head(t).d)
           /\ Pops(Head(t)) => Ordered(s, Head(t).d - 1)
           /\ Alive(s, ls, gs)
<1>1. /\ Tail(t) \in Seq(TodoItem) /\ Len(Tail(t)) = Len(t) - 1 /\ Head(t) = t[1]
      /\ \A i \in 1 .. Len(t) - 1 : Tail(t)[i] = t[i + 1]
      /\ Len(t) \in Nat /\ Len(t) >= 1
  BY HeadTailProperties, LenProperties, EmptySeq
<1>2. PICK k \in 1 .. Len(Tail(t)) + 1 : s = SubSeq(Tail(t), k, Len(Tail(t)))
  BY DEF Suffix
<1>3. /\ s \in Seq(TodoItem)
      /\ Len(s) = Len(t) - k
      /\ \A i \in 1 .. Len(s) : s[i] = Tail(t)[k + i - 1]
  <2> DEFINE r == Tail(t)
  <2>1. r \in Seq(TodoItem) /\ Len(r) = Len(t) - 1 /\ Len(t) \in Nat
        /\ k \in 1 .. Len(r) + 1 /\ s = SubSeq(r, k, Len(r))
    BY <1>1, <1>2
  <2> HIDE DEF r
  <2>2. /\ s \in Seq(TodoItem)
        /\ Len(s) = Len(r) - k + 1
        /\ \A i \in 1 .. Len(r) - k + 1 : s[i] = r[k + i - 1]
    BY <2>1, SuffixItems
  <2>3. Len(s) = Len(t) - k
    BY <2>1, <2>2
  <2>4. \A i \in 1 .. Len(s) : s[i] = r[k + i - 1]
    BY <2>1, <2>2
  <2> QED
    BY <2>2, <2>3, <2>4 DEF r
<1>4. \A i \in 1 .. Len(s) : k + i \in 2 .. Len(t) /\ s[i] = t[k + i]
  <2> SUFFICES ASSUME NEW i \in 1 .. Len(s)
               PROVE  k + i \in 2 .. Len(t) /\ s[i] = t[k + i]
    OBVIOUS
  <2>1. k \in 1 .. Len(t) /\ k + i - 1 \in 1 .. Len(t) - 1
    <3>1. Len(Tail(t)) = Len(t) - 1 /\ Len(s) = Len(t) - k /\ Len(t) \in Nat
      BY <1>1, <1>3
    <3>2. k \in 1 .. Len(t) /\ i \in 1 .. Len(t) - k
      BY <3>1
    <3> QED
      BY <3>1, <3>2
  <2>2. s[i] = Tail(t)[k + i - 1] /\ Tail(t)[k + i - 1] = t[k + i - 1 + 1]
    BY <1>1, <1>3, <2>1
  <2>3. k + i - 1 + 1 = k + i
    BY <2>1
  <2> QED
    BY <2>1, <2>2, <2>3
<1>5. \A i \in 1 .. Len(t) : t[i].d \in Nat
  BY ItemFields
<1>6. /\ \A i \in 1 .. Len(s) : s[i].d <= t[1].d /\ s[i].d \in Nat
      /\ Pops(t[1]) => \A i \in 1 .. Len(s) : s[i].d <= t[1].d - 1
  <2> SUFFICES ASSUME NEW i \in 1 .. Len(s)
               PROVE  /\ s[i].d <= t[1].d /\ s[i].d \in Nat
                      /\ Pops(t[1]) => s[i].d <= t[1].d - 1
    OBVIOUS
  <2>1. k + i \in 1 .. Len(t) /\ 1 < k + i /\ 1 \in 1 .. Len(t)
    BY <1>1, <1>4
  <2>2. t[k + i].d <= t[1].d /\ (Pops(t[1]) => t[k + i].d < t[1].d)
    BY <2>1 DEF Ordered
  <2> QED
    BY <1>4, <1>5, <2>1, <2>2
<1>7. \A i, j \in 1 .. Len(s) : i < j => /\ s[j].d <= s[i].d
                                         /\ Pops(s[i]) => s[j].d < s[i].d
  <2> SUFFICES ASSUME NEW i \in 1 .. Len(s), NEW j \in 1 .. Len(s), i < j
               PROVE  s[j].d <= s[i].d /\ (Pops(s[i]) => s[j].d < s[i].d)
    OBVIOUS
  <2>1. k + i \in 1 .. Len(t) /\ k + j \in 1 .. Len(t) /\ k + i < k + j
    BY <1>4
  <2>2. t[k + j].d <= t[k + i].d /\ (Pops(t[k + i]) => t[k + j].d < t[k + i].d)
    BY <2>1 DEF Ordered
  <2> QED
    BY <1>4, <2>2
<1>8. Alive(s, ls, gs)
  <2>1. \A i \in 1 .. Len(s) : k + i \in 1 .. Len(t)
    BY <1>4
  <2> QED
    BY <1>4, <2>1 DEF Alive
<1> QED
  BY <1>1, <1>3, <1>6, <1>7, <1>8 DEF Ordered

(* What is at most m is at most, or less than, what m is.                  *)
LEMMA AtMostTrans ==
    ASSUME NEW x \in Nat, NEW m \in Int, NEW y \in Nat, x <= m
    PROVE  /\ m <= y => x <= y
           /\ m < y => x < y
  OBVIOUS

(* An ordered sequence put in front of one that lies below it is ordered,  *)
(* and so are the frames it needs.                                         *)
LEMMA OrderedConcat ==
    ASSUME NEW m \in Int, NEW n \in Int, m <= n,
           NEW t \in Seq(TodoItem), Ordered(t, n),
           NEW s \in Seq(TodoItem), Ordered(s, m),
           \A i \in 1 .. Len(t) : m <= t[i].d /\ (Pops(t[i]) => m < t[i].d),
           NEW ls, NEW gs, Alive(t, ls, gs), Alive(s, ls, gs)
    PROVE  /\ t \o s \in Seq(TodoItem)
           /\ Ordered(t \o s, n)
           /\ Alive(t \o s, ls, gs)
<1> DEFINE u == t \o s
           a == Len(t)
           b == Len(s)
<1>1. /\ u \in Seq(TodoItem) /\ Len(u) = a + b /\ a \in Nat /\ b \in Nat
      /\ \A i \in 1 .. a + b : u[i] = IF i <= a THEN t[i] ELSE s[i - a]
  BY ConcatProperties, LenProperties
<1>2. /\ \A i \in 1 .. a : t[i].d \in Nat
      /\ \A i \in 1 .. b : s[i].d \in Nat
  BY ItemFields
<1> HIDE DEF u
<1>3. \A i \in 1 .. a + b : \/ i \in 1 .. a /\ u[i] = t[i]
                            \/ i > a /\ i - a \in 1 .. b /\ u[i] = s[i - a]
  BY <1>1
<1>4. \A i \in 1 .. a + b : u[i].d <= n
  <2>1. \A i \in 1 .. b : s[i].d <= n
    BY <1>2 DEF Ordered
  <2> QED
    BY <1>3, <2>1 DEF Ordered
<1>5. \A i, j \in 1 .. a + b : i < j => /\ u[j].d <= u[i].d
                                        /\ Pops(u[i]) => u[j].d < u[i].d
  <2> SUFFICES ASSUME NEW i \in 1 .. a + b, NEW j \in 1 .. a + b, i < j
               PROVE  u[j].d <= u[i].d /\ (Pops(u[i]) => u[j].d < u[i].d)
    OBVIOUS
  <2>1. CASE j <= a
    BY <1>1, <1>3, <2>1 DEF Ordered
  <2>2. CASE i <= a /\ a < j
    <3>1. s[j - a].d <= m /\ s[j - a].d \in Nat /\ u[j] = s[j - a]
      BY <1>1, <1>2, <1>3, <2>2 DEF Ordered
    <3>2. m <= t[i].d /\ (Pops(t[i]) => m < t[i].d) /\ t[i].d \in Nat /\ u[i] = t[i]
      BY <1>1, <1>2, <1>3, <2>2
    <3>3. s[j - a].d <= t[i].d
      BY <3>1, <3>2, AtMostTrans
    <3>4. Pops(t[i]) => s[j - a].d < t[i].d
      BY <3>1, <3>2, AtMostTrans
    <3> QED
      BY <3>1, <3>2, <3>3, <3>4
  <2>3. CASE a < i
    <3>1. i - a \in 1 .. b /\ j - a \in 1 .. b /\ i - a < j - a
          /\ u[i] = s[i - a] /\ u[j] = s[j - a]
      BY <1>1, <1>3, <2>3
    <3> QED
      BY <3>1 DEF Ordered
  <2> QED
    BY <1>1, <2>1, <2>2, <2>3
<1>6. Alive(u, ls, gs)
  BY <1>1, <1>3 DEF Alive
<1> QED
  BY <1>1, <1>4, <1>5, <1>6 DEF Ordered, u

(* The frames above the first m and the names of a table may come and go   *)
(* when the items count on m frames at most.                               *)
LEMMA StillAlive ==
    ASSUME NEW m \in Int, NEW t \in Seq(TodoItem), Ordered(t, m),
           NEW ls, NEW gs, NEW ls2, NEW gs2, Alive(t, ls, gs),
           \A i \in 1 .. m : DOMAIN ls[i] \subseteq DOMAIN ls2[i],
           DOMAIN gs \subseteq DOMAIN gs2
    PROVE  Alive(t, ls2, gs2)
<1> SUFFICES ASSUME NEW i \in 1 .. Len(t) PROVE AliveItem(t[i], ls2, gs2)
  BY DEF Alive
<1>1. AliveItem(t[i], ls, gs) /\ t[i].d <= m /\ t[i].d \in Nat /\ t[i].at \in Nat
  BY ItemFields DEF Alive, Ordered
<1>2. CASE t[i].at = 0
  BY <1>1, <1>2 DEF AliveItem
<1>3. CASE t[i].at # 0 /\ t[i].op = "assigned"
  <2>1. t[i].at \in 1 .. m
    BY <1>1, <1>3 DEF AliveItem
  <2> QED
    BY <1>1, <1>3, <2>1 DEF AliveItem
<1>4. CASE t[i].op # "assigned"
  BY <1>1, <1>4 DEF AliveItem
<1> QED
  BY <1>2, <1>3, <1>4

(* A step of the walk: the first item gives way to new ones, and some of   *)
(* those below it may be cut off.                                          *)
LEMMA WalkStep ==
    ASSUME NEW t \in Seq(TodoItem), t # <<>>, NEW d \in Int, Ordered(t, d),
           NEW ls, NEW gs, Alive(t, ls, gs),
           NEW new \in Seq(TodoItem), NEW s, Suffix(s, Tail(t)),
           NEW m \in Int, NEW n \in Int, m <= n,
           m = Head(t).d \/ (Pops(Head(t)) /\ m = Head(t).d - 1),
           Ordered(new, n),
           \A i \in 1 .. Len(new) : m <= new[i].d /\ (Pops(new[i]) => m < new[i].d),
           NEW ls2, NEW gs2, Alive(new, ls2, gs2),
           \A i \in 1 .. m : DOMAIN ls[i] \subseteq DOMAIN ls2[i],
           DOMAIN gs \subseteq DOMAIN gs2
    PROVE  /\ new \o s \in Seq(TodoItem)
           /\ Ordered(new \o s, n)
           /\ Alive(new \o s, ls2, gs2)
<1>1. s \in Seq(TodoItem) /\ Ordered(s, m) /\ Alive(s, ls, gs)
  BY Below
<1>2. Alive(s, ls2, gs2)
  BY <1>1, StillAlive
<1> QED
  BY <1>1, <1>2, OrderedConcat

(* New items that count on the same number of frames, none of which pops   *)
(* one before the last of them.                                            *)
LEMMA LevelOrdered ==
    ASSUME NEW n \in Int, NEW new \in Seq(TodoItem),
           \A i \in 1 .. Len(new) : new[i].d = n,
           \A i \in 1 .. Len(new) - 1 : ~Pops(new[i])
    PROVE  Ordered(new, n)
<1>1. Len(new) \in Nat
  BY LenProperties
<1> QED
  BY <1>1 DEF Ordered

---------------------------------------------------------------------------
(* Values.  A value is good when what the evaluator takes out of it, at    *)
(* any depth of captured variables, are nodes of the trees: it belongs to  *)
(* a set of values closed under looking up captured variables.             *)
Closed(V) == \A v \in V :
                /\ v.kind = "lazy" => v.expr \in Node /\ IsExpr(v.expr)
                /\ v.kind = "function" => /\ v.decl \in Node /\ v.decl.kind = "fun"
                                          /\ \A x \in DOMAIN v.env : v.env[x] \in V

Good(v) == \E V : v \in V /\ Closed(V)

GoodNames(names) == \A x \in DOMAIN names : Good(names[x])

(* A lazy global holds an expression of the tree, a closure a declaration  *)
(* of the tree and good captured values.                                   *)
LEMMA GoodParts ==
    ASSUME NEW v, Good(v)
    PROVE  /\ v.kind = "lazy" => v.expr \in Node /\ IsExpr(v.expr)
           /\ v.kind = "function" => /\ v.decl \in Node /\ v.decl.kind = "fun"
                                     /\ GoodNames(v.env)
BY DEF Good, GoodNames, Closed

(* A value that is neither a lazy global nor a closure is good.            *)
LEMMA GoodPlain ==
    ASSUME NEW v, v.kind # "lazy", v.kind # "function"
    PROVE  Good(v)
<1>1. v \in {v} /\ Closed({v})
  BY DEF Closed
<1> QED
  BY <1>1 DEF Good

(* The value of a global variable not yet read is good.                    *)
LEMMA GoodLazy ==
    ASSUME NEW n \in Node, IsExpr(n)
    PROVE  Good(Lazy(n))
<1>1. Lazy(n) \in {Lazy(n)} /\ Closed({Lazy(n)})
  BY DEF Closed, Lazy
<1> QED
  BY <1>1 DEF Good

(* A closure over good values is good.                                     *)
LEMMA GoodFun ==
    ASSUME NEW n \in Node, n.kind = "fun", NEW env, GoodNames(env)
    PROVE  Good(Fun(n, env))
<1> DEFINE Of(v) == CHOOSE V : v \in V /\ Closed(V)
           V == UNION {Of(env[x]) : x \in DOMAIN env}
           W == V \cup {Fun(n, env)}
<1>1. \A x \in DOMAIN env : env[x] \in Of(env[x]) /\ Closed(Of(env[x]))
  BY DEF GoodNames, Good
<1> HIDE DEF Of
<1>2. \A x \in DOMAIN env : env[x] \in V
  BY <1>1
<1>3. Closed(V)
  <2> SUFFICES ASSUME NEW v \in V
               PROVE  /\ v.kind = "lazy" => v.expr \in Node /\ IsExpr(v.expr)
                      /\ v.kind = "function" => /\ v.decl \in Node /\ v.decl.kind = "fun"
                                                /\ \A x \in DOMAIN v.env : v.env[x] \in V
    BY DEF Closed
  <2>1. PICK x \in DOMAIN env : v \in Of(env[x])
    OBVIOUS
  <2>2. /\ v.kind = "lazy" => v.expr \in Node /\ IsExpr(v.expr)
        /\ v.kind = "function" => /\ v.decl \in Node /\ v.decl.kind = "fun"
                                  /\ \A y \in DOMAIN v.env : v.env[y] \in Of(env[x])
    BY <1>1, <2>1 DEF Closed
  <2>3. \A u \in Of(env[x]) : u \in V
    OBVIOUS
  <2> QED
    BY <2>2, <2>3
<1> HIDE DEF V
<1>4. /\ Fun(n, env).kind = "function" /\ Fun(n, env).decl = n /\ Fun(n, env).env = env
  BY DEF Fun
<1>5. Closed(W)
  BY <1>2, <1>3, <1>4 DEF Closed
<1> QED
  BY <1>5 DEF Good

(* The values every stack and table starts from are good.                  *)
LEMMA GoodConstants == Good(Junk) /\ Good(PrintFun) /\ Good(Freed) /\ GoodNames(NoNames)
<1>1. Good(Junk) /\ Good(PrintFun) /\ Good(Freed)
  BY GoodPlain DEF Junk, PrintFun, Freed
<1> QED
  BY <1>1 DEF GoodNames, NoNames

(* insert_symbol keeps a table good and adds one name to it.               *)
LEMMA GoodAdd ==
    ASSUME NEW names, GoodNames(names), NEW x, NEW v, Good(v)
    PROVE  /\ GoodNames(AddName(names, x, v))
           /\ DOMAIN AddName(names, x, v) = DOMAIN names \cup {x}
BY DEF GoodNames, AddName

(* The table of a call, captured values first, is good.                    *)
LEMMA GoodOver ==
    ASSUME NEW first, GoodNames(first), NEW names, GoodNames(names)
    PROVE  GoodNames(Over(first, names))
BY DEF GoodNames, Over

---------------------------------------------------------------------------
(* Tables and frames.                                                      *)

(* A sequence of anything is a sequence over the set of its elements.      *)
LEMMA SequenceIsSeq ==
    ASSUME NEW s, IsSequence(s)
    PROVE  \E T : s \in Seq(T)
<1> DEFINE T == {s[i] : i \in 1 .. Len(s)}
<1>1. Len(s) \in Nat /\ s = [i \in 1 .. Len(s) |-> s[i]]
  BY DEF IsSequence
<1>2. \A i \in 1 .. Len(s) : s[i] \in T
  OBVIOUS
<1> HIDE DEF T
<1>3. s \in [1 .. Len(s) -> T]
  BY <1>1, <1>2
<1>4. s \in Seq(T)
  BY <1>1, <1>3, SeqDef
<1> QED
  BY <1>4

(* A sequence over a set is a sequence.                                    *)
LEMMA SeqIsSequence ==
    ASSUME NEW T, NEW s \in Seq(T)
    PROVE  IsSequence(s)
BY LenProperties DEF IsSequence

(* A sequence with an element more.                                        *)
LEMMA Appended ==
    ASSUME NEW s, IsSequence(s), NEW e
    PROVE  /\ IsSequence(Append(s, e))
           /\ Len(Append(s, e)) = Len(s) + 1
           /\ \A i \in 1 .. Len(s) : Append(s, e)[i] = s[i]
           /\ Append(s, e)[Len(s) + 1] = e
<1>1. PICK T : s \in Seq(T)
  BY SequenceIsSeq
<1>2. PICK U : s \in Seq(U) /\ e \in U
  <2>1. s \in Seq(T \cup {e}) /\ e \in T \cup {e}
    BY <1>1, SeqMonotonic
  <2> QED
    BY <2>1
<1>3. /\ Append(s, e) \in Seq(U)
      /\ Len(Append(s, e)) = Len(s) + 1
      /\ \A i \in 1 .. Len(s) : Append(s, e)[i] = s[i]
      /\ Append(s, e)[Len(s) + 1] = e
  BY <1>2, AppendProperties
<1> QED
  BY <1>3, SeqIsSequence

(* The first elements of a sequence.                                       *)
LEMMA Shortened ==
    ASSUME NEW s, IsSequence(s), NEW n \in 0 .. Len(s)
    PROVE  /\ IsSequence(SubSeq(s, 1, n))
           /\ Len(SubSeq(s, 1, n)) = n
           /\ \A i \in 1 .. n : SubSeq(s, 1, n)[i] = s[i]
<1>1. PICK T : s \in Seq(T)
  BY SequenceIsSeq
<1>2. Len(s) \in Nat /\ \A i \in 1 .. n : s[i] \in T
  BY <1>1, LenProperties, ElementOfSeq
<1>3. /\ SubSeq(s, 1, n) \in Seq(T)
      /\ Len(SubSeq(s, 1, n)) = n
      /\ \A i \in 1 .. n : SubSeq(s, 1, n)[i] = s[i]
  BY <1>2, SubSeqProperties
<1> QED
  BY <1>3, SeqIsSequence

---------------------------------------------------------------------------
(* The inductive invariant: types, the order of what is left to do, and    *)
(* good values everywhere, because a call takes a function apart and a     *)
(* lazy value puts its expression back on the list.                        *)
StackGood == /\ DOMAIN stack = 0 .. StackSize - 1
             /\ vi \in 0 .. StackSize - 1
             /\ \A i \in 0 .. StackSize - 1 : Good(stack[i])

ScopeGood == /\ frames \in Seq(EvalFrame)
             /\ IsSequence(locals)
             /\ Len(locals) = Len(frames)
             /\ \A i \in 1 .. Len(locals) : GoodNames(locals[i])
             /\ GoodNames(globals)

WalkGood == /\ todo \in Seq(TodoItem)
            /\ outcome = "run" => /\ Ordered(todo, Depth)
                                  /\ Alive(todo, locals, globals)

Flags == /\ status \in {"OK", "BRK", "ERR"}
         /\ outcome \in {"run", "done", "abort", "undefined"}

IInv == StackGood /\ ScopeGood /\ WalkGood /\ Flags

(* The inductive invariant has the invariants the runs check.              *)
LEMMA IInvImplies == IInv => TypeOK /\ FrameFloor /\ LvalueAlive
<1> SUFFICES ASSUME IInv PROVE TypeOK /\ FrameFloor /\ LvalueAlive
  OBVIOUS
<1>1. TypeOK
  BY DEF IInv, StackGood, ScopeGood, WalkGood, Flags, TypeOK
<1>2. FrameFloor
  BY DEF IInv, WalkGood, Ordered, FrameFloor
<1>3. LvalueAlive
  <2> SUFFICES ASSUME outcome = "run", NEW i \in 1 .. Len(todo), todo[i].op = "assigned",
                      todo[i].at # 0
               PROVE  /\ todo[i].at <= Depth
                      /\ todo[i].node.lhs.name \in DOMAIN locals[todo[i].at]
    BY DEF IInv, WalkGood, Alive, AliveItem, LvalueAlive
  <2>1. todo[i].d <= Depth /\ todo[i].d \in Nat /\ todo[i].at \in Nat /\ Depth \in Nat
    BY ItemFields, LenProperties DEF IInv, WalkGood, ScopeGood, Ordered, Depth
  <2>2. todo[i].at <= todo[i].d /\ todo[i].node.lhs.name \in DOMAIN locals[todo[i].at]
    BY DEF IInv, WalkGood, Alive, AliveItem
  <2> QED
    BY <2>1, <2>2
<1> QED
  BY <1>1, <1>2, <1>3

(* The first item.                                                         *)
LEMMA HeadItem ==
    ASSUME IInv, todo # <<>>
    PROVE  /\ Head(todo) \in TodoItem /\ Head(todo).op \in Ops
           /\ Here \in Node /\ Head(todo).d \in Nat /\ Head(todo).at \in Nat
           /\ Rest \in Seq(TodoItem)
           /\ Depth \in Nat /\ Len(locals) = Depth
           /\ outcome = "run" => Head(todo).d <= Depth
           /\ outcome = "run" => AliveItem(Head(todo), locals, globals)
<1>1. todo \in Seq(TodoItem) /\ frames \in Seq(EvalFrame)
  BY DEF IInv, WalkGood, ScopeGood
<1>2. Head(todo) \in TodoItem /\ Rest \in Seq(TodoItem) /\ Len(todo) \in Nat \ {0}
      /\ Head(todo) = todo[1]
  BY <1>1, HeadTailProperties, EmptySeq DEF Rest
<1>3. outcome = "run" => Head(todo).d <= Depth /\ AliveItem(Head(todo), locals, globals)
  BY <1>2 DEF IInv, WalkGood, Ordered, Alive
<1>4. Depth \in Nat /\ Len(locals) = Depth
  BY <1>1, LenProperties DEF IInv, ScopeGood, Depth
<1> QED
  BY <1>2, <1>3, <1>4 DEF TodoItem, Here

(* A visit that leaves no new items, and pops no frame that the items      *)
(* below it count on, keeps the list of visits well formed.                *)
LEMMA WalkShrinks ==
    ASSUME IInv, outcome = "run", todo # <<>>,
           todo' = Rest \/ todo' = Unwind(Rest),
           NEW m \in Int, m = Head(todo).d \/ (Pops(Head(todo)) /\ m = Head(todo).d - 1),
           Depth' \in Nat, m <= Depth',
           \A i \in 1 .. m : DOMAIN locals[i] \subseteq DOMAIN locals'[i],
           DOMAIN globals \subseteq DOMAIN globals'
    PROVE  WalkGood'
<1>1. /\ todo \in Seq(TodoItem) /\ Ordered(todo, Depth) /\ Depth \in Int
      /\ Alive(todo, locals, globals) /\ Rest \in Seq(TodoItem)
  BY HeadItem DEF IInv, WalkGood
<1>2. Suffix(todo', Rest)
  BY <1>1, SelfSuffix, UnwindSuffix
<1>3. /\ todo' \in Seq(TodoItem)
      /\ Ordered(todo', m)
      /\ Alive(todo', locals, globals)
  BY <1>1, <1>2, Below DEF Rest
<1>4. Alive(todo', locals', globals')
  BY <1>3, StillAlive
<1>5. Ordered(todo', Depth')
  <2>1. \A i \in 1 .. Len(todo') : todo'[i].d \in Nat
    BY <1>3, ItemFields
  <2> QED
    BY <1>3, <2>1 DEF Ordered
<1> QED
  BY <1>3, <1>4, <1>5 DEF WalkGood

(* So does a visit that puts new items on the list, when they count on the *)
(* frames that are there then.                                             *)
LEMMA WalkGrows ==
    ASSUME IInv, outcome = "run", todo # <<>>,
           NEW new \in Seq(TodoItem), todo' = new \o Rest,
           Depth' \in Nat, Head(todo).d <= Depth', Ordered(new, Depth'),
           \A i \in 1 .. Len(new) : /\ Head(todo).d <= new[i].d
                                    /\ Pops(new[i]) => Head(todo).d < new[i].d,
           Alive(new, locals', globals'),
           \A i \in 1 .. Head(todo).d : DOMAIN locals[i] \subseteq DOMAIN locals'[i],
           DOMAIN globals \subseteq DOMAIN globals'
    PROVE  WalkGood'
<1>1. /\ todo \in Seq(TodoItem) /\ Ordered(todo, Depth) /\ Depth \in Int
      /\ Alive(todo, locals, globals) /\ Rest \in Seq(TodoItem)
      /\ Head(todo).d \in Int
  BY HeadItem DEF IInv, WalkGood
<1>2. Suffix(Rest, Tail(todo))
  BY <1>1, SelfSuffix DEF Rest
<1> DEFINE m == Head(todo).d
           n == Depth'
           ls == locals'
           gs == globals'
<1>3. /\ m \in Int /\ n \in Int /\ m <= n /\ m = Head(todo).d
      /\ Ordered(new, n) /\ Alive(new, ls, gs)
      /\ \A i \in 1 .. Len(new) : m <= new[i].d /\ (Pops(new[i]) => m < new[i].d)
      /\ \A i \in 1 .. m : DOMAIN locals[i] \subseteq DOMAIN ls[i]
      /\ DOMAIN globals \subseteq DOMAIN gs
  BY <1>1
<1> HIDE DEF m, n, ls, gs
<1>4. /\ new \o Rest \in Seq(TodoItem)
      /\ Ordered(new \o Rest, n)
      /\ Alive(new \o Rest, ls, gs)
  BY <1>1, <1>2, <1>3, WalkStep
<1> QED
  BY <1>4 DEF n, ls, gs, WalkGood

(* The operations on the stack and on the frames.                          *)
LEMMA DropToGood ==
    ASSUME StackGood, NEW i \in 0 .. StackSize - 1, DropTo(i)
    PROVE  StackGood'
<1>1. Good(Junk)
  BY GoodConstants
<1> QED
  BY <1>1 DEF StackGood, DropTo

(* eval_push_frame adds a frame and leaves the ones below it alone.        *)
LEMMA PushFrameGood ==
    ASSUME StackGood, ScopeGood, NEW kind \in {"function", "anonymous"},
           NEW names, GoodNames(names), PushFrame(kind, names), UNCHANGED globals
    PROVE  /\ ScopeGood'
           /\ Depth' = Depth + 1
           /\ \A i \in 1 .. Depth : locals'[i] = locals[i]
<1>1. frames' = Append(frames, Frame(kind)) /\ locals' = Append(locals, names)
  BY DEF PushFrame
<1>2. Frame(kind) \in EvalFrame
  BY DEF Frame, EvalFrame, StackGood
<1>3. frames' \in Seq(EvalFrame) /\ Len(frames') = Len(frames) + 1
  BY <1>1, <1>2, AppendProperties DEF ScopeGood
<1>4. /\ IsSequence(locals') /\ Len(locals') = Len(locals) + 1
      /\ \A i \in 1 .. Len(locals) : locals'[i] = locals[i]
      /\ locals'[Len(locals) + 1] = names
  BY <1>1, Appended DEF ScopeGood
<1>5. Len(locals) \in Nat /\ Len(locals) = Len(frames)
  BY DEF ScopeGood, IsSequence
<1>6. \A i \in 1 .. Len(locals') : GoodNames(locals'[i])
  <2> SUFFICES ASSUME NEW i \in 1 .. Len(locals') PROVE GoodNames(locals'[i])
    OBVIOUS
  <2>1. CASE i = Len(locals) + 1
    BY <1>4, <2>1
  <2>2. CASE i \in 1 .. Len(locals)
    BY <1>4, <2>2 DEF ScopeGood
  <2> QED
    BY <1>4, <1>5, <2>1, <2>2
<1> QED
  BY <1>3, <1>4, <1>5, <1>6 DEF ScopeGood, Depth

(* Popping down to a frame leaves that one and the ones below it alone.    *)
LEMMA PopToGood ==
    ASSUME ScopeGood, NEW d \in 0 .. Depth, PopTo(d), GoodNames(globals')
    PROVE  /\ ScopeGood'
           /\ Depth' = d
           /\ \A i \in 1 .. d : locals'[i] = locals[i]
<1>1. frames' = SubSeq(frames, 1, d) /\ locals' = SubSeq(locals, 1, d)
  BY DEF PopTo
<1>2. /\ frames \in Seq(EvalFrame) /\ IsSequence(locals) /\ Len(locals) = Len(frames)
      /\ Len(frames) \in Nat /\ d \in 0 .. Len(frames)
  BY LenProperties DEF ScopeGood, Depth
<1>3. frames' \in Seq(EvalFrame) /\ Len(frames') = d
  <2>1. \A i \in 1 .. d : frames[i] \in EvalFrame
    BY <1>2, ElementOfSeq
  <2> QED
    BY <1>1, <1>2, <2>1, SubSeqProperties
<1>4. /\ IsSequence(locals') /\ Len(locals') = d
      /\ \A i \in 1 .. d : locals'[i] = locals[i]
  BY <1>1, <1>2, Shortened
<1>5. \A i \in 1 .. Len(locals') : GoodNames(locals'[i])
  BY <1>2, <1>4 DEF ScopeGood
<1> QED
  BY <1>3, <1>4, <1>5 DEF ScopeGood, Depth

(* A frame whose table gains names.                                        *)
LEMMA SetNamesGood ==
    ASSUME ScopeGood, NEW n \in 1 .. Depth, NEW names, GoodNames(names),
           DOMAIN locals[n] \subseteq DOMAIN names,
           locals' = [locals EXCEPT ![n] = names], UNCHANGED <<frames, globals>>
    PROVE  /\ ScopeGood'
           /\ Depth' = Depth
           /\ \A i \in 1 .. Depth : DOMAIN locals[i] \subseteq DOMAIN locals'[i]
<1>1. n \in 1 .. Len(locals) /\ IsSequence(locals) /\ Len(locals) = Depth
  BY DEF ScopeGood, Depth
<1>2. /\ IsSequence(locals') /\ Len(locals') = Len(locals)
      /\ \A i \in 1 .. Len(locals) : locals'[i] = IF i = n THEN names ELSE locals[i]
  <2>1. PICK T : locals \in Seq(T)
    BY <1>1, SequenceIsSeq
  <2>2. PICK U : locals \in Seq(U) /\ names \in U
    <3>1. locals \in Seq(T \cup {names}) /\ names \in T \cup {names}
      BY <2>1, SeqMonotonic
    <3> QED
      BY <3>1
  <2>3. /\ locals' \in Seq(U)
        /\ Len(locals') = Len(locals)
        /\ \A i \in 1 .. Len(locals) : locals'[i] = IF i = n THEN names ELSE locals[i]
    BY <1>1, <2>2, ExceptSeq
  <2> QED
    BY <2>3, SeqIsSequence
<1>3. \A i \in 1 .. Len(locals') : GoodNames(locals'[i])
  BY <1>2 DEF ScopeGood
<1> QED
  BY <1>1, <1>2, <1>3 DEF ScopeGood, Depth

(* A stop leaves everything as it is.                                      *)
LEMMA StopGood ==
    ASSUME IInv, NEW o \in {"abort", "undefined"}, Stop(o)
    PROVE  IInv'
BY DEF IInv, StackGood, ScopeGood, WalkGood, Flags, Stop, Depth

---------------------------------------------------------------------------
(* Steps that leave frames and tables alone.                               *)

(* A step that touches neither frames nor tables.                          *)
LEMMA ScopeSame == ScopeGood /\ UNCHANGED scope => ScopeGood' /\ Depth' = Depth
BY DEF ScopeGood, scope, Depth

(* A visit without new items and without an effect on frames.              *)
LEMMA QuietStep ==
    ASSUME IInv, outcome = "run", todo # <<>>, UNCHANGED scope,
           todo' = Rest \/ todo' = Unwind(Rest)
    PROVE  WalkGood'
<1>1. Head(todo).d \in Int /\ Depth \in Nat /\ Head(todo).d <= Depth
  BY HeadItem
<1>2. Depth' = Depth /\ UNCHANGED <<locals, globals>>
  BY DEF scope, Depth
<1>3. /\ \A i \in 1 .. Head(todo).d : DOMAIN locals[i] \subseteq DOMAIN locals'[i]
      /\ DOMAIN globals \subseteq DOMAIN globals'
  BY <1>2
<1> QED
  BY <1>1, <1>2, <1>3, WalkShrinks

(* A visit whose new items count on the frames that are there.             *)
LEMMA LevelStep ==
    ASSUME IInv, outcome = "run", todo # <<>>, UNCHANGED scope,
           NEW new \in Seq(TodoItem), todo' = new \o Rest,
           \A i \in 1 .. Len(new) : new[i].d = Depth /\ AliveItem(new[i], locals, globals),
           \A i \in 1 .. Len(new) : ~Pops(new[i])
    PROVE  WalkGood'
<1>1. Head(todo).d \in Int /\ Depth \in Nat /\ Head(todo).d <= Depth
  BY HeadItem
<1>2. Depth' = Depth /\ UNCHANGED <<locals, globals>>
  BY DEF scope, Depth
<1>3. Ordered(new, Depth') /\ Alive(new, locals', globals')
  <2>1. Ordered(new, Depth)
    <3>1. Len(new) \in Nat
      BY LenProperties
    <3>2. Depth \in Int /\ \A i \in 1 .. Len(new) - 1 : ~Pops(new[i])
      BY <1>1, <3>1
    <3> QED
      BY <3>2, LevelOrdered
  <2>2. Alive(new, locals, globals)
    BY DEF Alive
  <2> QED
    BY <1>2, <2>1, <2>2
<1>4. /\ \A i \in 1 .. Head(todo).d : DOMAIN locals[i] \subseteq DOMAIN locals'[i]
      /\ DOMAIN globals \subseteq DOMAIN globals'
  BY <1>2
<1>5. \A i \in 1 .. Len(new) : /\ Head(todo).d <= new[i].d
                               /\ Pops(new[i]) => Head(todo).d < new[i].d
  BY <1>1
<1> QED
  BY <1>1, <1>2, <1>3, <1>4, <1>5, WalkGrows

(* A step that leaves the value stack alone.                               *)
LEMMA StackSame == StackGood /\ UNCHANGED <<stack, vi>> => StackGood'
BY DEF StackGood

(* The items that a visit puts on the list.                                *)
LEMMA OneItem ==
    ASSUME NEW op \in Ops, NEW n \in Node, NEW d \in Nat, NEW at \in Nat
    PROVE  /\ Item(op, n, d, at) \in TodoItem
           /\ Item(op, n, d, at).op = op /\ Item(op, n, d, at).node = n
           /\ Item(op, n, d, at).d = d /\ Item(op, n, d, at).at = at
BY DEF Item, TodoItem

(* A list of two items.                                                    *)
LEMMA TwoItems ==
    ASSUME NEW a \in TodoItem, NEW b \in TodoItem
    PROVE  /\ <<a, b>> \in Seq(TodoItem)
           /\ Len(<<a, b>>) = 2 /\ <<a, b>>[1] = a /\ <<a, b>>[2] = b
OBVIOUS

(* The walks of the children of a node.                                    *)
LEMMA WalksItems ==
    ASSUME NEW nodes \in Seq(Node), NEW d \in Nat
    PROVE  /\ Walks(nodes, d) \in Seq(TodoItem)
           /\ \A i \in 1 .. Len(Walks(nodes, d)) :
                Walks(nodes, d)[i].op = "walk" /\ Walks(nodes, d)[i].d = d
<1>1. Len(nodes) \in Nat /\ \A i \in 1 .. Len(nodes) : nodes[i] \in Node
  BY LenProperties, ElementOfSeq
<1>2. "walk" \in Ops /\ 0 \in Nat
  BY DEF Ops
<1>3. \A i \in 1 .. Len(nodes) : /\ Item("walk", nodes[i], d, 0) \in TodoItem
                                 /\ Item("walk", nodes[i], d, 0).op = "walk"
                                 /\ Item("walk", nodes[i], d, 0).d = d
  BY <1>1, <1>2, OneItem
<1>4. Walks(nodes, d) \in Seq(TodoItem) /\ Len(Walks(nodes, d)) = Len(nodes)
  BY <1>1, <1>3 DEF Walks
<1> QED
  BY <1>3, <1>4 DEF Walks

(* The children of a node, then the visit after them.                      *)
LEMMA ChildItems ==
    ASSUME NEW n \in Node, NEW d \in Nat
    PROVE  /\ Visits(n, d) \in Seq(TodoItem)
           /\ Len(Visits(n, d)) \in Nat
           /\ \A i \in 1 .. Len(Visits(n, d)) : /\ Visits(n, d)[i].d = d
                                               /\ Visits(n, d)[i].op \in {"walk", "post"}
           /\ \A i \in 1 .. Len(Visits(n, d)) - 1 : Visits(n, d)[i].op = "walk"
           /\ \A i \in 1 .. Len(Visits(n, d)) :
                Visits(n, d)[i].op = "post" => Visits(n, d)[i].node = n
<1>1. Children(n) \in Seq(Node)
  BY TreeAssumption DEF Children
<1> DEFINE w == Walks(Children(n), d)
           p == <<Item("post", n, d, 0)>>
           new == Visits(n, d)
<1>2. w \in Seq(TodoItem) /\ Len(w) \in Nat
      /\ \A i \in 1 .. Len(w) : w[i].op = "walk" /\ w[i].d = d
  <2>1. w \in Seq(TodoItem) /\ \A i \in 1 .. Len(w) : w[i].op = "walk" /\ w[i].d = d
    BY <1>1, WalksItems
  <2> QED
    BY <2>1, LenProperties
<1>3. /\ p \in Seq(TodoItem) /\ Len(p) = 1 /\ p[1].op = "post"
      /\ p[1].d = d /\ p[1].node = n
  BY DEF Item, TodoItem, Ops
<1>4. new = w \o p
  BY DEF Visits
<1> HIDE DEF w, p, new
<1>5. /\ new \in Seq(TodoItem) /\ Len(new) = Len(w) + 1
      /\ \A i \in 1 .. Len(w) + 1 : new[i] = IF i <= Len(w) THEN w[i] ELSE p[i - Len(w)]
  <2>1. /\ w \o p \in Seq(TodoItem)
        /\ Len(w \o p) = Len(w) + Len(p)
        /\ \A i \in 1 .. Len(w) + Len(p) :
              (w \o p)[i] = IF i <= Len(w) THEN w[i] ELSE p[i - Len(w)]
    <3>1. w \in Seq(TodoItem) /\ p \in Seq(TodoItem)
      BY <1>2, <1>3
    <3> QED
      BY ONLY <3>1, ConcatProperties, SMTT(30)
  <2> QED
    BY <1>3, <1>4, <2>1
<1>6. \A i \in 1 .. Len(new) : \/ i \in 1 .. Len(w) /\ new[i] = w[i]
                               \/ i = Len(w) + 1 /\ new[i] = p[1]
  BY <1>2, <1>5
<1>7. /\ new \in Seq(TodoItem) /\ Len(new) \in Nat
      /\ \A i \in 1 .. Len(new) : new[i].d = d /\ new[i].op \in {"walk", "post"}
  BY <1>2, <1>3, <1>5, <1>6
<1>8. /\ \A i \in 1 .. Len(new) - 1 : new[i].op = "walk"
      /\ \A i \in 1 .. Len(new) : new[i].op = "post" => new[i].node = n
  <2>1. \A i \in 1 .. Len(new) - 1 : i \in 1 .. Len(w) /\ new[i] = w[i]
    BY <1>2, <1>5, <1>6
  <2> QED
    BY <1>2, <1>3, <1>6, <2>1
<1> QED
  BY <1>7, <1>8 DEF new

(* A visit that ends here and leaves frames and tables alone.              *)
LEMMA QuietGood ==
    ASSUME IInv, outcome = "run", todo # <<>>, UNCHANGED scope, StackGood', Flags',
           todo' = Rest \/ todo' = Unwind(Rest)
    PROVE  IInv'
<1>1. WalkGood' /\ ScopeGood'
  BY QuietStep, ScopeSame DEF IInv
<1> QED
  BY <1>1 DEF IInv

(* A visit that goes on with nested walks in the same frame.               *)
LEMMA LevelGood ==
    ASSUME IInv, outcome = "run", todo # <<>>, UNCHANGED scope, StackGood', Flags',
           NEW new \in Seq(TodoItem), todo' = new \o Rest,
           \A i \in 1 .. Len(new) : new[i].d = Depth /\ AliveItem(new[i], locals, globals),
           \A i \in 1 .. Len(new) : ~Pops(new[i])
    PROVE  IInv'
<1>1. WalkGood' /\ ScopeGood'
  BY LevelStep, ScopeSame DEF IInv
<1> QED
  BY <1>1 DEF IInv

(* SkipAfterError keeps the invariant.                                     *)
LEMMA SkipAfterErrorGood == IInv /\ SkipAfterError => IInv'
<1> SUFFICES ASSUME IInv, SkipAfterError PROVE IInv'
  OBVIOUS
<1>1. /\ outcome = "run" /\ todo # <<>> /\ UNCHANGED <<stack, vi, scope, status, outcome>>
      /\ todo' = Rest
  BY DEF SkipAfterError, Turn, Done
<1>2. StackGood' /\ Flags'
  BY <1>1, StackSame DEF IInv, Flags
<1> QED
  BY <1>1, <1>2, QuietGood

(* UnwindAfterError keeps the invariant.                                   *)
LEMMA UnwindAfterErrorGood == IInv /\ UnwindAfterError => IInv'
<1> SUFFICES ASSUME IInv, UnwindAfterError PROVE IInv'
  OBVIOUS
<1>1. /\ outcome = "run" /\ todo # <<>> /\ UNCHANGED <<stack, vi, scope, status, outcome>>
      /\ todo' = Unwind(Rest)
  BY DEF UnwindAfterError, Turn
<1>2. StackGood' /\ Flags'
  BY <1>1, StackSame DEF IInv, Flags
<1> QED
  BY <1>1, <1>2, QuietGood

(* Descend keeps the invariant.                                            *)
LEMMA DescendGood == IInv /\ Descend => IInv'
<1> SUFFICES ASSUME IInv, Descend PROVE IInv'
  OBVIOUS
<1> DEFINE new == Visits(Here, Depth)
<1>1. /\ outcome = "run" /\ todo # <<>> /\ UNCHANGED <<stack, vi, scope, status, outcome>>
      /\ todo' = new \o Rest /\ Here.kind # "brace"
  BY DEF Descend, Turn, Pre
<1>2. Here \in Node /\ Depth \in Nat
  BY <1>1, HeadItem
<1>3. StackGood' /\ Flags'
  BY <1>1, StackSame DEF IInv, Flags
<1>4. /\ new \in Seq(TodoItem)
      /\ \A i \in 1 .. Len(new) : new[i].d = Depth /\ new[i].op \in {"walk", "post"}
      /\ \A i \in 1 .. Len(new) : new[i].op = "post" => new[i].node = Here
  BY <1>2, ChildItems
<1> HIDE DEF new
<1>5. \A i \in 1 .. Len(new) : AliveItem(new[i], locals, globals) /\ ~Pops(new[i])
  BY <1>1, <1>4 DEF AliveItem, Pops
<1> QED
  BY <1>1, <1>3, <1>4, <1>5, LevelGood

(* StatusAssertFails keeps the invariant.                                  *)
LEMMA StatusAssertFailsGood == IInv /\ StatusAssertFails => IInv'
BY StopGood DEF StatusAssertFails

(* EndTop keeps the invariant.                                             *)
LEMMA EndTopGood == IInv /\ EndTop => IInv'
<1> SUFFICES ASSUME IInv, EndTop PROVE IInv'
  OBVIOUS
<1>1. CASE vi # 0
  BY <1>1, StopGood DEF EndTop
<1>2. CASE vi = 0
  <2>1. /\ outcome = "run" /\ todo # <<>> /\ UNCHANGED <<stack, vi, scope, status, outcome>>
        /\ todo' = Rest
    BY <1>2 DEF EndTop, Visit, Turn, Done
  <2>2. StackGood' /\ Flags'
    BY <2>1, StackSame DEF IInv, Flags
  <2> QED
    BY <2>1, <2>2, QuietGood
<1> QED
  BY <1>1, <1>2

(* Paren keeps the invariant.                                              *)
LEMMA ParenGood == IInv /\ Paren => IInv'
<1> SUFFICES ASSUME IInv, Paren PROVE IInv'
  OBVIOUS
<1>1. /\ outcome = "run" /\ todo # <<>> /\ UNCHANGED <<stack, vi, scope, status, outcome>>
      /\ todo' = Rest
  BY DEF Paren, Visit, Turn, Done
<1>2. StackGood' /\ Flags'
  BY <1>1, StackSame DEF IInv, Flags
<1> QED
  BY <1>1, <1>2, QuietGood

(* Break keeps the invariant.                                              *)
LEMMA BreakGood == IInv /\ Break => IInv'
<1> SUFFICES ASSUME IInv, Break PROVE IInv'
  OBVIOUS
<1>1. /\ outcome = "run" /\ todo # <<>> /\ UNCHANGED <<stack, vi, scope, outcome>>
      /\ status' = "BRK" /\ todo' = Unwind(Rest)
  BY DEF Break, Visit, Turn
<1>2. StackGood' /\ Flags'
  BY <1>1, StackSame DEF IInv, Flags
<1> QED
  BY <1>1, <1>2, QuietGood

(* NextOrReturn keeps the invariant.                                       *)
LEMMA NextOrReturnGood == IInv /\ NextOrReturn => IInv'
<1> SUFFICES ASSUME IInv, NextOrReturn PROVE IInv'
  OBVIOUS
<1>1. /\ outcome = "run" /\ todo # <<>> /\ UNCHANGED <<stack, vi, scope, status, outcome>>
      /\ todo' = Unwind(Rest)
  BY DEF NextOrReturn, Visit, Turn
<1>2. StackGood' /\ Flags'
  BY <1>1, StackSame DEF IInv, Flags
<1> QED
  BY <1>1, <1>2, QuietGood

(* BranchDone keeps the invariant.                                         *)
LEMMA BranchDoneGood == IInv /\ BranchDone => IInv'
<1> SUFFICES ASSUME IInv, BranchDone PROVE IInv'
  OBVIOUS
<1>1. /\ outcome = "run" /\ todo # <<>> /\ UNCHANGED <<stack, vi, scope, status, outcome>>
      /\ todo' = Rest
  BY DEF BranchDone, Turn, Done
<1>2. StackGood' /\ Flags'
  BY <1>1, StackSame DEF IInv, Flags
<1> QED
  BY <1>1, <1>2, QuietGood

(* Two items on the frames that are there, of kinds that neither pop a     *)
(* frame nor store into a variable.                                        *)
LEMMA PairGood ==
    ASSUME IInv, outcome = "run", todo # <<>>, UNCHANGED scope, StackGood', Flags',
           NEW n1 \in Node, NEW op \in {"condition", "branch", "loop_condition", "loop_body"},
           NEW n2 \in Node, op = "condition" => n2.kind = "if",
           op \in {"loop_condition", "loop_body"} => n2.kind = "while",
           todo' = <<Item("walk", n1, Depth, 0), Item(op, n2, Depth, 0)>> \o Rest
    PROVE  IInv'
<1> DEFINE a == Item("walk", n1, Depth, 0)
           b == Item(op, n2, Depth, 0)
           new == <<a, b>>
<1>1. Depth \in Nat /\ 0 \in Nat /\ op \in Ops /\ "walk" \in Ops
  BY HeadItem DEF Ops, Waiting
<1>2. a \in TodoItem /\ a.op = "walk" /\ a.d = Depth
  BY <1>1, OneItem
<1>3. b \in TodoItem /\ b.op = op /\ b.d = Depth /\ b.node = n2
  BY <1>1, OneItem
<1> HIDE DEF a, b
<1>4. new \in Seq(TodoItem) /\ Len(new) = 2 /\ new[1] = a /\ new[2] = b
  BY <1>2, <1>3, TwoItems
<1>5. todo' = new \o Rest
  BY DEF a, b
<1> HIDE DEF new
<1>6. /\ \A i \in 1 .. Len(new) : new[i].d = Depth /\ AliveItem(new[i], locals, globals)
      /\ \A i \in 1 .. Len(new) : ~Pops(new[i])
  <2> SUFFICES ASSUME NEW i \in 1 .. Len(new)
               PROVE  /\ new[i].d = Depth /\ AliveItem(new[i], locals, globals)
                      /\ ~Pops(new[i])
    OBVIOUS
  <2>1. new[i] = a \/ new[i] = b
    BY <1>4
  <2> QED
    BY <1>2, <1>3, <2>1 DEF AliveItem, Pops
<1> QED
  BY <1>4, <1>5, <1>6, LevelGood

(* EnterIf keeps the invariant.                                            *)
LEMMA EnterIfGood == IInv /\ EnterIf => IInv'
<1> SUFFICES ASSUME IInv, EnterIf PROVE IInv'
  OBVIOUS
<1>1. /\ outcome = "run" /\ todo # <<>> /\ UNCHANGED <<stack, vi, scope, status, outcome>>
      /\ todo' = <<Item("walk", Here.cond, Depth, 0), Item("condition", Here, Depth, 0)>> \o Rest
      /\ Here.kind = "if"
  BY DEF EnterIf, Visit, Turn, Pre
<1>2. StackGood' /\ Flags'
  BY <1>1, StackSame DEF IInv, Flags
<1>3. Here \in Node /\ Here.cond \in Node
  BY <1>1, HeadItem, TreeAssumption
<1> QED
  BY <1>1, <1>2, <1>3, PairGood

(* EnterWhile keeps the invariant.                                         *)
LEMMA EnterWhileGood == IInv /\ EnterWhile => IInv'
<1> SUFFICES ASSUME IInv, EnterWhile PROVE IInv'
  OBVIOUS
<1>1. /\ outcome = "run" /\ todo # <<>> /\ UNCHANGED <<stack, vi, scope, status, outcome>>
      /\ todo' = <<Item("walk", Here.cond, Depth, 0), Item("loop_condition", Here, Depth, 0)>>
                   \o Rest
      /\ Here.kind = "while"
  BY DEF EnterWhile, Visit, Turn, Pre, LoopHead
<1>2. StackGood' /\ Flags'
  BY <1>1, StackSame DEF IInv, Flags
<1>3. Here \in Node /\ Here.cond \in Node
  BY <1>1, HeadItem, TreeAssumption
<1> QED
  BY <1>1, <1>2, <1>3, PairGood

(* A condition: an error, or one way to go on.                             *)
LEMMA DecideParts ==
    ASSUME IInv, outcome = "run", todo # <<>>, NEW T, NEW F, Decide(T, F)
    PROVE  /\ UNCHANGED <<scope, outcome>> /\ StackGood' /\ Flags'
           /\ todo' = Rest \/ todo' = T \o Rest \/ todo' = F \o Rest
<1>1. UNCHANGED <<scope, outcome>>
  BY DEF Decide
<1>2. CASE KindAt(vi - 1) # "bool"
  <2>1. status' = "ERR" /\ todo' = Rest /\ UNCHANGED <<stack, vi>>
    BY <1>2 DEF Decide, FailPre
  <2> QED
    BY <1>1, <2>1, StackSame DEF IInv, Flags
<1>3. CASE KindAt(vi - 1) = "bool"
  <2>1. /\ DropTo(vi - 1) /\ UNCHANGED status
        /\ todo' = T \o Rest \/ todo' = F \o Rest
    BY <1>3 DEF Decide
  <2>2. vi - 1 \in 0 .. StackSize - 1
    BY <1>3, StackAssumption DEF KindAt, IInv, StackGood
  <2>3. StackGood'
    BY <2>1, <2>2, DropToGood DEF IInv
  <2> QED
    BY <1>1, <2>1, <2>3 DEF IInv, Flags
<1> QED
  BY <1>2, <1>3

(* Condition keeps the invariant.                                          *)
LEMMA ConditionGood == IInv /\ Condition => IInv'
<1> SUFFICES ASSUME IInv, Condition PROVE IInv'
  OBVIOUS
<1> DEFINE F == IF Here.else = None THEN <<>> ELSE BranchOf(Here.else)
<1>1. outcome = "run" /\ todo # <<>> /\ Head(todo).op = "condition"
      /\ Decide(BranchOf(Here.then), F)
  BY DEF Condition, Turn
<1>2. /\ Here \in Node /\ Here.kind = "if" /\ Rest \in Seq(TodoItem)
      /\ Here.then \in Node /\ Here.else \in Node \cup {None}
  BY <1>1, HeadItem, TreeAssumption DEF AliveItem, Here
<1> HIDE DEF F
<1>3. /\ UNCHANGED <<scope, outcome>> /\ StackGood' /\ Flags'
      /\ todo' = Rest \/ todo' = BranchOf(Here.then) \o Rest \/ todo' = F \o Rest
  BY <1>1, DecideParts
<1>4. CASE todo' = Rest
  BY <1>1, <1>3, <1>4, QuietGood DEF scope
<1>5. ASSUME NEW n \in Node, todo' = BranchOf(n) \o Rest PROVE IInv'
  BY <1>1, <1>3, <1>5, PairGood DEF BranchOf, scope
<1>6. CASE todo' = F \o Rest
  <2>1. CASE Here.else = None
    <3>1. todo' = Rest
      BY <1>2, <1>6, <2>1, ConcatEmptySeq DEF F
    <3> QED
      BY <1>4, <3>1
  <2>2. CASE Here.else # None
    BY <1>2, <1>5, <1>6, <2>2 DEF F
  <2> QED
    BY <2>1, <2>2
<1> QED
  BY <1>2, <1>3, <1>4, <1>5, <1>6

(* LoopCondition keeps the invariant.                                      *)
LEMMA LoopConditionGood == IInv /\ LoopCondition => IInv'
<1> SUFFICES ASSUME IInv, LoopCondition PROVE IInv'
  OBVIOUS
<1> DEFINE T == <<Item("walk", Here.body, Depth, 0), Item("loop_body", Here, Depth, 0)>>
<1>1. outcome = "run" /\ todo # <<>> /\ Head(todo).op = "loop_condition"
      /\ Decide(T, <<>>)
  BY DEF LoopCondition, Turn
<1>2. Here \in Node /\ Here.kind = "while" /\ Here.body \in Node /\ Rest \in Seq(TodoItem)
  BY <1>1, HeadItem, TreeAssumption DEF AliveItem, Here
<1>3. /\ UNCHANGED <<scope, outcome>> /\ StackGood' /\ Flags'
      /\ todo' = Rest \/ todo' = T \o Rest \/ todo' = <<>> \o Rest
  <2> HIDE DEF T
  <2> QED
    BY <1>1, DecideParts
<1>4. <<>> \o Rest = Rest
  BY <1>2, ConcatEmptySeq
<1>5. CASE todo' = Rest
  BY <1>1, <1>3, <1>5, QuietGood DEF scope
<1>6. CASE todo' = T \o Rest
  BY <1>1, <1>2, <1>3, <1>6, PairGood DEF scope
<1> QED
  BY <1>3, <1>4, <1>5, <1>6

---------------------------------------------------------------------------
(* Steps on the stack.                                                     *)

(* A visit that pushes a good value keeps the invariant.                   *)
LEMMA PushGood ==
    ASSUME IInv, outcome = "run", todo # <<>>, NEW v, Good(v), Push(v)
    PROVE  IInv'
<1>1. CASE vi + 1 < StackSize
  <2>1. /\ stack' = [stack EXCEPT ![vi] = v] /\ vi' = vi + 1 /\ todo' = Rest
        /\ UNCHANGED <<scope, status, outcome>>
    BY <1>1 DEF Push, Done
  <2>2. StackGood'
    BY StackAssumption, <1>1, <2>1 DEF IInv, StackGood
  <2>3. Flags'
    BY <2>1 DEF IInv, Flags
  <2> QED
    BY <2>1, <2>2, <2>3, QuietGood
<1>2. CASE ~(vi + 1 < StackSize)
  BY <1>2, StopGood DEF Push
<1> QED
  BY <1>1, <1>2

(* Literal keeps the invariant.                                            *)
LEMMA LiteralGood == IInv /\ Literal => IInv'
<1> SUFFICES ASSUME IInv, Literal PROVE IInv'
  OBVIOUS
<1>1. outcome = "run" /\ todo # <<>> /\ Here.kind \in {"bool", "integer"} /\ Push(Here)
  BY DEF Literal, Visit, Turn
<1>2. Good(Here)
  BY <1>1, GoodPlain
<1> QED
  BY <1>1, <1>2, PushGood

(* UnaryOp keeps the invariant.                                            *)
LEMMA UnaryOpGood == IInv /\ UnaryOp => IInv'
<1> SUFFICES ASSUME IInv, UnaryOp PROVE IInv'
  OBVIOUS
<1>1. outcome = "run" /\ todo # <<>>
  BY DEF UnaryOp, Visit, Turn
<1>2. CASE vi = 0
  BY <1>2, StopGood DEF UnaryOp
<1>3. CASE vi # 0
  <2>1. UNCHANGED <<vi, scope, outcome>>
    BY <1>3 DEF UnaryOp
  <2>2. CASE ~UnaryDefined(Here.op, Top.kind)
    <3>1. status' = "ERR" /\ todo' = Unwind(Rest) /\ UNCHANGED stack
      BY <1>3, <2>2 DEF UnaryOp, FailPost
    <3>2. StackGood' /\ Flags'
      BY <2>1, <3>1, StackSame DEF IInv, Flags
    <3> QED
      BY <1>1, <2>1, <3>1, <3>2, QuietGood
  <2>3. CASE UnaryDefined(Here.op, Top.kind)
    <3>1. /\ stack' = [stack EXCEPT ![vi - 1] = Unary(Here.op, @)]
          /\ todo' = Rest /\ UNCHANGED status
      BY <1>3, <2>3 DEF UnaryOp, Done
    <3>2. Good(Unary(Here.op, Top))
      <4>1. Unary(Here.op, Top).kind \in {"integer", "bool"}
        BY <2>3 DEF UnaryDefined, Unary, Num, Bool
      <4> QED
        BY <4>1, GoodPlain
    <3>3. StackGood'
      BY <1>3, <2>1, <3>1, <3>2 DEF IInv, StackGood, Top
    <3>4. Flags'
      BY <2>1, <3>1 DEF IInv, Flags
    <3> QED
      BY <1>1, <2>1, <3>1, <3>3, <3>4, QuietGood
  <2> QED
    BY <2>2, <2>3
<1> QED
  BY <1>2, <1>3

(* BinaryOp keeps the invariant.                                           *)
LEMMA BinaryOpGood == IInv /\ BinaryOp => IInv'
<1> SUFFICES ASSUME IInv, BinaryOp PROVE IInv'
  OBVIOUS
<1> DEFINE l == stack[vi - 2]
<1>1. outcome = "run" /\ todo # <<>>
  BY DEF BinaryOp, Visit, Turn
<1>2. CASE vi < 2
  BY <1>2, StopGood DEF BinaryOp
<1>3. CASE vi >= 2 /\ ~BinaryDefined(Here.op, l.kind, Top.kind)
  <2>1. status' = "ERR" /\ todo' = Unwind(Rest) /\ UNCHANGED <<stack, vi, scope, outcome>>
    BY <1>3 DEF BinaryOp, FailPost, IInv, StackGood
  <2>2. StackGood' /\ Flags'
    BY <2>1, StackSame DEF IInv, Flags
  <2> QED
    BY <1>1, <2>1, <2>2, QuietGood
<1>4. CASE vi >= 2 /\ BinaryDefined(Here.op, l.kind, Top.kind)
  <2>1. CASE Here.op = "/" /\ Top.value = 0
    BY <1>4, <2>1, StopGood DEF BinaryOp, IInv, StackGood
  <2>2. CASE ~(Here.op = "/" /\ Top.value = 0)
    <3>1. /\ stack' = [stack EXCEPT ![vi - 2] = Binary(Here.op, l, Top), ![vi - 1] = Junk]
          /\ vi' = vi - 1 /\ todo' = Rest /\ UNCHANGED <<scope, status, outcome>>
      BY <1>4, <2>2 DEF BinaryOp, Done, IInv, StackGood
    <3>2. Good(Binary(Here.op, l, Top)) /\ Good(Junk)
      <4>1. Binary(Here.op, l, Top).kind \in {"integer", "bool"}
        BY <1>4 DEF BinaryDefined, Binary, Num, Bool
      <4> QED
        BY <4>1, GoodPlain, GoodConstants
    <3>3. StackGood'
      BY StackAssumption, <1>4, <3>1, <3>2 DEF IInv, StackGood
    <3>4. Flags'
      BY <3>1 DEF IInv, Flags
    <3> QED
      BY <1>1, <3>1, <3>3, <3>4, QuietGood
  <2> QED
    BY <2>1, <2>2
<1> QED
  BY <1>2, <1>3, <1>4 DEF IInv, StackGood

(* ExprStmt keeps the invariant.                                           *)
LEMMA ExprStmtGood == IInv /\ ExprStmt => IInv'
<1> SUFFICES ASSUME IInv, ExprStmt PROVE IInv'
  OBVIOUS
<1> DEFINE base == IF frames = <<>> THEN 0 ELSE frames[Depth].base
<1>1. outcome = "run" /\ todo # <<>>
  BY DEF ExprStmt, Visit, Turn
<1>2. CASE vi < base
  BY <1>2, StopGood DEF ExprStmt
<1>3. CASE ~(vi < base)
  <2>1. DropTo(base) /\ todo' = Rest /\ UNCHANGED <<scope, status, outcome>>
    BY <1>3 DEF ExprStmt, Done
  <2>2. base \in 0 .. StackSize - 1
    <3>1. CASE frames = <<>>
      BY <3>1, StackAssumption
    <3>2. CASE frames # <<>>
      <4>1. frames \in Seq(EvalFrame) /\ Depth \in 1 .. Len(frames)
        BY <3>2, EmptySeq DEF IInv, ScopeGood, Depth
      <4>2. frames[Depth] \in EvalFrame
        BY <4>1, ElementOfSeq
      <4> QED
        BY <3>2, <4>2 DEF EvalFrame
    <3> QED
      BY <3>1, <3>2
  <2>3. StackGood'
    <3> HIDE DEF base
    <3> QED
      BY <2>1, <2>2, DropToGood DEF IInv
  <2>4. Flags'
    BY <2>1 DEF IInv, Flags
  <2> QED
    BY <1>1, <2>1, <2>3, <2>4, QuietGood
<1> QED
  BY <1>2, <1>3

(* A slot whose kind the code tests for lies on the stack.                 *)
LEMMA SlotInside ==
    ASSUME NEW i, KindAt(i) \in {"print", "function", "bool"}, i \in Int
    PROVE  i \in 0 .. StackSize - 1
BY StackAssumption DEF KindAt

(* CallPrint keeps the invariant.                                          *)
LEMMA CallPrintGood == IInv /\ CallPrint => IInv'
<1> SUFFICES ASSUME IInv, CallPrint PROVE IInv'
  OBVIOUS
<1>1. /\ outcome = "run" /\ todo # <<>> /\ Here.kind = "apply" /\ KindAt(CalleeSlot) = "print"
      /\ DropTo(CalleeSlot) /\ todo' = Rest /\ UNCHANGED <<scope, status, outcome>>
  BY DEF CallPrint, Visit, Turn, Done
<1>2. CalleeSlot \in Int
  <2>1. Here.args \in Seq(Node)
    BY <1>1, HeadItem, TreeAssumption
  <2> QED
    BY <2>1, LenProperties DEF CalleeSlot, IInv, StackGood
<1>3. CalleeSlot \in 0 .. StackSize - 1
  BY <1>1, <1>2, SlotInside
<1>4. StackGood' /\ Flags'
  BY <1>1, <1>3, DropToGood DEF IInv, Flags
<1> QED
  BY <1>1, <1>4, QuietGood

(* CallBad keeps the invariant.                                            *)
LEMMA CallBadGood == IInv /\ CallBad => IInv'
<1> SUFFICES ASSUME IInv, CallBad PROVE IInv'
  OBVIOUS
<1>1. outcome = "run" /\ todo # <<>>
  BY DEF CallBad, Visit, Turn
<1>2. CASE CalleeSlot < -2
  BY <1>2, StopGood DEF CallBad
<1>3. CASE ~(CalleeSlot < -2)
  <2>1. status' = "ERR" /\ todo' = Unwind(Rest) /\ UNCHANGED <<stack, vi, scope, outcome>>
    BY <1>3 DEF CallBad, FailPost
  <2>2. StackGood' /\ Flags'
    BY <2>1, StackSame DEF IInv, Flags
  <2> QED
    BY <1>1, <2>1, <2>2, QuietGood
<1> QED
  BY <1>2, <1>3

---------------------------------------------------------------------------
(* Steps that declare or assign to a name.                                 *)

(* A visit that adds a name to a frame, or assigns one, keeps the          *)
(* invariant.                                                              *)
LEMMA NamesStep ==
    ASSUME IInv, outcome = "run", todo # <<>>, NEW n \in 1 .. Depth,
           NEW names, GoodNames(names), DOMAIN locals[n] \subseteq DOMAIN names,
           locals' = [locals EXCEPT ![n] = names], UNCHANGED <<frames, globals>>,
           todo' = Rest \/ todo' = Unwind(Rest), StackGood', Flags'
    PROVE  IInv'
<1>1. /\ ScopeGood' /\ Depth' = Depth
      /\ \A i \in 1 .. Depth : DOMAIN locals[i] \subseteq DOMAIN locals'[i]
  BY SetNamesGood DEF IInv
<1>2. Head(todo).d \in Int /\ Depth \in Nat /\ Head(todo).d <= Depth
  BY HeadItem
<1>3. /\ \A i \in 1 .. Head(todo).d : DOMAIN locals[i] \subseteq DOMAIN locals'[i]
      /\ DOMAIN globals \subseteq DOMAIN globals'
  BY <1>1, <1>2
<1>4. WalkGood'
  BY <1>1, <1>2, <1>3, WalkShrinks
<1> QED
  BY <1>1, <1>4 DEF IInv

(* The innermost frame, when there is one, has a good table.               *)
LEMMA DepthPositive == IInv /\ frames # <<>> => Depth \in 1 .. Depth /\ GoodNames(locals[Depth])
<1> SUFFICES ASSUME IInv, frames # <<>>
             PROVE  Depth \in 1 .. Depth /\ GoodNames(locals[Depth])
  OBVIOUS
<1>1. Depth \in Nat \ {0} /\ Len(locals) = Depth
  BY EmptySeq DEF IInv, ScopeGood, Depth
<1> QED
  BY <1>1 DEF IInv, ScopeGood

(* A declaration in the innermost frame.                                   *)
LEMMA DeclareStep ==
    ASSUME IInv, outcome = "run", todo # <<>>, frames # <<>>, NEW x, NEW v, Good(v),
           locals' = [locals EXCEPT ![Depth] = AddName(locals[Depth], x, v)],
           UNCHANGED <<frames, globals>>,
           todo' = Rest \/ todo' = Unwind(Rest), StackGood', Flags'
    PROVE  IInv'
<1> DEFINE old == locals[Depth]
           names == AddName(old, x, v)
<1>1. Depth \in 1 .. Depth /\ GoodNames(old)
  BY DepthPositive
<1>2. GoodNames(names) /\ DOMAIN old \subseteq DOMAIN names
  <2> HIDE DEF old
  <2>1. GoodNames(names) /\ DOMAIN names = DOMAIN old \cup {x}
    BY <1>1, GoodAdd
  <2> QED
    BY <2>1
<1>3. locals' = [locals EXCEPT ![Depth] = names]
  OBVIOUS
<1> HIDE DEF names
<1> QED
  BY <1>1, <1>2, <1>3, NamesStep

(* DeclareVar keeps the invariant.                                         *)
LEMMA DeclareVarGood == IInv /\ DeclareVar => IInv'
<1> SUFFICES ASSUME IInv, DeclareVar PROVE IInv'
  OBVIOUS
<1>1. outcome = "run" /\ todo # <<>>
  BY DEF DeclareVar, Visit, Turn
<1>2. CASE frames = <<>> \/ (Here.init # None /\ vi = 0)
  BY <1>2, StopGood DEF DeclareVar
<1>3. CASE ~(frames = <<>> \/ (Here.init # None /\ vi = 0))
  <2> DEFINE v == IF Here.init = None THEN Junk ELSE Top
  <2>1. /\ IF Here.init = None THEN UNCHANGED <<stack, vi>> ELSE DropTo(vi - 1)
        /\ UNCHANGED <<frames, globals, outcome>>
    BY <1>3 DEF DeclareVar
  <2>2. StackGood'
    <3>1. CASE Here.init = None
      BY <2>1, <3>1, StackSame DEF IInv
    <3>2. CASE Here.init # None
      <4>1. vi - 1 \in 0 .. StackSize - 1
        BY <1>3, <3>2, StackAssumption DEF IInv, StackGood
      <4> QED
        BY <2>1, <3>2, <4>1, DropToGood DEF IInv
    <3> QED
      BY <3>1, <3>2
  <2>3. CASE ~Declarable(Here.name, locals[Depth])
    <3>1. status' = "ERR" /\ todo' = Unwind(Rest) /\ UNCHANGED locals
      BY <1>3, <2>3 DEF DeclareVar, FailPost
    <3>2. UNCHANGED scope /\ Flags'
      BY <2>1, <3>1 DEF scope, IInv, Flags
    <3> QED
      BY <1>1, <2>2, <3>1, <3>2, QuietGood
  <2>4. CASE Declarable(Here.name, locals[Depth])
    <3>1. /\ locals' = [locals EXCEPT ![Depth] = AddName(locals[Depth], Here.name, v)]
          /\ todo' = Rest /\ UNCHANGED status
      BY <1>3, <2>4 DEF DeclareVar, Done
    <3>2. Good(v)
      <4>1. Here.init # None => vi - 1 \in 0 .. StackSize - 1
        BY <1>3, StackAssumption DEF IInv, StackGood
      <4> QED
        BY <4>1, GoodConstants DEF IInv, StackGood, Top
    <3>3. Flags'
      BY <2>1, <3>1 DEF IInv, Flags
    <3> HIDE DEF v
    <3> QED
      BY <1>1, <1>3, <2>1, <2>2, <3>1, <3>2, <3>3, DeclareStep
  <2> QED
    BY <2>3, <2>4
<1> QED
  BY <1>2, <1>3

(* A search ends in a frame that has the name, and finds a good value.     *)
LEMMA WhereHolds ==
    ASSUME IInv, NEW x, Holders(x) # {}
    PROVE  Where(x) \in 1 .. Depth /\ x \in DOMAIN locals[Where(x)]
<1>1. Depth \in Nat
  BY LenProperties DEF IInv, ScopeGood, Depth
<1>2. Holders(x) \in SUBSET (1 .. Depth) /\ Holders(x) \in SUBSET (0 .. Depth)
  BY <1>1 DEF Holders, InScope
<1>3. \E i \in Holders(x) : \A j \in Holders(x) : j <= i
  BY <1>1, <1>2, GreatestIndex
<1>4. Where(x) \in Holders(x)
  BY <1>3 DEF Where
<1> QED
  BY <1>2, <1>4 DEF Holders

(* What ident_lookup finds is a good value.                                *)
LEMMA ValueGood ==
    ASSUME IInv, NEW x, Found(x)
    PROVE  Good(ValueOf(x))
<1>1. CASE Holders(x) # {}
  <2>1. Where(x) \in 1 .. Len(locals) /\ x \in DOMAIN locals[Where(x)]
    BY <1>1, WhereHolds DEF IInv, ScopeGood, Depth
  <2> QED
    BY <1>1, <2>1 DEF ValueOf, IInv, ScopeGood, GoodNames
<1>2. CASE Holders(x) = {}
  BY <1>2 DEF Found, ValueOf, IInv, ScopeGood, GoodNames
<1> QED
  BY <1>1, <1>2

(* DeclareFun keeps the invariant.                                         *)
LEMMA DeclareFunGood == IInv /\ DeclareFun => IInv'
<1> SUFFICES ASSUME IInv, DeclareFun PROVE IInv'
  OBVIOUS
<1> DEFINE f       == Here.name
           caught  == CaptureSet(Here)
           missing == {x \in caught : ~Found(x)}
           env     == IF caught = {} THEN NoNames ELSE [x \in caught |-> ValueOf(x)]
<1>1. outcome = "run" /\ todo # <<>> /\ Here.kind = "fun"
  BY DEF DeclareFun, Visit, Turn
<1>2. CASE frames = <<>>
  BY <1>2, StopGood DEF DeclareFun
<1>3. CASE frames # <<>>
  <2>1. UNCHANGED <<stack, vi, frames, globals, outcome>>
    BY <1>3 DEF DeclareFun
  <2>2. StackGood'
    BY <2>1, StackSame DEF IInv
  <2>3. CASE ~Declarable(f, locals[Depth])
    <3>1. status' = "ERR" /\ todo' = Rest /\ UNCHANGED locals
      BY <1>3, <2>3 DEF DeclareFun, FailPre
    <3>2. UNCHANGED scope /\ Flags'
      BY <2>1, <3>1 DEF scope, IInv, Flags
    <3> QED
      BY <1>1, <2>2, <3>1, <3>2, QuietGood
  <2>4. CASE Declarable(f, locals[Depth]) /\ missing # {}
    <3>1. /\ locals' = [locals EXCEPT ![Depth] = AddName(locals[Depth], f, Freed)]
          /\ todo' = Rest /\ status' = "ERR"
      BY <1>3, <2>4 DEF DeclareFun, FailPre
    <3>2. Good(Freed) /\ Flags'
      BY <2>1, <3>1, GoodConstants DEF IInv, Flags
    <3> QED
      BY <1>1, <1>3, <2>1, <2>2, <3>1, <3>2, DeclareStep
  <2>5. CASE Declarable(f, locals[Depth]) /\ missing = {}
    <3>1. /\ locals' = [locals EXCEPT ![Depth] = AddName(locals[Depth], f, Fun(Here, env))]
          /\ todo' = Rest /\ UNCHANGED status
      BY <1>3, <2>5 DEF DeclareFun, Done
    <3>2. GoodNames(env)
      <4>1. CASE caught = {}
        BY <4>1, GoodConstants
      <4>2. CASE caught # {}
        <5>1. \A x \in caught : Good(ValueOf(x))
          BY <2>5, ValueGood
        <5> QED
          BY <4>2, <5>1 DEF GoodNames
      <4> QED
        BY <4>1, <4>2
    <3>3. Here \in Node
      BY <1>1, HeadItem
    <3> HIDE DEF env
    <3>4. Good(Fun(Here, env))
      BY <1>1, <3>2, <3>3, GoodFun
    <3>5. Flags'
      BY <2>1, <3>1 DEF IInv, Flags
    <3> QED
      BY <1>1, <1>3, <2>1, <2>2, <3>1, <3>4, <3>5, DeclareStep
  <2> QED
    BY <2>3, <2>4, <2>5
<1> QED
  BY <1>2, <1>3
(* Assign keeps the invariant.                                             *)
LEMMA AssignGood == IInv /\ Assign => IInv'
<1> SUFFICES ASSUME IInv, Assign PROVE IInv'
  OBVIOUS
<1> DEFINE x == Here.lhs.name
<1>1. /\ outcome = "run" /\ todo # <<>> /\ Here.kind = "binary"
      /\ UNCHANGED <<stack, vi, scope, outcome>>
  BY DEF Assign, Visit, Turn
<1>2. StackGood'
  BY <1>1, StackSame DEF IInv
<1>3. CASE ~(Here.lhs.kind = "ref" /\ Found(x))
  <2>1. status' = "ERR" /\ todo' = Rest
    BY <1>3 DEF Assign, FailPre
  <2>2. Flags'
    BY <1>1, <2>1 DEF IInv, Flags
  <2> QED
    BY <1>1, <1>2, <2>1, <2>2, QuietGood
<1>4. CASE Here.lhs.kind = "ref" /\ Found(x)
  <2> DEFINE a == Item("walk", Here.rhs, Depth, 0)
             b == Item("assigned", Here, Depth, Where(x))
             new == <<a, b>>
  <2>1. todo' = new \o Rest /\ UNCHANGED status
    BY <1>4 DEF Assign, Pre
  <2>2. Flags'
    BY <1>1, <2>1 DEF IInv, Flags
  <2>3. /\ Here \in Node /\ Here.rhs \in Node /\ Depth \in Nat
        /\ "walk" \in Ops /\ "assigned" \in Ops /\ 0 \in Nat
    BY <1>1, HeadItem, TreeAssumption DEF Ops, Waiting
  <2>4. /\ Where(x) \in Nat
        /\ IF Where(x) = 0 THEN x \in DOMAIN globals
           ELSE Where(x) <= Depth /\ x \in DOMAIN locals[Where(x)]
    <3>1. CASE Holders(x) = {}
      BY <1>4, <3>1 DEF Found, Where
    <3>2. CASE Holders(x) # {}
      BY <2>3, <3>2, WhereHolds
    <3> QED
      BY <3>1, <3>2
  <2>5. a \in TodoItem /\ a.op = "walk" /\ a.d = Depth
    BY <2>3, OneItem
  <2>6. /\ b \in TodoItem /\ b.op = "assigned" /\ b.d = Depth
        /\ b.node = Here /\ b.at = Where(x)
    BY <2>3, <2>4, OneItem
  <2>7. AliveItem(b, locals, globals)
    BY <2>4, <2>6 DEF AliveItem
  <2> HIDE DEF a, b
  <2>8. new \in Seq(TodoItem) /\ Len(new) = 2 /\ new[1] = a /\ new[2] = b
    BY <2>5, <2>6, TwoItems
  <2> HIDE DEF new
  <2>9. /\ \A i \in 1 .. Len(new) : new[i].d = Depth /\ AliveItem(new[i], locals, globals)
        /\ \A i \in 1 .. Len(new) : ~Pops(new[i])
    <3> SUFFICES ASSUME NEW i \in 1 .. Len(new)
                 PROVE  /\ new[i].d = Depth /\ AliveItem(new[i], locals, globals)
                        /\ ~Pops(new[i])
      OBVIOUS
    <3>1. new[i] = a \/ new[i] = b
      BY <2>8
    <3>2. AliveItem(a, locals, globals)
      BY <2>5 DEF AliveItem
    <3> QED
      BY <2>5, <2>6, <2>7, <3>1, <3>2 DEF Pops
  <2> QED
    BY <1>1, <1>2, <2>1, <2>2, <2>8, <2>9, LevelGood
<1> QED
  BY <1>3, <1>4

(* The variable of a finished assignment is where the item says.           *)
LEMMA AssignedGood == IInv /\ Assigned => IInv'
<1> SUFFICES ASSUME IInv, Assigned PROVE IInv'
  OBVIOUS
<1> DEFINE x == Here.lhs.name
           k == Head(todo).at
<1>1. outcome = "run" /\ todo # <<>> /\ Head(todo).op = "assigned"
  BY DEF Assigned, Turn
<1>2. CASE vi = 0
  BY <1>2, StopGood DEF Assigned
<1>3. CASE vi # 0
  <2>1. DropTo(vi - 1) /\ todo' = Rest /\ UNCHANGED <<frames, status, outcome>>
    BY <1>3 DEF Assigned, Done
  <2>2. vi - 1 \in 0 .. StackSize - 1
    BY <1>3, StackAssumption DEF IInv, StackGood
  <2>3. StackGood' /\ Flags' /\ Good(Top)
    BY <2>1, <2>2, DropToGood DEF IInv, Flags, StackGood, Top
  <2>4. CASE k = 0
    <3>1. globals' = [globals EXCEPT ![x] = Top] /\ UNCHANGED locals
      BY <1>3, <2>4 DEF Assigned
    <3>2. DOMAIN globals' = DOMAIN globals /\ GoodNames(globals')
      BY <2>3, <3>1 DEF IInv, ScopeGood, GoodNames
    <3>3. ScopeGood' /\ Depth' = Depth
      BY <2>1, <3>1, <3>2 DEF IInv, ScopeGood, Depth
    <3>4. Head(todo).d \in Int /\ Depth \in Nat /\ Head(todo).d <= Depth
      BY <1>1, HeadItem
    <3>5. \A i \in 1 .. Head(todo).d : DOMAIN locals[i] \subseteq DOMAIN locals'[i]
      BY <3>1
    <3>6. WalkGood'
      BY <1>1, <2>1, <3>2, <3>3, <3>4, <3>5, WalkShrinks
    <3> QED
      BY <2>3, <3>3, <3>6 DEF IInv
  <2>5. CASE k # 0
    <3> DEFINE names == [locals[k] EXCEPT ![x] = Top]
    <3>1. locals' = [locals EXCEPT ![k] = names] /\ UNCHANGED globals
      BY <1>3, <2>5 DEF Assigned
    <3>2. k \in 1 .. Depth
      BY <1>1, <2>5, HeadItem DEF AliveItem
    <3>3. DOMAIN names = DOMAIN locals[k]
      OBVIOUS
    <3>4. GoodNames(names)
      <4>1. GoodNames(locals[k])
        BY <3>2 DEF IInv, ScopeGood, Depth
      <4> QED
        BY <2>3, <4>1 DEF GoodNames
    <3> HIDE DEF names, k
    <3> QED
      BY <1>1, <2>1, <2>3, <3>1, <3>2, <3>3, <3>4, NamesStep
  <2> QED
    BY <2>4, <2>5
<1> QED
  BY <1>2, <1>3

---------------------------------------------------------------------------
(* Steps that push or pop frames.                                          *)

(* The first item gives way to others that count on a new frame.           *)
LEMMA NewFrameGood ==
    ASSUME IInv, outcome = "run", todo # <<>>, NEW kind \in {"function", "anonymous"},
           NEW names, GoodNames(names), PushFrame(kind, names), UNCHANGED globals,
           StackGood', Flags', NEW new \in Seq(TodoItem), todo' = new \o Rest,
           Ordered(new, Depth + 1), \A i \in 1 .. Len(new) : Depth <= new[i].d,
           \A i \in 1 .. Len(new) : Pops(new[i]) => new[i].d = Depth + 1,
           \A i \in 1 .. Len(new) : new[i].op \in {"walk", "post", "lazy", "return"}
    PROVE  IInv'
<1>1. /\ ScopeGood' /\ Depth' = Depth + 1
      /\ \A i \in 1 .. Depth : locals'[i] = locals[i]
  BY PushFrameGood DEF IInv
<1>2. Head(todo).d \in Int /\ Depth \in Nat /\ Head(todo).d <= Depth
  BY HeadItem
<1>3. Alive(new, locals', globals')
  BY DEF Alive, AliveItem
<1>4. /\ \A i \in 1 .. Head(todo).d : DOMAIN locals[i] \subseteq DOMAIN locals'[i]
      /\ DOMAIN globals \subseteq DOMAIN globals'
  BY <1>1, <1>2
<1>5. \A i \in 1 .. Len(new) : /\ Head(todo).d <= new[i].d
                               /\ Pops(new[i]) => Head(todo).d < new[i].d
  <2> SUFFICES ASSUME NEW i \in 1 .. Len(new)
               PROVE  Head(todo).d <= new[i].d /\ (Pops(new[i]) => Head(todo).d < new[i].d)
    OBVIOUS
  <2>1. new[i].d \in Nat
    BY ItemFields
  <2> QED
    BY <1>2, <2>1
<1>6. Ordered(new, Depth')
  BY <1>1
<1>7. Depth' \in Nat /\ Head(todo).d <= Depth'
  BY <1>1, <1>2
<1>8. WalkGood'
  BY <1>1, <1>3, <1>4, <1>5, <1>6, <1>7, WalkGrows
<1> QED
  BY <1>1, <1>8 DEF IInv

(* EnterBrace keeps the invariant.                                         *)
LEMMA EnterBraceGood == IInv /\ EnterBrace => IInv'
<1> SUFFICES ASSUME IInv, EnterBrace PROVE IInv'
  OBVIOUS
<1> DEFINE n == Depth + 1
           new == Visits(Here, n)
<1>1. /\ outcome = "run" /\ todo # <<>> /\ PushFrame("anonymous", NoNames)
      /\ UNCHANGED <<stack, vi, globals, status, outcome>> /\ todo' = new \o Rest
  BY DEF EnterBrace, Visit, Turn, Pre
<1>2. StackGood' /\ Flags'
  BY <1>1, StackSame DEF IInv, Flags
<1>3. Here \in Node /\ Depth \in Nat /\ n \in Nat
  BY <1>1, HeadItem
<1>4. /\ new \in Seq(TodoItem) /\ Len(new) \in Nat
      /\ \A i \in 1 .. Len(new) : new[i].d = n /\ new[i].op \in {"walk", "post"}
      /\ \A i \in 1 .. Len(new) - 1 : new[i].op = "walk"
  <2> HIDE DEF n
  <2> QED
    BY <1>3, ChildItems
<1> HIDE DEF new
<1>5. \A i \in 1 .. Len(new) - 1 : ~Pops(new[i])
  BY <1>4 DEF Pops
<1>6. Ordered(new, Depth + 1)
  <2>1. Ordered(new, n)
    <3> HIDE DEF n
    <3> QED
      BY <1>3, <1>4, <1>5, LevelOrdered
  <2> QED
    BY <2>1
<1>7. \A i \in 1 .. Len(new) : Depth <= new[i].d /\ new[i].d = Depth + 1
  BY <1>3, <1>4
<1>8. GoodNames(NoNames) /\ \A i \in 1 .. Len(new) : new[i].op \in {"walk", "post", "lazy", "return"}
  BY <1>4, GoodConstants
<1> QED
  BY <1>1, <1>2, <1>4, <1>6, <1>7, <1>8, NewFrameGood

(* The first item goes, and with it the frames it does not count on.       *)
LEMMA PopGood ==
    ASSUME IInv, outcome = "run", todo # <<>>, NEW d \in 0 .. Depth, PopTo(d),
           UNCHANGED globals, todo' = Rest, StackGood', Flags',
           NEW m \in Int, m = Head(todo).d \/ (Pops(Head(todo)) /\ m = Head(todo).d - 1),
           m <= d
    PROVE  IInv'
<1>1. GoodNames(globals')
  BY DEF IInv, ScopeGood
<1>2. /\ ScopeGood' /\ Depth' = d
      /\ \A i \in 1 .. d : locals'[i] = locals[i]
  BY <1>1, PopToGood DEF IInv
<1>3. Depth \in Nat
  BY HeadItem
<1>4. /\ Depth' \in Nat /\ m <= Depth'
      /\ \A i \in 1 .. m : DOMAIN locals[i] \subseteq DOMAIN locals'[i]
      /\ DOMAIN globals \subseteq DOMAIN globals'
  BY <1>2, <1>3
<1>5. WalkGood'
  BY <1>4, WalkShrinks
<1> QED
  BY <1>2, <1>5 DEF IInv

(* A visit that ends by popping the innermost frame keeps the invariant.   *)
LEMMA PopOneGood ==
    ASSUME IInv, outcome = "run", todo # <<>>, Pops(Head(todo)), PopOne
    PROVE  IInv'
<1> DEFINE d == IF Depth = 0 THEN 0 ELSE Depth - 1
           m == Head(todo).d - 1
<1>1. CASE FreesTwice(d)
  BY <1>1, StopGood DEF PopOne
<1>2. CASE ~FreesTwice(d)
  <2>1. PopTo(d) /\ todo' = Rest /\ UNCHANGED <<stack, vi, globals, status, outcome>>
    BY <1>2 DEF PopOne, Done
  <2>2. d \in 0 .. Depth /\ m \in Int /\ m = Head(todo).d - 1 /\ m <= d
    BY HeadItem
  <2>3. StackGood' /\ Flags'
    BY <2>1, StackSame DEF IInv, Flags
  <2> HIDE DEF d, m
  <2> QED
    BY <2>1, <2>2, <2>3, PopGood
<1> QED
  BY <1>1, <1>2

(* LazyDone keeps the invariant.                                           *)
LEMMA LazyDoneGood == IInv /\ LazyDone => IInv'
BY PopOneGood DEF LazyDone, Turn, Pops

(* LeaveBrace keeps the invariant.                                         *)
LEMMA LeaveBraceGood == IInv /\ LeaveBrace => IInv'
BY PopOneGood DEF LeaveBrace, Visit, Turn, Pops, Here
(* The end of a loop's body: the loop is over, or its condition is next.   *)
LEMMA LoopBodyGood == IInv /\ LoopBody => IInv'
<1> SUFFICES ASSUME IInv, LoopBody PROVE IInv'
  OBVIOUS
<1> DEFINE d == Head(todo).d
           a == Item("walk", Here.cond, d, 0)
           b == Item("loop_condition", Here, d, 0)
           new == <<a, b>>
<1>1. outcome = "run" /\ todo # <<>> /\ Head(todo).op = "loop_body"
  BY DEF LoopBody, Turn
<1>2. CASE FreesTwice(d)
  BY <1>2, StopGood DEF LoopBody
<1>3. CASE ~FreesTwice(d)
  <2>1. PopTo(d) /\ UNCHANGED <<stack, vi, globals, outcome>>
    BY <1>3 DEF LoopBody
  <2>2. d \in Nat /\ Depth \in Nat /\ d \in 0 .. Depth /\ d \in Int /\ d <= d
    BY <1>1, HeadItem
  <2>3. StackGood'
    BY <2>1, StackSame DEF IInv
  <2>4. CASE status = "BRK"
    <3>1. status' = "OK" /\ todo' = Rest
      BY <1>3, <2>4 DEF LoopBody, Done
    <3>2. Flags' /\ d = Head(todo).d
      BY <2>1, <3>1 DEF IInv, Flags
    <3> HIDE DEF d
    <3> QED
      BY <1>1, <2>1, <2>2, <2>3, <3>1, <3>2, PopGood
  <2>5. CASE status # "BRK"
    <3>1. UNCHANGED status /\ todo' = new \o Rest
      BY <1>3, <2>5 DEF LoopBody
    <3>2. Flags' /\ GoodNames(globals')
      BY <2>1, <3>1 DEF IInv, Flags, ScopeGood
    <3>3. /\ Here \in Node /\ Here.kind = "while" /\ Here.cond \in Node
          /\ "walk" \in Ops /\ "loop_condition" \in Ops /\ 0 \in Nat
      BY <1>1, HeadItem, TreeAssumption DEF Ops, Waiting, AliveItem, Here
    <3>4. a \in TodoItem /\ a.op = "walk" /\ a.d = d
      <4> HIDE DEF d
      <4> QED
        BY <2>2, <3>3, OneItem
    <3>5. b \in TodoItem /\ b.op = "loop_condition" /\ b.d = d /\ b.node = Here
      <4> HIDE DEF d
      <4> QED
        BY <2>2, <3>3, OneItem
    <3>6. /\ ScopeGood' /\ Depth' = d
          /\ \A i \in 1 .. d : locals'[i] = locals[i]
      <4> HIDE DEF d
      <4> QED
        BY <2>1, <2>2, <3>2, PopToGood DEF IInv
    <3> HIDE DEF a, b
    <3>7. new \in Seq(TodoItem) /\ Len(new) = 2 /\ new[1] = a /\ new[2] = b
      BY <3>4, <3>5, TwoItems
    <3> HIDE DEF new
    <3>8. \A i \in 1 .. Len(new) : /\ new[i].d = d /\ ~Pops(new[i])
                                   /\ AliveItem(new[i], locals', globals')
      <4> SUFFICES ASSUME NEW i \in 1 .. Len(new)
                   PROVE  /\ new[i].d = d /\ ~Pops(new[i])
                          /\ AliveItem(new[i], locals', globals')
        OBVIOUS
      <4>1. new[i] = a \/ new[i] = b
        BY <3>7
      <4> QED
        BY <3>3, <3>4, <3>5, <4>1 DEF Pops, AliveItem
    <3>9. Ordered(new, d)
      <4> HIDE DEF d
      <4>1. \A i \in 1 .. Len(new) - 1 : ~Pops(new[i])
        BY <3>7, <3>8
      <4> QED
        BY <2>2, <3>7, <3>8, <4>1, LevelOrdered
    <3>10. /\ Depth' \in Nat /\ Head(todo).d <= Depth' /\ Ordered(new, Depth')
           /\ Alive(new, locals', globals')
           /\ \A i \in 1 .. Head(todo).d : DOMAIN locals[i] \subseteq DOMAIN locals'[i]
           /\ DOMAIN globals \subseteq DOMAIN globals'
           /\ \A i \in 1 .. Len(new) : /\ Head(todo).d <= new[i].d
                                       /\ Pops(new[i]) => Head(todo).d < new[i].d
      BY <2>1, <2>2, <3>6, <3>8, <3>9 DEF Alive
    <3>11. WalkGood'
      BY <1>1, <3>1, <3>7, <3>10, WalkGrows
    <3> QED
      BY <2>3, <3>2, <3>6, <3>11 DEF IInv
  <2> QED
    BY <2>4, <2>5
<1> QED
  BY <1>2, <1>3

(* Two items of which the first counts on a new frame.                     *)
LEMMA NewFramePairGood ==
    ASSUME IInv, outcome = "run", todo # <<>>,
           NEW names, GoodNames(names), PushFrame("function", names), UNCHANGED globals,
           StackGood', Flags', NEW n \in Node,
           NEW op \in {"lazy", "return"}, NEW d \in Nat, NEW at \in Nat,
           d = Depth + 1 \/ (d = Depth /\ op = "return"),
           todo' = <<Item("walk", n, Depth + 1, 0), Item(op, Here, d, at)>> \o Rest
    PROVE  IInv'
<1> DEFINE a == Item("walk", n, Depth + 1, 0)
           b == Item(op, Here, d, at)
           new == <<a, b>>
<1>1. /\ Here \in Node /\ Depth \in Nat /\ Depth + 1 \in Nat /\ 0 \in Nat
      /\ "walk" \in Ops /\ op \in Ops
  BY HeadItem DEF Ops, Waiting
<1>2. a \in TodoItem /\ a.op = "walk" /\ a.d = Depth + 1
  BY <1>1, OneItem
<1>3. b \in TodoItem /\ b.op = op /\ b.d = d
  BY <1>1, OneItem
<1> HIDE DEF a, b
<1>4. new \in Seq(TodoItem) /\ Len(new) = 2 /\ new[1] = a /\ new[2] = b
  BY <1>2, <1>3, TwoItems
<1>5. todo' = new \o Rest
  BY DEF a, b
<1> HIDE DEF new
<1>6. \A i \in 1 .. Len(new) : (i = 1 /\ new[i] = a) \/ (i = 2 /\ new[i] = b)
  <2>1. \A i \in 1 .. 2 : i = 1 \/ i = 2
    OBVIOUS
  <2> QED
    BY <1>4, <2>1
<1>7. ~Pops(a) /\ (Pops(b) => d = Depth + 1)
  BY <1>2, <1>3 DEF Pops
<1>8. Ordered(new, Depth + 1)
  BY <1>1, <1>2, <1>3, <1>6, <1>7 DEF Ordered
<1>9. \A i \in 1 .. Len(new) : /\ Depth <= new[i].d
                               /\ Pops(new[i]) => new[i].d = Depth + 1
                               /\ new[i].op \in {"walk", "post", "lazy", "return"}
  BY <1>1, <1>2, <1>3, <1>6, <1>7
<1> QED
  BY <1>4, <1>5, <1>8, <1>9, NewFrameGood

(* Reference keeps the invariant.                                          *)
LEMMA ReferenceGood == IInv /\ Reference => IInv'
<1> SUFFICES ASSUME IInv, Reference PROVE IInv'
  OBVIOUS
<1> DEFINE x == Here.name
<1>1. outcome = "run" /\ todo # <<>>
  BY DEF Reference, Visit, Turn
<1>2. CASE x = "print"
  BY <1>1, <1>2, PushGood, GoodConstants DEF Reference
<1>3. CASE x # "print" /\ ~Found(x)
  <2>1. status' = "ERR" /\ todo' = Unwind(Rest) /\ UNCHANGED <<stack, vi, scope, outcome>>
    BY <1>3 DEF Reference, FailPost
  <2>2. StackGood' /\ Flags'
    BY <2>1, StackSame DEF IInv, Flags
  <2> QED
    BY <1>1, <2>1, <2>2, QuietGood
<1>4. CASE x # "print" /\ Found(x) /\ ValueOf(x).kind # "lazy"
  <2>1. Push(ValueOf(x)) /\ Good(ValueOf(x))
    BY <1>4, ValueGood DEF Reference
  <2> QED
    BY <1>1, <2>1, PushGood
<1>5. CASE x # "print" /\ Found(x) /\ ValueOf(x).kind = "lazy"
  <2>1. /\ PushFrame("function", NoNames)
        /\ todo' = <<Item("walk", ValueOf(x).expr, Depth + 1, 0),
                     Item("lazy", Here, Depth + 1, 0)>> \o Rest
        /\ UNCHANGED <<stack, vi, globals, status, outcome>>
    BY <1>5 DEF Reference, Pre
  <2>2. ValueOf(x).expr \in Node /\ GoodNames(NoNames)
    BY <1>5, ValueGood, GoodParts, GoodConstants
  <2>3. StackGood' /\ Flags'
    BY <2>1, StackSame DEF IInv, Flags
  <2>4. Depth + 1 \in Nat /\ 0 \in Nat
    BY <1>1, HeadItem
  <2> QED
    BY <1>1, <2>1, <2>2, <2>3, <2>4, NewFramePairGood
<1> QED
  BY <1>2, <1>3, <1>4, <1>5

(* TopDecl keeps the invariant.                                            *)
LEMMA TopDeclGood == IInv /\ TopDecl => IInv'
<1> SUFFICES ASSUME IInv, TopDecl PROVE IInv'
  OBVIOUS
<1> DEFINE d == Head(todo).d
           new == Walks(<<Here>>, d)
<1>1. /\ outcome = "run" /\ todo # <<>> /\ UNCHANGED <<stack, vi, scope, status, outcome>>
      /\ todo' = Rest \/ todo' = new \o Rest
  BY DEF TopDecl, Turn, Done, Pre
<1>2. StackGood' /\ Flags'
  BY <1>1, StackSame DEF IInv, Flags
<1>3. ScopeGood' /\ Depth' = Depth
  BY <1>1, ScopeSame DEF IInv
<1>4. CASE todo' = Rest
  BY <1>1, <1>2, <1>4, QuietGood DEF scope
<1>5. CASE todo' = new \o Rest
  <2>1. Here \in Node /\ d \in Nat /\ Depth \in Nat /\ d <= Depth /\ <<Here>> \in Seq(Node)
    BY <1>1, HeadItem
  <2>2. /\ new \in Seq(TodoItem)
        /\ \A i \in 1 .. Len(new) : new[i].op = "walk" /\ new[i].d = d
    <3> HIDE DEF d
    <3> QED
      BY <2>1, WalksItems
  <2> HIDE DEF new
  <2>3. \A i \in 1 .. Len(new) : /\ ~Pops(new[i]) /\ d <= new[i].d
                                 /\ AliveItem(new[i], locals', globals')
    BY <2>1, <2>2 DEF Pops, AliveItem
  <2>4. Ordered(new, Depth') /\ Alive(new, locals', globals')
    BY <1>3, <2>1, <2>2, <2>3 DEF Ordered, Alive
  <2>5. /\ \A i \in 1 .. Head(todo).d : DOMAIN locals[i] \subseteq DOMAIN locals'[i]
        /\ DOMAIN globals \subseteq DOMAIN globals'
    BY <1>1 DEF scope
  <2>6. Depth' \in Nat /\ Head(todo).d <= Depth'
    BY <1>3, <2>1
  <2>7. WalkGood'
    BY <1>1, <1>5, <2>2, <2>3, <2>4, <2>5, <2>6, WalkGrows
  <2> QED
    BY <1>2, <1>3, <2>7 DEF IInv
<1> QED
  BY <1>1, <1>4, <1>5
---------------------------------------------------------------------------
(* Calls.                                                                  *)

(* The last parameter refused is one of the parameters, or none.           *)
LEMMA LastRefusedIn ==
    ASSUME NEW ps, Len(ps) \in Nat
    PROVE  LastRefused(ps) \in 0 .. Len(ps)
<1>1. RefusedParams(ps) \in SUBSET (0 .. Len(ps)) /\ RefusedParams(ps) \in SUBSET (1 .. Len(ps))
  BY DEF RefusedParams
<1>2. CASE RefusedParams(ps) = {}
  BY <1>2 DEF LastRefused
<1>3. CASE RefusedParams(ps) # {}
  <2>1. \E j \in RefusedParams(ps) : \A k \in RefusedParams(ps) : k <= j
    BY <1>1, <1>3, GreatestIndex
  <2>2. LastRefused(ps) \in RefusedParams(ps)
    BY <1>3, <2>1 DEF LastRefused
  <2> QED
    BY <1>1, <2>2
<1> QED
  BY <1>2, <1>3

(* The parameters get values of the stack, when the lowest of their slots  *)
(* is on it.                                                               *)
LEMMA BoundGood ==
    ASSUME StackGood, NEW ps, Len(ps) \in Nat,
           ParamSlot(ps, IF LastRefused(ps) = 0 THEN 1 ELSE LastRefused(ps)) >= 0
    PROVE  GoodNames(Bound(ps))
<1> DEFINE js == LastRefused(ps) + 1 .. Len(ps)
<1>1. LastRefused(ps) \in 0 .. Len(ps)
  BY LastRefusedIn
<1>2. \A j \in js : ParamSlot(ps, j) \in 0 .. StackSize - 1
  BY <1>1, StackAssumption DEF ParamSlot, StackGood
<1> HIDE DEF js
<1>3. \A x \in {ps[j] : j \in js} : (CHOOSE j \in js : ps[j] = x) \in js
  OBVIOUS
<1>4. \A x \in {ps[j] : j \in js} : Good(stack[ParamSlot(ps, CHOOSE j \in js : ps[j] = x)])
  BY <1>2, <1>3 DEF StackGood
<1>5. Bound(ps) = [x \in {ps[j] : j \in js} |->
                     stack[ParamSlot(ps, CHOOSE j \in js : ps[j] = x)]]
  BY DEF Bound, js
<1> QED
  BY <1>4, <1>5 DEF GoodNames

(* CallFunction keeps the invariant.                                       *)
LEMMA CallFunctionGood == IInv /\ CallFunction => IInv'
<1> SUFFICES ASSUME IInv, CallFunction PROVE IInv'
  OBVIOUS
<1> DEFINE c    == CalleeSlot
           f    == stack[c]
           ps   == f.decl.params
           low  == ParamSlot(ps, IF LastRefused(ps) = 0 THEN 1 ELSE LastRefused(ps))
           args == [j \in DOMAIN stack |-> IF low <= j /\ j < vi THEN Junk ELSE stack[j]]
           bad  == low < 0 \/ (LastRefused(ps) = 0 /\ low <= c /\ f.env # NoNames)
<1>1. /\ outcome = "run" /\ todo # <<>> /\ Here.kind = "apply" /\ KindAt(c) = "function"
  BY DEF CallFunction, Visit, Turn
<1>2. CASE bad
  BY <1>2, StopGood DEF CallFunction
<1>3. CASE ~bad
  <2>1. stack' = args /\ UNCHANGED <<globals, outcome>>
    BY <1>3 DEF CallFunction
  <2>2. Len(Here.args) \in Nat
    <3>1. Here.args \in Seq(Node)
      BY <1>1, HeadItem, TreeAssumption
    <3> QED
      BY <3>1, LenProperties
  <2>3. c \in 0 .. StackSize - 1 /\ f.kind = "function"
    <3>1. c \in Int
      BY <2>2 DEF CalleeSlot, IInv, StackGood
    <3>2. c \in 0 .. StackSize - 1
      BY <1>1, <3>1, SlotInside
    <3> QED
      BY <1>1, <3>2, StackAssumption DEF KindAt
  <2>4. Good(f)
    BY <2>3 DEF IInv, StackGood
  <2>5. f.decl \in Node /\ f.decl.kind = "fun" /\ GoodNames(f.env)
    BY <2>3, <2>4, GoodParts
  <2>6. Len(ps) \in Nat /\ f.decl.body \in Node
    <3>1. ps \in Seq(STRING) /\ f.decl.body \in Node
      BY <2>5, TreeAssumption
    <3> QED
      BY <3>1, LenProperties
  <2>7. low >= 0
    <3>1. low \in Int
      BY <2>6, LastRefusedIn DEF ParamSlot, IInv, StackGood
    <3> QED
      BY <1>3, <3>1
  <2>8. GoodNames(Bound(ps))
    <3> HIDE DEF f
    <3> QED
      BY <2>6, <2>7, BoundGood DEF IInv
  <2>9. /\ DOMAIN stack' = 0 .. StackSize - 1
        /\ \A i \in 0 .. StackSize - 1 : Good(stack'[i])
    <3>1. Good(Junk)
      BY GoodConstants
    <3> HIDE DEF low
    <3> QED
      BY <2>1, <3>1 DEF IInv, StackGood
  <2>10. CASE LastRefused(ps) # 0
    <3>1. /\ PushFrame("function", Bound(ps)) /\ UNCHANGED vi
          /\ status' = "ERR" /\ todo' = Unwind(Rest)
      BY <1>3, <2>10 DEF CallFunction, FailPost
    <3>2. StackGood' /\ Flags'
      BY <2>1, <2>9, <3>1 DEF IInv, StackGood, Flags
    <3>3. /\ ScopeGood' /\ Depth' = Depth + 1
          /\ \A i \in 1 .. Depth : locals'[i] = locals[i]
      <4> HIDE DEF f
      <4>1. "function" \in {"function", "anonymous"}
        OBVIOUS
      <4> QED
        BY <2>1, <2>8, <3>1, <4>1, PushFrameGood DEF IInv
    <3>4. Head(todo).d \in Int /\ Depth \in Nat /\ Head(todo).d <= Depth
      BY <1>1, HeadItem
    <3>5. /\ Depth' \in Nat /\ Head(todo).d <= Depth'
          /\ \A i \in 1 .. Head(todo).d : DOMAIN locals[i] \subseteq DOMAIN locals'[i]
          /\ DOMAIN globals \subseteq DOMAIN globals'
      BY <2>1, <3>3, <3>4
    <3>6. WalkGood'
      BY <1>1, <3>1, <3>4, <3>5, WalkShrinks
    <3> QED
      BY <3>2, <3>3, <3>6 DEF IInv
  <2>11. CASE LastRefused(ps) = 0
    <3> DEFINE names == Over(Bound(ps), f.env)
    <3>1. /\ PushFrame("function", names) /\ vi' = vi - Len(Here.args)
          /\ todo' = <<Item("walk", f.decl.body, Depth + 1, 0),
                       Item("return", Here, Depth, c)>> \o Rest
          /\ UNCHANGED status
      BY <1>3, <2>11 DEF CallFunction, Pre
    <3>2. vi' \in 0 .. StackSize - 1
      <4>1. vi \in 0 .. StackSize - 1 /\ c = vi - 1 - Len(Here.args)
        BY DEF CalleeSlot, IInv, StackGood
      <4>2. c >= 0 /\ vi' = vi - Len(Here.args)
        BY <2>3, <3>1
      <4> HIDE DEF c
      <4> QED
        BY <2>2, <4>1, <4>2, StackAssumption
    <3>3. StackGood' /\ Flags'
      BY <2>1, <2>9, <3>1, <3>2 DEF IInv, StackGood, Flags
    <3>4. GoodNames(names)
      <4> HIDE DEF f
      <4> QED
        BY <2>5, <2>8, GoodOver
    <3>5. Depth \in Nat /\ c \in Nat
      BY <1>1, <2>3, HeadItem, StackAssumption
    <3> HIDE DEF names, c, f
    <3> QED
      BY <1>1, <2>1, <2>6, <3>1, <3>3, <3>4, <3>5, NewFramePairGood
  <2> QED
    BY <2>10, <2>11
<1> QED
  BY <1>2, <1>3

(* Return keeps the invariant.                                             *)
LEMMA ReturnGood == IInv /\ Return => IInv'
<1> SUFFICES ASSUME IInv, Return PROVE IInv'
  OBVIOUS
<1> DEFINE d == Head(todo).d
           c == Head(todo).at
           dropped == [stack EXCEPT ![c] = Junk]
           bad == FreesTwice(d) \/ vi < 2
<1>1. outcome = "run" /\ todo # <<>>
  BY DEF Return, Turn
<1>2. CASE bad
  BY <1>2, StopGood DEF Return
<1>3. CASE ~bad
  <2>1. /\ PopTo(d) /\ todo' = Rest /\ vi' = vi - 1
        /\ stack' = [dropped EXCEPT ![vi - 2] = dropped[vi - 1], ![vi - 1] = Junk]
        /\ UNCHANGED <<globals, status, outcome>>
    BY <1>3 DEF Return, Done
  <2>2. vi \in 2 .. StackSize - 1
    BY <1>3 DEF IInv, StackGood
  <2>3. Good(Junk)
    BY GoodConstants
  <2>4. /\ DOMAIN dropped = 0 .. StackSize - 1
        /\ \A i \in 0 .. StackSize - 1 : Good(dropped[i])
    BY <2>3 DEF IInv, StackGood
  <2>5. Good(dropped[vi - 1])
    <3>1. vi - 1 \in 0 .. StackSize - 1
      BY <2>2, StackAssumption
    <3> HIDE DEF dropped
    <3> QED
      BY <2>4, <3>1
  <2>6. StackGood'
    <3> HIDE DEF dropped
    <3>1. DOMAIN stack' = 0 .. StackSize - 1 /\ vi' \in 0 .. StackSize - 1
      BY <2>1, <2>2, <2>4, StackAssumption
    <3>2. \A i \in 0 .. StackSize - 1 : Good(stack'[i])
      BY <2>1, <2>3, <2>4, <2>5
    <3> QED
      BY <3>1, <3>2 DEF StackGood
  <2>7. d \in 0 .. Depth /\ d \in Int /\ d <= d
    BY <1>1, HeadItem
  <2>8. Flags' /\ d = Head(todo).d
    BY <2>1 DEF IInv, Flags
  <2> HIDE DEF d
  <2> QED
    BY <1>1, <2>1, <2>6, <2>7, <2>8, PopGood
<1> QED
  BY <1>2, <1>3

---------------------------------------------------------------------------
(* The beginning and the end.                                              *)

(* Finish keeps the invariant.                                             *)
LEMMA FinishGood == IInv /\ Finish => IInv'
<1> SUFFICES ASSUME IInv, Finish PROVE IInv'
  OBVIOUS
<1>1. CASE FreesTwice(0)
  BY <1>1, StopGood DEF Finish
<1>2. CASE ~FreesTwice(0)
  <2>1. /\ outcome' = "done" /\ PopTo(0) /\ globals' = NoNames /\ vi' = 0
        /\ UNCHANGED <<todo, stack, status>>
    BY <1>2 DEF Finish
  <2>2. 0 \in 0 .. Depth
    BY LenProperties DEF IInv, ScopeGood, Depth
  <2>3. ScopeGood'
    BY <2>1, <2>2, GoodConstants, PopToGood DEF IInv
  <2>4. StackGood'
    BY <2>1, StackAssumption DEF IInv, StackGood
  <2>5. WalkGood' /\ Flags'
    BY <2>1 DEF IInv, WalkGood, Flags
  <2> QED
    BY <2>3, <2>4, <2>5 DEF IInv
<1> QED
  BY <1>1, <1>2

(* The table of globals that eval_program fills is good.                   *)
LEMMA InitialGlobalsGood ==
    ASSUME NEW p \in Seq(Node)
    PROVE  GoodNames(InitialGlobals(p))
<1> DEFINE xs == {p[i].name : i \in DeclaredIn(p)}
<1>1. /\ Len(p) \in Nat /\ DeclaredIn(p) \in SUBSET (1 .. Len(p))
      /\ \A i \in 1 .. Len(p) : p[i] \in Node
  BY LenProperties, ElementOfSeq DEF DeclaredIn
<1>2. ASSUME NEW i \in DeclaredIn(p) PROVE Good(GlobalValue(p[i]))
  <2>1. p[i] \in Node /\ p[i].kind \in {"var", "fun"}
    BY <1>1 DEF DeclaredIn
  <2>2. CASE p[i].kind = "fun"
    BY <2>1, <2>2, GoodFun, GoodConstants DEF GlobalValue
  <2>3. CASE p[i].kind = "var"
    <3>1. p[i].init = None \/ (p[i].init \in Node /\ IsExpr(p[i].init))
      BY <2>1, <2>3, TreeAssumption, GrammarAssumption
    <3> QED
      BY <2>3, <3>1, GoodLazy, GoodConstants DEF GlobalValue
  <2> QED
    BY <2>1, <2>2, <2>3
<1>3. ASSUME NEW x \in xs PROVE FirstOf(p, x) \in DeclaredIn(p)
  <2> DEFINE S == {i \in DeclaredIn(p) : p[i].name = x}
  <2>1. S \in SUBSET Nat /\ S # {}
    BY <1>1
  <2>2. \E i \in S : \A j \in S : i <= j
    <3> HIDE DEF S
    <3> QED
      BY <2>1, LeastIndex
  <2>3. \E i \in DeclaredIn(p) : p[i].name = x /\ \A j \in DeclaredIn(p) : p[j].name = x => i <= j
    BY <2>2
  <2> QED
    BY <2>3 DEF FirstOf
<1> QED
  BY <1>2, <1>3 DEF InitialGlobals, GoodNames

(* The invariant holds of every program before its first step.             *)
LEMMA InitGood == Init => IInv
<1> SUFFICES ASSUME Init PROVE IInv
  OBVIOUS
<1>1. prog \in Seq(Node) /\ Len(prog) \in Nat
  BY ProgramsAssumption, LenProperties DEF Init
<1>2. StackGood
  BY GoodConstants, StackAssumption DEF Init, StackGood
<1>3. ScopeGood
  <2>1. <<>> \in Seq(EvalFrame) /\ Len(<<>>) = 0 /\ IsSequence(<<>>)
    <3>1. <<>> \in Seq(EvalFrame) /\ Len(<<>>) = 0
      BY EmptySeq
    <3> QED
      BY <3>1, SeqIsSequence
  <2>2. frames = <<>> /\ locals = <<>> /\ globals = InitialGlobals(prog)
    BY DEF Init
  <2>3. GoodNames(globals)
    BY <1>1, <2>2, InitialGlobalsGood
  <2> QED
    BY <2>1, <2>2, <2>3 DEF ScopeGood
<1>4. WalkGood
  <2>1. Depth = 0
    BY EmptySeq DEF Init, Depth
  <2>2. todo = [i \in 1 .. Len(prog) |-> Item("decl", prog[i], 0, 0)]
    BY DEF Init
  <2>3. "decl" \in Ops /\ 0 \in Nat /\ \A i \in 1 .. Len(prog) : prog[i] \in Node
    BY <1>1, ElementOfSeq DEF Ops
  <2>4. \A i \in 1 .. Len(prog) : /\ Item("decl", prog[i], 0, 0) \in TodoItem
                                  /\ Item("decl", prog[i], 0, 0).op = "decl"
                                  /\ Item("decl", prog[i], 0, 0).d = 0
    BY <2>3, OneItem
  <2>5. todo \in Seq(TodoItem) /\ Len(todo) = Len(prog)
    BY <1>1, <2>2, <2>4
  <2>6. \A i \in 1 .. Len(todo) : todo[i].op = "decl" /\ todo[i].d = 0
    BY <2>2, <2>4, <2>5
  <2>7. Ordered(todo, Depth)
    BY <2>1, <2>6 DEF Ordered, Pops
  <2>8. Alive(todo, locals, globals)
    BY <2>6 DEF Alive, AliveItem
  <2> QED
    BY <2>5, <2>7, <2>8 DEF WalkGood
<1>5. Flags
  BY DEF Init, Flags
<1> QED
  BY <1>2, <1>3, <1>4, <1>5 DEF IInv

(* The invariant depends on the variables of the specification only.       *)
LEMMA StutterGood == IInv /\ UNCHANGED vars => IInv'
BY DEF IInv, StackGood, ScopeGood, WalkGood, Flags, Depth, vars

(* The invariant is preserved by every step.                               *)
LEMMA StepGood == IInv /\ [Next]_vars => IInv'
<1> SUFFICES ASSUME IInv, [Next]_vars PROVE IInv'
  OBVIOUS
<1>1. CASE TopDecl \/ SkipAfterError \/ UnwindAfterError \/ StatusAssertFails \/ Descend
           \/ Finish
  BY <1>1, TopDeclGood, SkipAfterErrorGood, UnwindAfterErrorGood, StatusAssertFailsGood,
     DescendGood, FinishGood
<1>2. CASE Statement
  BY <1>2, DeclareFunGood, DeclareVarGood, AssignGood, AssignedGood, EnterBraceGood,
     LeaveBraceGood, EnterIfGood, ConditionGood, BranchDoneGood, EnterWhileGood,
     LoopConditionGood, LoopBodyGood, ExprStmtGood, BreakGood, NextOrReturnGood, EndTopGood
     DEF Statement
<1>3. CASE Expression
  BY <1>3, LiteralGood, ReferenceGood, LazyDoneGood, UnaryOpGood, BinaryOpGood, ParenGood,
     CallPrintGood, CallFunctionGood, CallBadGood, ReturnGood
     DEF Expression
<1>4. CASE UNCHANGED vars
  BY <1>4, StutterGood
<1> QED
  BY <1>1, <1>2, <1>3, <1>4 DEF Next

(* Every reachable state satisfies the invariant.                          *)
THEOREM EvalInvariant == Spec => []IInv
  BY InitGood, StepGood, PTL DEF Spec

(* In every program, whatever errors it runs into, the value stack stays   *)
(* within its bounds (the assertions of eval.c 541 to 587), and each frame *)
(* has its table.                                                          *)
THEOREM StackIsBounded == Spec => []TypeOK
  BY EvalInvariant, IInvImplies, PTL

(* The frames that a block, a loop, a call, a lazy value or an assignment  *)
(* waits for are there when it goes on (eval.c 464, 762, 553, 826).        *)
THEOREM FramesAreKept == Spec => []FrameFloor
  BY EvalInvariant, IInvImplies, PTL

(* An assignment stores into a variable that still exists, whatever its    *)
(* right-hand side has done (eval.c 408 and 416).                          *)
THEOREM AssignedVariableLives == Spec => []LvalueAlive
  BY EvalInvariant, IInvImplies, PTL

---------------------------------------------------------------------------
(* What an error leaves: only the rest of a visit that waits for a nested  *)
(* walk acts, and it pops frames or stores into a variable.                *)
Silent == /\ status' = "ERR"
          /\ output' = output
          /\ Len(frames') <= Len(frames)
          /\ \A i \in 1 .. Len(locals') : DOMAIN locals'[i] = DOMAIN locals[i]

(* After an error, a step that leaves frames, tables and output alone is   *)
(* silent.                                                                 *)
LEMMA SilentScope ==
    ASSUME IInv, status = "ERR", UNCHANGED <<scope, status, output>>
    PROVE  Silent
<1>1. Len(frames) \in Nat
  BY LenProperties DEF IInv, ScopeGood
<1> QED
  BY <1>1 DEF Silent, scope

(* After an error, popping down to a frame is silent.                      *)
LEMMA SilentPop ==
    ASSUME IInv, status = "ERR", NEW d \in 0 .. Depth, PopTo(d), GoodNames(globals'),
           UNCHANGED <<status, output>>
    PROVE  Silent
<1>1. /\ ScopeGood' /\ Depth' = d
      /\ \A i \in 1 .. d : locals'[i] = locals[i]
  BY PopToGood DEF IInv
<1>2. Len(frames) \in Nat /\ Len(frames') = d /\ Len(locals') = d /\ d <= Len(frames)
  BY <1>1, LenProperties DEF IInv, ScopeGood, Depth
<1> QED
  BY <1>1, <1>2 DEF Silent

(* After an error, popping the innermost frame is silent.                  *)
LEMMA SilentPopOne == IInv /\ status = "ERR" /\ PopOne => Silent
<1> SUFFICES ASSUME IInv, status = "ERR", PopOne PROVE Silent
  OBVIOUS
<1> DEFINE d == IF Depth = 0 THEN 0 ELSE Depth - 1
<1>1. CASE FreesTwice(d)
  BY <1>1, SilentScope DEF PopOne, Stop, scope
<1>2. CASE ~FreesTwice(d)
  <2>1. PopTo(d) /\ UNCHANGED <<globals, status, output>>
    BY <1>2 DEF PopOne
  <2>2. d \in 0 .. Depth /\ GoodNames(globals')
    BY <2>1, LenProperties DEF IInv, ScopeGood, Depth
  <2> HIDE DEF d
  <2> QED
    BY <2>1, <2>2, SilentPop
<1> QED
  BY <1>1, <1>2

(* After an error, a waiting assignment adds no name and prints nothing.   *)
LEMMA SilentAssigned == IInv /\ status = "ERR" /\ Assigned => Silent
<1> SUFFICES ASSUME IInv, status = "ERR", Assigned PROVE Silent
  OBVIOUS
<1> DEFINE x == Here.lhs.name
           k == Head(todo).at
<1>1. outcome = "run" /\ todo # <<>> /\ Head(todo).op = "assigned"
  BY DEF Assigned, Turn
<1>2. CASE vi = 0
  BY <1>2, SilentScope DEF Assigned, Stop, scope
<1>3. CASE vi # 0
  <2>1. UNCHANGED <<frames, status, output>>
    BY <1>3 DEF Assigned
  <2>2. Len(frames) \in Nat
    BY LenProperties DEF IInv, ScopeGood
  <2>3. CASE k = 0
    <3>1. UNCHANGED locals
      BY <1>3, <2>3 DEF Assigned
    <3> QED
      BY <2>1, <2>2, <3>1 DEF Silent
  <2>4. CASE k # 0
    <3> DEFINE names == [locals[k] EXCEPT ![x] = Top]
    <3>1. locals' = [locals EXCEPT ![k] = names]
      BY <1>3, <2>4 DEF Assigned
    <3>2. ScopeGood'
      BY <1>1, AssignedGood DEF IInv
    <3>3. DOMAIN names = DOMAIN locals[k]
      OBVIOUS
    <3>4. Len(locals') = Len(locals) /\ DOMAIN locals = 1 .. Len(locals)
      BY <2>1, <3>2 DEF IInv, ScopeGood, IsSequence
    <3> HIDE DEF names
    <3>5. \A i \in 1 .. Len(locals') : DOMAIN locals'[i] = DOMAIN locals[i]
      BY <3>1, <3>3, <3>4
    <3> QED
      BY <2>1, <2>2, <3>5 DEF Silent
  <2> QED
    BY <2>3, <2>4
<1> QED
  BY <1>2, <1>3

(* After an error, a loop or a call that waits only pops frames.           *)
LEMMA SilentFrames ==
    ASSUME IInv, status = "ERR", LoopBody \/ Return
    PROVE  Silent
<1> DEFINE d == Head(todo).d
<1>1. outcome = "run" /\ todo # <<>>
  BY DEF LoopBody, Return, Turn
<1>2. d \in 0 .. Depth
  BY <1>1, HeadItem
<1>3. \/ UNCHANGED <<scope, status, output>>
      \/ PopTo(d) /\ UNCHANGED <<globals, status, output>>
  BY DEF LoopBody, Return, Stop, scope
<1>4. CASE UNCHANGED <<scope, status, output>>
  BY <1>4, SilentScope
<1>5. CASE PopTo(d) /\ UNCHANGED <<globals, status, output>>
  <2>1. GoodNames(globals')
    BY <1>5 DEF IInv, ScopeGood
  <2> HIDE DEF d
  <2> QED
    BY <1>2, <1>5, <2>1, SilentPop
<1> QED
  BY <1>3, <1>4, <1>5

(* After an error, eval_deinit keeps the status.                           *)
LEMMA SilentFinish == IInv /\ status = "ERR" /\ Finish => Silent
<1> SUFFICES ASSUME IInv, status = "ERR", Finish PROVE Silent
  OBVIOUS
<1>1. CASE FreesTwice(0)
  BY <1>1, SilentScope DEF Finish, Stop, scope
<1>2. CASE ~FreesTwice(0)
  <2>1. PopTo(0) /\ globals' = NoNames /\ UNCHANGED <<status, output>>
    BY <1>2 DEF Finish
  <2>2. 0 \in 0 .. Depth
    BY LenProperties DEF IInv, ScopeGood, Depth
  <2> QED
    BY <2>1, <2>2, GoodConstants, SilentPop
<1> QED
  BY <1>1, <1>2

(* Line 340 leaves no other visits to make.                                *)
LEMMA VisitsAfterError ==
    ASSUME status = "ERR", Next
    PROVE  \/ TopDecl \/ SkipAfterError \/ UnwindAfterError \/ Assigned \/ Condition
           \/ BranchDone \/ LoopCondition \/ LoopBody \/ LazyDone \/ Return \/ Finish
BY DEF Next, Statement, Expression, Visit, StatusAssertFails, Descend, DeclareFun, DeclareVar,
       Assign, EnterBrace, LeaveBrace, EnterIf, EnterWhile, ExprStmt, Break, NextOrReturn,
       EndTop, Literal, Reference, UnaryOp, BinaryOp, Paren, CallPrint, CallFunction, CallBad

(* After an error, every step is silent.                                   *)
LEMMA SilentStep == IInv /\ [Next]_vars /\ status = "ERR" => Silent
<1> SUFFICES ASSUME IInv, [Next]_vars, status = "ERR" PROVE Silent
  OBVIOUS
<1>1. CASE TopDecl \/ SkipAfterError \/ UnwindAfterError \/ BranchDone
  BY <1>1, SilentScope DEF TopDecl, SkipAfterError, UnwindAfterError, BranchDone
<1>2. CASE Condition \/ LoopCondition
  <2>1. UNCHANGED <<scope, output>> /\ (UNCHANGED status \/ status' = "ERR")
    BY <1>2 DEF Condition, LoopCondition, Decide, FailPre
  <2> QED
    BY <2>1, SilentScope
<1>3. CASE Assigned
  BY <1>3, SilentAssigned
<1>4. CASE LoopBody \/ Return
  BY <1>4, SilentFrames
<1>5. CASE LazyDone
  BY <1>5, SilentPopOne DEF LazyDone
<1>6. CASE Finish
  BY <1>6, SilentFinish
<1>7. CASE UNCHANGED vars
  BY <1>7, SilentScope DEF vars, scope
<1> QED
  BY <1>1, <1>2, <1>3, <1>4, <1>5, <1>6, <1>7, VisitsAfterError

(* In every program, an error that has been reported is followed by no     *)
(* output, no declaration and no new frame, and it stays the exit status.  *)
THEOREM ErrorsAreQuiet == Spec => QuietAfterError
<1>1. Spec => []IInv
  BY InitGood, StepGood, PTL DEF Spec
<1>2. IInv /\ [Next]_vars => [status = "ERR" => Silent]_vars
  BY SilentStep
<1>3. [](IInv) /\ [][Next]_vars => [][status = "ERR" => Silent]_vars
  BY <1>2, PTL
<1>4. Spec => [][status = "ERR" => Silent]_vars
  BY <1>1, <1>3, PTL DEF Spec
<1> QED
  BY <1>4 DEF QuietAfterError, Silent
---------------------------------------------------------------------------
(* Where a brk goes.  What it leaves ends with the items of the walk it    *)
(* stops, and the first one below that waits must be the loop's.           *)
BreaksInLoops == \E S \in SUBSET Node : LeftBy({"brk"}, S)
JumpsInLoops  == \E S \in SUBSET Node : LeftBy({"brk", "nxt"}, S)

(* Every `brk` and the blocks it leaves, and every `nxt` with those that   *)
(* one leaves when that is possible.                                       *)
Breaking == IF JumpsInLoops THEN CHOOSE S \in SUBSET Node : LeftBy({"brk", "nxt"}, S)
                            ELSE CHOOSE S \in SUBSET Node : LeftBy({"brk"}, S)

MayBreak(item) == item.op \in {"walk", "post"} /\ item.node \in Breaking

(* Of the items behind the i-th, the first that waits is that of a loop.   *)
CaughtBehind(s, i) ==
    \E k \in 1 .. Len(s) :
      /\ i < k
      /\ s[k].op = "loop_body"
      /\ \A j \in 1 .. Len(s) : i < j /\ j < k => s[j].op \notin Waiting

Caught(s) == \A i \in 1 .. Len(s) : MayBreak(s[i]) => CaughtBehind(s, i)

Held == status = "BRK" => todo # <<>> /\ Head(todo).op = "loop_body"

BreakInv == Caught(todo) /\ Held

(* A set that holds each `brk` and the blocks it leaves.                   *)
LEMMA BreakingIs == BreaksInLoops => Breaking \in SUBSET Node /\ LeftBy({"brk"}, Breaking)
<1>1. \A S : LeftBy({"brk", "nxt"}, S) => LeftBy({"brk"}, S)
  BY DEF LeftBy
<1> QED
  BY <1>1 DEF BreaksInLoops, JumpsInLoops, Breaking

(* And each `nxt`, when none leaves more than blocks of a loop's body.     *)
LEMMA JumpingIs ==
    ASSUME JumpsInLoops
    PROVE  BreaksInLoops /\ LeftBy({"brk", "nxt"}, Breaking)
<1>1. \A S : LeftBy({"brk", "nxt"}, S) => LeftBy({"brk"}, S)
  BY DEF LeftBy
<1> QED
  BY <1>1 DEF BreaksInLoops, JumpsInLoops, Breaking

(* The items without the first c of them.                                  *)
LEMMA CaughtShift ==
    ASSUME NEW t, NEW s, NEW c \in Nat, Len(t) \in Nat, Len(s) = Len(t) - c, Len(s) \in Nat,
           \A i \in 1 .. Len(s) : s[i] = t[c + i]
    PROVE  /\ Caught(t) => Caught(s)
           /\ CaughtBehind(t, c) => CaughtBehind(s, 0)
<1>1. ASSUME NEW i \in 0 .. Len(s), CaughtBehind(t, c + i)
      PROVE  CaughtBehind(s, i)
  <2> DEFINE b == c + i
  <2>1. PICK k \in 1 .. Len(t) : /\ b < k /\ t[k].op = "loop_body"
                                 /\ \A j \in 1 .. Len(t) : b < j /\ j < k => t[j].op \notin Waiting
    BY <1>1 DEF CaughtBehind
  <2>2. PICK l \in 1 .. Len(s) : l = k - c
    BY <2>1
  <2>3. i < l /\ s[l].op = "loop_body"
    <3>1. c + l = k
      BY <2>2
    <3> QED
      BY <2>1, <2>2, <3>1
  <2>4. ASSUME NEW j \in 1 .. Len(s), i < j, j < l
        PROVE  s[j].op \notin Waiting
    <3>1. PICK m \in 1 .. Len(t) : m = c + j
      OBVIOUS
    <3>2. b < m /\ m < k /\ s[j] = t[m]
      BY <2>2, <2>4, <3>1
    <3> QED
      BY <2>1, <3>2
  <2> QED
    BY <2>3, <2>4 DEF CaughtBehind
<1>2. ASSUME Caught(t), NEW i \in 1 .. Len(s), MayBreak(s[i])
      PROVE  CaughtBehind(s, i)
  <2>1. PICK m \in 1 .. Len(t) : m = c + i
    OBVIOUS
  <2>2. CaughtBehind(t, m)
    BY <1>2, <2>1 DEF Caught
  <2> QED
    BY <1>1, <2>1, <2>2
<1>3. CaughtBehind(t, c) => CaughtBehind(s, 0)
  <2>1. c + 0 = c /\ 0 \in 0 .. Len(s)
    OBVIOUS
  <2> QED
    BY <1>1, <2>1
<1> QED
  BY <1>2, <1>3 DEF Caught

(* What is under the first items is caught when all of it is.              *)
LEMMA SuffixCaught ==
    ASSUME NEW t \in Seq(TodoItem), NEW s, Suffix(s, t), Caught(t)
    PROVE  Caught(s)
<1>1. PICK k \in 1 .. Len(t) + 1 : s = SubSeq(t, k, Len(t))
  BY DEF Suffix
<1>2. Len(t) \in Nat
  BY LenProperties
<1>3. /\ Len(s) = Len(t) - k + 1
      /\ \A i \in 1 .. Len(t) - k + 1 : s[i] = t[k + i - 1]
  BY <1>1, SuffixItems
<1> DEFINE c == k - 1
<1>4. /\ c \in Nat /\ Len(s) = Len(t) - c /\ Len(s) \in Nat
      /\ \A i \in 1 .. Len(s) : s[i] = t[c + i]
  BY <1>2, <1>3
<1> HIDE DEF c
<1> QED
  BY <1>2, <1>4, CaughtShift

(* What is under the first item; and what catches that item is there.      *)
LEMMA TailCaught ==
    ASSUME NEW t \in Seq(TodoItem), t # <<>>, Caught(t)
    PROVE  /\ Caught(Tail(t))
           /\ MayBreak(Head(t)) => CaughtBehind(Tail(t), 0)
<1> DEFINE s == Tail(t)
<1>1. /\ Len(t) \in Nat /\ Len(t) >= 1 /\ Head(t) = t[1]
      /\ Len(s) = Len(t) - 1 /\ \A i \in 1 .. Len(t) - 1 : s[i] = t[i + 1]
  BY HeadTailProperties, LenProperties, EmptySeq
<1>2. Len(s) \in Nat /\ \A i \in 1 .. Len(s) : s[i] = t[1 + i]
  BY <1>1
<1> HIDE DEF s
<1>3. Caught(s) /\ (CaughtBehind(t, 1) => CaughtBehind(s, 0))
  BY <1>1, <1>2, CaughtShift
<1>4. MayBreak(Head(t)) => CaughtBehind(t, 1)
  BY <1>1 DEF Caught
<1> QED
  BY <1>3, <1>4 DEF s

(* The walk that a brk stops is that of a loop's body.                     *)
LEMMA UnwindCaught ==
    ASSUME NEW t \in Seq(TodoItem), CaughtBehind(t, 0)
    PROVE  Unwind(t) # <<>> /\ Head(Unwind(t)).op = "loop_body"
<1>1. PICK k \in 1 .. Len(t) : /\ t[k].op = "loop_body"
                               /\ \A j \in 1 .. Len(t) : j < k => t[j].op \notin Waiting
  BY DEF CaughtBehind
<1>2. k \in Stops(t) /\ \A j \in Stops(t) : k <= j
  BY <1>1 DEF Stops, Waiting
<1>3. \A i \in Stops(t) : (\A j \in Stops(t) : i <= j) => i = k
  BY <1>2 DEF Stops
<1>4. Unwind(t) = SubSeq(t, k, Len(t))
  BY <1>2, <1>3 DEF Unwind
<1>5. Len(t) \in Nat /\ k \in 1 .. Len(t) + 1
  BY LenProperties
<1> DEFINE s == SubSeq(t, k, Len(t))
<1>6. /\ s \in Seq(TodoItem) /\ Len(s) = Len(t) - k + 1
      /\ \A i \in 1 .. Len(t) - k + 1 : s[i] = t[k + i - 1]
  BY <1>5, SuffixItems
<1>7. s[1] = t[k] /\ Len(s) # 0
  BY <1>5, <1>6
<1> HIDE DEF s
<1>8. s # <<>> /\ Head(s) = s[1]
  BY <1>6, <1>7, HeadTailProperties, EmptySeq
<1> QED
  BY <1>1, <1>4, <1>7, <1>8 DEF s

(* New items in front: those that may break are caught among themselves,   *)
(* or by what caught the item they come from.                              *)
LEMMA ConcatCaught ==
    ASSUME NEW new \in Seq(TodoItem), NEW s \in Seq(TodoItem), Caught(s),
           \A i \in 1 .. Len(new) :
             MayBreak(new[i]) =>
               \/ CaughtBehind(new, i)
               \/ /\ CaughtBehind(s, 0)
                  /\ \A j \in 1 .. Len(new) : i < j => new[j].op \notin Waiting
    PROVE  Caught(new \o s)
<1> DEFINE u == new \o s
           a == Len(new)
           b == Len(s)
<1>1. /\ Len(u) = a + b /\ a \in Nat /\ b \in Nat
      /\ \A i \in 1 .. a + b : u[i] = IF i <= a THEN new[i] ELSE s[i - a]
  BY ConcatProperties, LenProperties
<1> HIDE DEF u
<1>2. \A i \in 1 .. a : i \in 1 .. a + b /\ u[i] = new[i]
  BY <1>1
<1>3. \A i \in 1 .. a + b : i > a => i - a \in 1 .. b /\ u[i] = s[i - a]
  BY <1>1
<1>4. ASSUME NEW i \in 0 .. b, CaughtBehind(s, i), NEW m \in 1 .. a + b,
             \/ m = a + i
             \/ i = 0 /\ m <= a /\ \A j \in 1 .. a : m < j => new[j].op \notin Waiting
      PROVE  CaughtBehind(u, m)
  <2>1. PICK k \in 1 .. b : /\ i < k /\ s[k].op = "loop_body"
                            /\ \A j \in 1 .. b : i < j /\ j < k => s[j].op \notin Waiting
    BY <1>4 DEF CaughtBehind
  <2>2. PICK l \in 1 .. a + b : l = a + k
    BY <1>1
  <2>3. m < l /\ u[l].op = "loop_body"
    <3>1. l > a /\ l - a = k
      BY <1>1, <2>2
    <3>2. u[l] = s[k]
      BY <1>3, <3>1
    <3> QED
      BY <1>1, <1>4, <2>1, <2>2, <3>2
  <2>4. ASSUME NEW j \in 1 .. a + b, m < j, j < l
        PROVE  u[j].op \notin Waiting
    <3>1. CASE j <= a
      <4>1. j \in 1 .. a /\ ~(m = a + i)
        BY <1>1, <2>4, <3>1
      <4> QED
        BY <1>2, <1>4, <2>4, <4>1
    <3>2. CASE j > a
      <4>1. PICK q \in 1 .. b : q = j - a
        BY <1>3, <3>2
      <4>2. i < q /\ q < k /\ u[j] = s[q]
        BY <1>1, <1>3, <1>4, <2>2, <2>4, <3>2, <4>1
      <4> QED
        BY <2>1, <4>2
    <3> QED
      BY <1>1, <3>1, <3>2
  <2> QED
    BY <1>1, <2>3, <2>4 DEF CaughtBehind
<1>5. ASSUME NEW i \in 1 .. a, CaughtBehind(new, i)
      PROVE  CaughtBehind(u, i)
  <2>1. PICK k \in 1 .. a : /\ i < k /\ new[k].op = "loop_body"
                            /\ \A j \in 1 .. a : i < j /\ j < k => new[j].op \notin Waiting
    BY <1>5 DEF CaughtBehind
  <2>2. k \in 1 .. a + b /\ u[k].op = "loop_body"
    BY <1>2, <2>1
  <2>3. ASSUME NEW j \in 1 .. a + b, i < j, j < k
        PROVE  u[j].op \notin Waiting
    <3>1. j \in 1 .. a
      BY <1>1, <2>3
    <3> QED
      BY <1>2, <2>1, <2>3, <3>1
  <2> QED
    BY <1>1, <2>1, <2>2, <2>3 DEF CaughtBehind
<1>6. ASSUME NEW m \in 1 .. a + b, MayBreak(u[m])
      PROVE  CaughtBehind(u, m)
  <2>1. CASE m <= a
    <3>1. m \in 1 .. a /\ MayBreak(new[m])
      BY <1>1, <1>2, <1>6, <2>1
    <3>2. CASE CaughtBehind(new, m)
      BY <1>5, <3>1, <3>2
    <3>3. CASE CaughtBehind(s, 0) /\ \A j \in 1 .. a : m < j => new[j].op \notin Waiting
      <4>1. 0 \in 0 .. b
        BY <1>1
      <4> QED
        BY <1>4, <2>1, <3>3, <4>1
    <3> QED
      BY <3>1, <3>2, <3>3
  <2>2. CASE m > a
    <3>1. PICK i \in 1 .. b : i = m - a
      BY <1>3, <2>2
    <3>2. CaughtBehind(s, i) /\ m = a + i /\ i \in 0 .. b
      BY <1>1, <1>3, <1>6, <2>2, <3>1 DEF Caught
    <3> QED
      BY <1>4, <3>2
  <2> QED
    BY <1>1, <2>1, <2>2
<1> QED
  BY <1>1, <1>6 DEF Caught, u

(* The program stops and its items stay.                                   *)
LEMMA StopBreak ==
    ASSUME BreakInv, NEW o, Stop(o)
    PROVE  BreakInv'
  BY DEF BreakInv, Held, Stop, Caught, CaughtBehind

(* Only the rest of a loop has its turn while a brk is on its way out.     *)
LEMMA NotHeld ==
    ASSUME BreakInv, NEW op, Turn(op), op # "loop_body"
    PROVE  todo # <<>> /\ status # "BRK"
  BY DEF BreakInv, Held, Turn

(* A visit that ends here, or cuts its walk short.                         *)
LEMMA FallsBreak ==
    ASSUME IInv, BreakInv, todo # <<>>, todo' = Rest \/ todo' = Unwind(Rest),
           status' # "BRK"
    PROVE  BreakInv'
<1>1. todo \in Seq(TodoItem) /\ Rest \in Seq(TodoItem)
  BY HeadItem DEF IInv, WalkGood
<1>2. Caught(Rest)
  BY <1>1, TailCaught DEF BreakInv, Rest
<1>3. Suffix(todo', Rest)
  BY <1>1, SelfSuffix, UnwindSuffix
<1> DEFINE s == todo'
<1>4. Suffix(s, Rest)
  BY <1>3
<1> HIDE DEF s
<1>5. Caught(s)
  BY <1>1, <1>2, <1>4, SuffixCaught
<1> QED
  BY <1>5 DEF BreakInv, Held, s, Caught, CaughtBehind

(* New items: each is caught by one of them, or as the item in turn was.   *)
LEMMA GrowsBreak ==
    ASSUME IInv, BreakInv, todo # <<>>, status' # "BRK",
           NEW new \in Seq(TodoItem), todo' = new \o Rest,
           \A i \in 1 .. Len(new) :
             MayBreak(new[i]) =>
               \/ CaughtBehind(new, i)
               \/ MayBreak(Head(todo)) /\ \A j \in 1 .. Len(new) : new[j].op \notin Waiting
    PROVE  BreakInv'
<1>1. todo \in Seq(TodoItem) /\ Rest \in Seq(TodoItem)
  BY HeadItem DEF IInv, WalkGood
<1>2. Caught(Rest) /\ (MayBreak(Head(todo)) => CaughtBehind(Rest, 0))
  BY <1>1, TailCaught DEF BreakInv, Rest
<1>3. Caught(new \o Rest)
  BY <1>1, <1>2, ConcatCaught
<1> DEFINE s == todo'
<1>4. Caught(s)
  BY <1>3
<1> HIDE DEF s
<1> QED
  BY <1>4 DEF BreakInv, Held, s, Caught, CaughtBehind

(* New items none of which may break.                                      *)
LEMMA PlainBreak ==
    ASSUME IInv, BreakInv, todo # <<>>, status' # "BRK",
           NEW new \in Seq(TodoItem), todo' = new \o Rest,
           \A i \in 1 .. Len(new) : ~MayBreak(new[i])
    PROVE  BreakInv'
  BY GrowsBreak

(* Expressions, and the nodes that no brk leaves.                          *)
LEMMA NotBreaking ==
    ASSUME BreaksInLoops, NEW n, IsExpr(n) \/ n.kind \notin {"brk", "nxt", "brace"}
    PROVE  n \notin Breaking
  BY BreakingIs DEF LeftBy, IsExpr, ExprKinds

(* The actions that put nothing on the list.                               *)
Falling ==
    \/ \E o : Stop(o)
    \/ \E op : /\ Turn(op) /\ op # "loop_body"
               /\ todo' = Rest \/ todo' = Unwind(Rest)
               /\ status' \in {status, "ERR"}

(* Such an action keeps the invariant.                                     *)
LEMMA FallingBreak ==
    ASSUME IInv, BreakInv, Falling
    PROVE  BreakInv'
<1>1. CASE \E o : Stop(o)
  BY <1>1, StopBreak
<1>2. CASE \E op : /\ Turn(op) /\ op # "loop_body"
                   /\ todo' = Rest \/ todo' = Unwind(Rest)
                   /\ status' \in {status, "ERR"}
  <2>1. PICK op : /\ Turn(op) /\ op # "loop_body"
                  /\ todo' = Rest \/ todo' = Unwind(Rest)
                  /\ status' \in {status, "ERR"}
    BY <1>2
  <2>2. todo # <<>> /\ status' # "BRK"
    BY <2>1, NotHeld
  <2> QED
    BY <2>1, <2>2, FallsBreak
<1> QED
  BY <1>1, <1>2 DEF Falling

(* The statements among them.                                              *)
LEMMA FallsStatements ==
    ASSUME DeclareFun \/ DeclareVar \/ Assigned \/ LeaveBrace \/ BranchDone \/ ExprStmt
           \/ NextOrReturn \/ EndTop
    PROVE  Falling
<1>1. CASE DeclareFun
  <2> DEFINE caught  == CaptureSet(Here)
             missing == {x \in caught : ~Found(x)}
  <2>1. CASE frames = <<>>
    BY <1>1, <2>1 DEF DeclareFun, Falling
  <2>2. CASE frames # <<>>
    <3>1. Turn("walk")
      BY <1>1 DEF DeclareFun, Visit
    <3>2. \/ FailPre
          \/ (Done /\ UNCHANGED status)
      BY <1>1, <2>2 DEF DeclareFun
    <3> QED
      BY <3>1, <3>2 DEF Falling, FailPre, Done
  <2> QED
    BY <2>1, <2>2
<1>2. CASE DeclareVar
  <2>1. Turn("post") /\ (Stop("undefined") \/ FailPost \/ (Done /\ UNCHANGED status))
    BY <1>2 DEF DeclareVar, Visit
  <2> QED
    BY <2>1 DEF Falling, FailPost, Done
<1>3. CASE Assigned
  <2>1. Turn("assigned") /\ (Stop("undefined") \/ (Done /\ UNCHANGED status))
    BY <1>3 DEF Assigned
  <2> QED
    BY <2>1 DEF Falling, Done
<1>4. CASE LeaveBrace
  <2>1. Turn("post") /\ (Stop("undefined") \/ (Done /\ UNCHANGED status))
    BY <1>4 DEF LeaveBrace, Visit, PopOne
  <2> QED
    BY <2>1 DEF Falling, Done
<1>5. CASE BranchDone
  <2>1. Turn("branch") /\ Done /\ UNCHANGED status
    BY <1>5 DEF BranchDone
  <2> QED
    BY <2>1 DEF Falling, Done
<1>6. CASE ExprStmt
  <2>1. Turn("post") /\ (Stop("undefined") \/ (Done /\ UNCHANGED status))
    BY <1>6 DEF ExprStmt, Visit
  <2> QED
    BY <2>1 DEF Falling, Done
<1>7. CASE NextOrReturn
  <2>1. Turn("post") /\ todo' = Unwind(Rest) /\ UNCHANGED status
    BY <1>7 DEF NextOrReturn, Visit
  <2> QED
    BY <2>1 DEF Falling
<1>8. CASE EndTop
  <2>1. Turn("post") /\ (Stop("abort") \/ (Done /\ UNCHANGED status))
    BY <1>8 DEF EndTop, Visit
  <2> QED
    BY <2>1 DEF Falling, Done
<1> QED
  BY <1>1, <1>2, <1>3, <1>4, <1>5, <1>6, <1>7, <1>8

(* A visit that pushes a value.                                            *)
LEMMA FallsPush ==
    ASSUME NEW v, NEW op, Turn(op), op # "loop_body", Push(v)
    PROVE  Falling
<1>1. Stop("abort") \/ (Done /\ UNCHANGED status)
  BY DEF Push
<1> QED
  BY <1>1 DEF Falling, Done

(* The expressions among them.                                             *)
LEMMA FallsExpressions ==
    ASSUME Literal \/ LazyDone \/ UnaryOp \/ BinaryOp \/ Paren \/ CallPrint \/ CallBad \/ Return
    PROVE  Falling
<1>1. CASE Literal
  <2>1. Turn("post") /\ Push(Here)
    BY <1>1 DEF Literal, Visit
  <2> QED
    BY <2>1, FallsPush
<1>2. CASE LazyDone
  <2>1. Turn("lazy") /\ (Stop("undefined") \/ (Done /\ UNCHANGED status))
    BY <1>2 DEF LazyDone, PopOne
  <2> QED
    BY <2>1 DEF Falling, Done
<1>3. CASE UnaryOp
  <2>1. Turn("post") /\ (Stop("undefined") \/ FailPost \/ (Done /\ UNCHANGED status))
    BY <1>3 DEF UnaryOp, Visit
  <2> QED
    BY <2>1 DEF Falling, FailPost, Done
<1>4. CASE BinaryOp
  <2>1. Turn("post") /\ (Stop("undefined") \/ FailPost \/ (Done /\ UNCHANGED status))
    BY <1>4 DEF BinaryOp, Visit
  <2> QED
    BY <2>1 DEF Falling, FailPost, Done
<1>5. CASE Paren
  <2>1. Turn("post") /\ Done /\ UNCHANGED status
    BY <1>5 DEF Paren, Visit
  <2> QED
    BY <2>1 DEF Falling, Done
<1>6. CASE CallPrint
  <2>1. Turn("post") /\ Done /\ UNCHANGED status
    BY <1>6 DEF CallPrint, Visit
  <2> QED
    BY <2>1 DEF Falling, Done
<1>7. CASE CallBad
  <2>1. Turn("post") /\ (Stop("undefined") \/ FailPost)
    BY <1>7 DEF CallBad, Visit
  <2> QED
    BY <2>1 DEF Falling, FailPost
<1>8. CASE Return
  <2>1. Turn("return") /\ (Stop("undefined") \/ (Done /\ UNCHANGED status))
    BY <1>8 DEF Return
  <2> QED
    BY <2>1 DEF Falling, Done
<1> QED
  BY <1>1, <1>2, <1>3, <1>4, <1>5, <1>6, <1>7, <1>8

(* The visits that meet an error or a brk.                                 *)
LEMMA FallsOthers ==
    ASSUME SkipAfterError \/ UnwindAfterError \/ StatusAssertFails
    PROVE  Falling
<1>1. CASE SkipAfterError
  <2>1. Turn("walk") /\ Done /\ UNCHANGED status
    BY <1>1 DEF SkipAfterError
  <2> QED
    BY <2>1 DEF Falling, Done
<1>2. CASE UnwindAfterError
  <2>1. Turn("post") /\ todo' = Unwind(Rest) /\ UNCHANGED status
    BY <1>2 DEF UnwindAfterError
  <2> QED
    BY <2>1 DEF Falling
<1>3. CASE StatusAssertFails
  BY <1>3 DEF StatusAssertFails, Falling
<1> QED
  BY <1>1, <1>2, <1>3

(* A nested walk in front of the rest of the visit that waits for it: none *)
(* of the two may break when the walk is of a node no brk leaves.          *)
LEMMA PairBreak ==
    ASSUME IInv, BreakInv, todo # <<>>, status' # "BRK",
           NEW n1 \in Node, n1 \notin Breaking, NEW op \in Waiting,
           NEW n2 \in Node, NEW d1 \in Nat, NEW d2 \in Nat, NEW at \in Nat,
           todo' = <<Item("walk", n1, d1, 0), Item(op, n2, d2, at)>> \o Rest
    PROVE  BreakInv'
<1> DEFINE a == Item("walk", n1, d1, 0)
           b == Item(op, n2, d2, at)
           new == <<a, b>>
<1>1. op \in Ops /\ "walk" \in Ops /\ 0 \in Nat /\ op \notin {"walk", "post"}
  BY DEF Ops, Waiting
<1>2. a \in TodoItem /\ a.node = n1
  BY <1>1, OneItem
<1>3. b \in TodoItem /\ b.op = op
  BY <1>1, OneItem
<1> HIDE DEF a, b
<1>4. new \in Seq(TodoItem) /\ Len(new) = 2 /\ new[1] = a /\ new[2] = b
  BY <1>2, <1>3, TwoItems
<1>5. todo' = new \o Rest
  BY DEF a, b
<1> HIDE DEF new
<1>6. ASSUME NEW i \in 1 .. Len(new)
      PROVE  ~MayBreak(new[i])
  <2>1. new[i] = a \/ new[i] = b
    BY <1>4
  <2> QED
    BY <1>1, <1>2, <1>3, <2>1 DEF MayBreak
<1> QED
  BY <1>4, <1>5, <1>6, PlainBreak

(* The right-hand side of an assignment holds no brk.                      *)
LEMMA AssignBreak == BreaksInLoops /\ IInv /\ BreakInv /\ Assign => BreakInv'
<1> SUFFICES ASSUME BreaksInLoops, IInv, BreakInv, Assign PROVE BreakInv'
  OBVIOUS
<1> DEFINE x == Here.lhs.name
<1>1. /\ Turn("walk") /\ todo # <<>> /\ outcome = "run" /\ Here.kind = "binary"
      /\ UNCHANGED scope
  BY DEF Assign, Visit, Turn
<1>2. todo # <<>> /\ status # "BRK"
  BY <1>1, NotHeld
<1>3. CASE ~(Here.lhs.kind = "ref" /\ Found(x))
  <2>1. status' = "ERR" /\ todo' = Rest
    BY <1>3 DEF Assign, FailPre
  <2> QED
    BY <1>1, <2>1, FallsBreak
<1>4. CASE Here.lhs.kind = "ref" /\ Found(x)
  <2>1. /\ todo' = <<Item("walk", Here.rhs, Depth, 0), Item("assigned", Here, Depth, Where(x))>>
                     \o Rest
        /\ UNCHANGED status
    BY <1>4 DEF Assign, Pre
  <2>2. Here \in Node /\ Here.rhs \in Node /\ Depth \in Nat /\ IsExpr(Here.rhs)
    BY <1>1, HeadItem, TreeAssumption, GrammarAssumption
  <2>3. Where(x) \in Nat
    <3>1. CASE Holders(x) = {}
      BY <3>1 DEF Where
    <3>2. CASE Holders(x) # {}
      BY <2>2, <3>2, WhereHolds
    <3> QED
      BY <3>1, <3>2
  <2>4. Here.rhs \notin Breaking /\ "assigned" \in Waiting
    BY <2>2, NotBreaking DEF Waiting
  <2> QED
    BY <1>1, <1>2, <2>1, <2>2, <2>3, <2>4, PairBreak
<1> QED
  BY <1>3, <1>4

(* The condition of an `if` holds no brk.                                  *)
LEMMA EnterIfBreak == BreaksInLoops /\ IInv /\ BreakInv /\ EnterIf => BreakInv'
<1> SUFFICES ASSUME BreaksInLoops, IInv, BreakInv, EnterIf PROVE BreakInv'
  OBVIOUS
<1>1. /\ Turn("walk") /\ todo # <<>> /\ UNCHANGED status /\ Here.kind = "if"
      /\ todo' = <<Item("walk", Here.cond, Depth, 0), Item("condition", Here, Depth, 0)>> \o Rest
  BY DEF EnterIf, Visit, Turn, Pre
<1>2. status' # "BRK"
  BY <1>1, NotHeld
<1>3. Here \in Node /\ Here.cond \in Node /\ Depth \in Nat /\ 0 \in Nat
  BY <1>1, HeadItem, TreeAssumption
<1>4. Here.cond \notin Breaking /\ "condition" \in Waiting
  BY <1>1, <1>3, BreakingIs DEF LeftBy, Waiting
<1> QED
  BY <1>1, <1>2, <1>3, <1>4, PairBreak

(* The condition of a loop holds none either.                              *)
LEMMA EnterWhileBreak == BreaksInLoops /\ IInv /\ BreakInv /\ EnterWhile => BreakInv'
<1> SUFFICES ASSUME BreaksInLoops, IInv, BreakInv, EnterWhile PROVE BreakInv'
  OBVIOUS
<1>1. /\ Turn("walk") /\ todo # <<>> /\ UNCHANGED status /\ Here.kind = "while"
      /\ todo' = <<Item("walk", Here.cond, Depth, 0), Item("loop_condition", Here, Depth, 0)>>
                   \o Rest
  BY DEF EnterWhile, LoopHead, Visit, Turn, Pre
<1>2. status' # "BRK"
  BY <1>1, NotHeld
<1>3. Here \in Node /\ Here.cond \in Node /\ Depth \in Nat /\ 0 \in Nat
  BY <1>1, HeadItem, TreeAssumption
<1>4. Here.cond \notin Breaking /\ "loop_condition" \in Waiting
  BY <1>1, <1>3, BreakingIs DEF LeftBy, Waiting
<1> QED
  BY <1>1, <1>2, <1>3, <1>4, PairBreak

(* The visits of a condition leave a status they found, or report an error. *)
LEMMA DecideStatus ==
    ASSUME NEW T, NEW F, Decide(T, F)
    PROVE  status' \in {status, "ERR"}
  BY DEF Decide, FailPre

(* A branch is walked only where no brk leaves it.                         *)
LEMMA ConditionBreak == BreaksInLoops /\ IInv /\ BreakInv /\ Condition => BreakInv'
<1> SUFFICES ASSUME BreaksInLoops, IInv, BreakInv, Condition PROVE BreakInv'
  OBVIOUS
<1> DEFINE F == IF Here.else = None THEN <<>> ELSE BranchOf(Here.else)
<1>1. /\ Turn("condition") /\ outcome = "run" /\ todo # <<>> /\ Head(todo).op = "condition"
      /\ Decide(BranchOf(Here.then), F)
  BY DEF Condition, Turn
<1>2. /\ Here \in Node /\ Here.kind = "if" /\ Rest \in Seq(TodoItem) /\ Depth \in Nat
      /\ Here.then \in Node /\ Here.else \in Node \cup {None}
  BY <1>1, HeadItem, TreeAssumption DEF AliveItem, Here
<1>3. Here.then \notin Breaking /\ Here.else \notin Breaking
  BY <1>2, BreakingIs DEF LeftBy
<1> HIDE DEF F
<1>4. todo' = Rest \/ todo' = BranchOf(Here.then) \o Rest \/ todo' = F \o Rest
  BY <1>1, DecideParts
<1>5. status' # "BRK"
  <2>1. status' \in {status, "ERR"}
    BY <1>1, DecideStatus
  <2> QED
    BY <1>1, <2>1, NotHeld
<1>6. CASE todo' = Rest
  BY <1>1, <1>5, <1>6, FallsBreak
<1>7. ASSUME NEW n \in Node, n \notin Breaking, todo' = BranchOf(n) \o Rest PROVE BreakInv'
  <2>1. "branch" \in Waiting /\ 0 \in Nat
    BY DEF Waiting
  <2> QED
    BY <1>1, <1>2, <1>5, <1>7, <2>1, PairBreak DEF BranchOf
<1>8. CASE todo' = F \o Rest
  <2>1. CASE Here.else = None
    <3>1. todo' = Rest
      BY <1>2, <1>8, <2>1, ConcatEmptySeq DEF F
    <3> QED
      BY <1>6, <3>1
  <2>2. CASE Here.else # None
    BY <1>2, <1>3, <1>7, <1>8, <2>2 DEF F
  <2> QED
    BY <2>1, <2>2
<1> QED
  BY <1>2, <1>3, <1>4, <1>6, <1>7, <1>8

(* The body of a loop is walked in front of the item that catches a brk.   *)
LEMMA LoopConditionBreak == IInv /\ BreakInv /\ LoopCondition => BreakInv'
<1> SUFFICES ASSUME IInv, BreakInv, LoopCondition PROVE BreakInv'
  OBVIOUS
<1> DEFINE a == Item("walk", Here.body, Depth, 0)
           b == Item("loop_body", Here, Depth, 0)
           new == <<a, b>>
<1>1. /\ Turn("loop_condition") /\ outcome = "run" /\ todo # <<>>
      /\ Head(todo).op = "loop_condition" /\ Decide(new, <<>>)
  BY DEF LoopCondition, Turn
<1>2. /\ Here \in Node /\ Here.kind = "while" /\ Here.body \in Node /\ Depth \in Nat
      /\ Rest \in Seq(TodoItem) /\ 0 \in Nat /\ {"walk", "loop_body"} \subseteq Ops
  BY <1>1, HeadItem, TreeAssumption DEF AliveItem, Here, Ops, Waiting
<1>3. a \in TodoItem
  BY <1>2, OneItem
<1>4. b \in TodoItem /\ b.op = "loop_body"
  BY <1>2, OneItem
<1> HIDE DEF a, b
<1>5. new \in Seq(TodoItem) /\ Len(new) = 2 /\ new[1] = a /\ new[2] = b
  BY <1>3, <1>4, TwoItems
<1> HIDE DEF new
<1>6. todo' = Rest \/ todo' = new \o Rest
  <2>1. todo' = Rest \/ todo' = new \o Rest \/ todo' = <<>> \o Rest
    BY <1>1, DecideParts
  <2>2. <<>> \o Rest = Rest
    BY <1>2, ConcatEmptySeq
  <2> QED
    BY <2>1, <2>2
<1>7. status' # "BRK"
  <2>1. status' \in {status, "ERR"}
    BY <1>1, DecideStatus
  <2> QED
    BY <1>1, <2>1, NotHeld
<1>8. CASE todo' = Rest
  BY <1>1, <1>7, <1>8, FallsBreak
<1>9. CASE todo' = new \o Rest
  <2>1. ASSUME NEW i \in 1 .. Len(new), MayBreak(new[i])
        PROVE  CaughtBehind(new, i)
    <3>1. i = 1
      BY <1>4, <1>5, <2>1 DEF MayBreak
    <3> QED
      BY <1>4, <1>5, <3>1 DEF CaughtBehind
  <2> QED
    BY <1>1, <1>5, <1>7, <1>9, <2>1, GrowsBreak
<1> QED
  BY <1>6, <1>8, <1>9

(* The rest of a loop takes the status of a brk away, and the walk of the  *)
(* condition holds none.                                                   *)
LEMMA LoopBodyBreak == BreaksInLoops /\ IInv /\ BreakInv /\ LoopBody => BreakInv'
<1> SUFFICES ASSUME BreaksInLoops, IInv, BreakInv, LoopBody PROVE BreakInv'
  OBVIOUS
<1> DEFINE d == Head(todo).d
<1>1. outcome = "run" /\ todo # <<>> /\ Head(todo).op = "loop_body"
  BY DEF LoopBody, Turn
<1>2. CASE FreesTwice(d)
  <2>1. Stop("undefined")
    BY <1>2 DEF LoopBody
  <2> QED
    BY <2>1, StopBreak
<1>3. CASE ~FreesTwice(d) /\ status = "BRK"
  <2>1. status' = "OK" /\ todo' = Rest
    BY <1>3 DEF LoopBody, Done
  <2> QED
    BY <1>1, <2>1, FallsBreak
<1>4. CASE ~FreesTwice(d) /\ status # "BRK"
  <2>1. /\ UNCHANGED status
        /\ todo' = <<Item("walk", Here.cond, d, 0), Item("loop_condition", Here, d, 0)>> \o Rest
    BY <1>4 DEF LoopBody
  <2>2. Here \in Node /\ Here.kind = "while" /\ Here.cond \in Node /\ d \in Nat /\ 0 \in Nat
    BY <1>1, HeadItem, TreeAssumption DEF AliveItem, Here
  <2>3. Here.cond \notin Breaking /\ "loop_condition" \in Waiting
    BY <2>2, BreakingIs DEF LeftBy, Waiting
  <2> HIDE DEF d
  <2> QED
    BY <1>1, <1>4, <2>1, <2>2, <2>3, PairBreak
<1> QED
  BY <1>2, <1>3, <1>4

(* A lazy value is an expression, which no brk leaves.                     *)
LEMMA ReferenceBreak == BreaksInLoops /\ IInv /\ BreakInv /\ Reference => BreakInv'
<1> SUFFICES ASSUME BreaksInLoops, IInv, BreakInv, Reference PROVE BreakInv'
  OBVIOUS
<1> DEFINE x == Here.name
<1>1. Turn("post") /\ outcome = "run" /\ todo # <<>>
  BY DEF Reference, Visit, Turn
<1>2. CASE x = "print"
  <2>1. Push(PrintFun)
    BY <1>2 DEF Reference
  <2> QED
    BY <1>1, <2>1, FallsPush, FallingBreak
<1>3. CASE x # "print" /\ ~Found(x)
  <2>1. status' = "ERR" /\ todo' = Unwind(Rest)
    BY <1>3 DEF Reference, FailPost
  <2> QED
    BY <1>1, <2>1, FallsBreak
<1>4. CASE x # "print" /\ Found(x) /\ ValueOf(x).kind # "lazy"
  <2>1. Push(ValueOf(x))
    BY <1>4 DEF Reference
  <2> QED
    BY <1>1, <2>1, FallsPush, FallingBreak
<1>5. CASE x # "print" /\ Found(x) /\ ValueOf(x).kind = "lazy"
  <2>1. /\ todo' = <<Item("walk", ValueOf(x).expr, Depth + 1, 0),
                     Item("lazy", Here, Depth + 1, 0)>> \o Rest
        /\ UNCHANGED status
    BY <1>5 DEF Reference, Pre
  <2>2. ValueOf(x).expr \in Node /\ IsExpr(ValueOf(x).expr)
    BY <1>5, ValueGood, GoodParts
  <2>3. Here \in Node /\ Depth + 1 \in Nat /\ 0 \in Nat
    BY <1>1, HeadItem
  <2>4. ValueOf(x).expr \notin Breaking /\ "lazy" \in Waiting
    BY <2>2, NotBreaking DEF Waiting
  <2>5. status' # "BRK"
    BY <1>1, <2>1, NotHeld
  <2> QED
    BY <1>1, <2>1, <2>2, <2>3, <2>4, <2>5, PairBreak
<1> QED
  BY <1>2, <1>3, <1>4, <1>5

(* The body of a function is not left by a brk.                            *)
LEMMA CallFunctionBreak == BreaksInLoops /\ IInv /\ BreakInv /\ CallFunction => BreakInv'
<1> SUFFICES ASSUME BreaksInLoops, IInv, BreakInv, CallFunction PROVE BreakInv'
  OBVIOUS
<1> DEFINE c == CalleeSlot
           f == stack[c]
<1>1. /\ Turn("post") /\ outcome = "run" /\ todo # <<>> /\ Here.kind = "apply"
      /\ KindAt(c) = "function"
  BY DEF CallFunction, Visit, Turn
<1>2. \/ Stop("undefined")
      \/ status' = "ERR" /\ todo' = Unwind(Rest)
      \/ /\ todo' = <<Item("walk", f.decl.body, Depth + 1, 0), Item("return", Here, Depth, c)>>
                      \o Rest
         /\ UNCHANGED status
  BY DEF CallFunction, FailPost, Pre
<1>3. CASE Stop("undefined")
  BY <1>3, StopBreak
<1>4. CASE status' = "ERR" /\ todo' = Unwind(Rest)
  BY <1>1, <1>4, FallsBreak
<1>5. CASE /\ todo' = <<Item("walk", f.decl.body, Depth + 1, 0), Item("return", Here, Depth, c)>>
                        \o Rest
           /\ UNCHANGED status
  <2>1. Len(Here.args) \in Nat
    <3>1. Here.args \in Seq(Node)
      BY <1>1, HeadItem, TreeAssumption
    <3> QED
      BY <3>1, LenProperties
  <2>2. c \in 0 .. StackSize - 1 /\ f.kind = "function"
    <3>1. c \in Int
      BY <2>1 DEF CalleeSlot, IInv, StackGood
    <3>2. c \in 0 .. StackSize - 1
      BY <1>1, <3>1, SlotInside
    <3> QED
      BY <1>1, <3>2, StackAssumption DEF KindAt
  <2>3. Good(f)
    BY <2>2 DEF IInv, StackGood
  <2>4. f.decl \in Node /\ f.decl.kind = "fun"
    BY <2>2, <2>3, GoodParts
  <2>5. f.decl.body \in Node /\ f.decl.body \notin Breaking
    BY <2>4, TreeAssumption, BreakingIs DEF LeftBy
  <2>6. /\ Here \in Node /\ Depth \in Nat /\ Depth + 1 \in Nat /\ c \in Nat
        /\ "return" \in Waiting
    BY <1>1, <2>2, HeadItem, StackAssumption DEF Waiting
  <2>7. status' # "BRK"
    BY <1>1, <1>5, NotHeld
  <2> HIDE DEF c, f
  <2> QED
    BY <1>1, <1>5, <2>5, <2>6, <2>7, PairBreak
<1> QED
  BY <1>2, <1>3, <1>4, <1>5

(* The walks of the nodes of a list.                                       *)
LEMMA WalksNodes ==
    ASSUME NEW nodes \in Seq(Node), NEW d
    PROVE  /\ Len(Walks(nodes, d)) = Len(nodes)
           /\ \A i \in 1 .. Len(nodes) : Walks(nodes, d)[i].node = nodes[i]
<1>1. Len(nodes) \in Nat
  BY LenProperties
<1> DEFINE F(i) == Item("walk", nodes[i], d, 0)
           w == [i \in 1 .. Len(nodes) |-> F(i)]
<1>2. \A i \in 1 .. Len(nodes) : F(i).node = nodes[i]
  BY DEF Item
<1> HIDE DEF F
<1>3. Len(w) = Len(nodes) /\ \A i \in 1 .. Len(nodes) : w[i].node = nodes[i]
  BY <1>1, <1>2
<1>4. w = Walks(nodes, d)
  BY DEF Walks, F
<1> QED
  BY <1>3, <1>4

(* The visits of a node are of the node or of one of its children.         *)
LEMMA VisitsNodes ==
    ASSUME NEW n \in Node, NEW d \in Nat
    PROVE  \A i \in 1 .. Len(Visits(n, d)) :
             \/ Visits(n, d)[i].node = n
             \/ \E j \in 1 .. Len(Children(n)) : Visits(n, d)[i].node = Children(n)[j]
<1>1. Children(n) \in Seq(Node)
  BY TreeAssumption DEF Children
<1> DEFINE kids == Children(n)
           w == Walks(kids, d)
           p == <<Item("post", n, d, 0)>>
<1>2. /\ w \in Seq(TodoItem) /\ Len(w) = Len(kids) /\ Len(kids) \in Nat
      /\ \A i \in 1 .. Len(kids) : w[i].node = kids[i]
  BY <1>1, WalksItems, WalksNodes, LenProperties
<1>3. p \in Seq(TodoItem) /\ Len(p) = 1 /\ p[1].node = n
  BY DEF Item, TodoItem, Ops
<1>4. Visits(n, d) = w \o p
  BY DEF Visits
<1> HIDE DEF w, p, kids
<1>5. /\ Len(w \o p) = Len(w) + 1
      /\ \A i \in 1 .. Len(w) + 1 : (w \o p)[i] = IF i <= Len(w) THEN w[i] ELSE p[i - Len(w)]
  <2>1. /\ Len(w \o p) = Len(w) + Len(p)
        /\ \A i \in 1 .. Len(w) + Len(p) :
              (w \o p)[i] = IF i <= Len(w) THEN w[i] ELSE p[i - Len(w)]
    <3>1. w \in Seq(TodoItem) /\ p \in Seq(TodoItem)
      BY <1>2, <1>3
    <3> QED
      BY ONLY <3>1, ConcatProperties, SMTT(30)
  <2> QED
    BY <1>3, <2>1
<1>6. ASSUME NEW i \in 1 .. Len(w) + 1
      PROVE  \/ (w \o p)[i].node = n
             \/ \E j \in 1 .. Len(kids) : (w \o p)[i].node = kids[j]
  <2>1. CASE i <= Len(w)
    BY <1>2, <1>5, <2>1
  <2>2. CASE ~(i <= Len(w))
    BY <1>2, <1>3, <1>5, <2>2
  <2> QED
    BY <2>1, <2>2
<1> QED
  BY <1>4, <1>5, <1>6 DEF kids

(* The children of a node are left by a brk only with the node itself.     *)
LEMMA ChildrenBreak ==
    ASSUME BreaksInLoops, NEW n \in Node, n.kind \notin {"fun", "if", "while"},
           NEW j \in 1 .. Len(Children(n)), Children(n)[j] \in Breaking
    PROVE  n \in Breaking
<1> DEFINE k == Children(n)[j]
<1>1. ~IsExpr(k) /\ k.kind \in {"brk", "nxt", "brace"}
  BY NotBreaking, BreakingIs DEF LeftBy
<1>2. CASE n.kind \in {"top", "brace"}
  <2>1. Children(n) = n.stmts
    BY <1>2 DEF Children
  <2> QED
    BY <1>2, <2>1, BreakingIs DEF LeftBy
<1>3. CASE n.kind = "var"
  <2>1. Children(n) = IF n.init = None THEN <<>> ELSE <<n.init>>
    BY <1>3 DEF Children
  <2>2. n.init # None
    BY <2>1
  <2>3. k = n.init
    BY <2>1, <2>2
  <2> QED
    BY <1>1, <1>3, <2>2, <2>3, GrammarAssumption
<1>4. CASE n.kind \in {"unary", "paren"}
  <2>1. Children(n) = <<n.subexpr>>
    BY <1>4 DEF Children
  <2>2. k = n.subexpr
    BY <2>1
  <2> QED
    BY <1>1, <1>4, <2>2, GrammarAssumption
<1>5. CASE n.kind = "binary"
  <2>1. Children(n) = <<n.lhs, n.rhs>>
    BY <1>5 DEF Children
  <2>2. k = n.lhs \/ k = n.rhs
    BY <2>1
  <2> QED
    BY <1>1, <1>5, <2>2, GrammarAssumption
<1>6. CASE n.kind = "apply"
  <2>1. Children(n) = <<n.callee>> \o n.args
    BY <1>6 DEF Children
  <2>2. n.callee \in Node /\ n.args \in Seq(Node)
    BY <1>6, TreeAssumption
  <2>3. k = n.callee \/ \E i \in 1 .. Len(n.args) : k = n.args[i]
    <3> DEFINE one == <<n.callee>>
    <3>1. one \in Seq(Node) /\ Len(one) = 1 /\ one[1] = n.callee /\ Len(n.args) \in Nat
      BY <2>2, LenProperties
    <3> HIDE DEF one
    <3>2. /\ Len(one \o n.args) = 1 + Len(n.args)
          /\ \A i \in 1 .. 1 + Len(n.args) :
               (one \o n.args)[i] = IF i <= 1 THEN one[i] ELSE n.args[i - 1]
      <4>1. /\ Len(one \o n.args) = Len(one) + Len(n.args)
            /\ \A i \in 1 .. Len(one) + Len(n.args) :
                 (one \o n.args)[i] = IF i <= Len(one) THEN one[i] ELSE n.args[i - Len(one)]
        <5>1. one \in Seq(Node) /\ n.args \in Seq(Node)
          BY <2>2, <3>1
        <5> QED
          BY ONLY <5>1, ConcatProperties, SMTT(30)
      <4> QED
        BY <3>1, <4>1
    <3>3. Children(n) = one \o n.args
      BY <2>1 DEF one
    <3>4. j \in 1 .. 1 + Len(n.args) /\ k = IF j <= 1 THEN one[j] ELSE n.args[j - 1]
      BY <3>2, <3>3
    <3>5. CASE j <= 1
      <4>1. j = 1
        BY <3>1, <3>4, <3>5
      <4> QED
        BY <3>1, <3>4, <4>1
    <3>6. CASE ~(j <= 1)
      <4>1. j - 1 \in 1 .. Len(n.args)
        BY <3>1, <3>4, <3>6
      <4> QED
        BY <3>4, <3>6, <4>1
    <3> QED
      BY <3>5, <3>6
  <2> QED
    BY <1>1, <1>6, <2>3, GrammarAssumption
<1>7. CASE n.kind \in {"expr_stmt", "ret"}
  <2>1. Children(n) = <<n.expr>>
    BY <1>7 DEF Children
  <2>2. k = n.expr
    BY <2>1
  <2> QED
    BY <1>1, <1>7, <2>2, GrammarAssumption
<1>8. CASE n.kind \notin {"top", "brace", "var", "unary", "paren", "binary", "apply",
                          "expr_stmt", "ret"}
  <2>1. Children(n) = <<>>
    BY <1>8 DEF Children
  <2> QED
    BY <2>1
<1> QED
  BY <1>2, <1>3, <1>4, <1>5, <1>6, <1>7, <1>8

(* The visits of a node and of its children.                               *)
LEMMA VisitsBreak ==
    ASSUME BreaksInLoops, IInv, BreakInv, Turn("walk"), status' # "BRK",
           Here.kind \notin {"fun", "if", "while"},
           NEW d \in Nat, todo' = Visits(Here, d) \o Rest
    PROVE  BreakInv'
<1>1. todo # <<>> /\ Head(todo).op = "walk"
  BY DEF Turn
<1>2. Here \in Node
  BY <1>1, HeadItem
<1> DEFINE new == Visits(Here, d)
<1>3. new \in Seq(TodoItem) /\ \A i \in 1 .. Len(new) : new[i].op \notin Waiting
  <2>1. new \in Seq(TodoItem) /\ \A i \in 1 .. Len(new) : new[i].op \in {"walk", "post"}
    BY <1>2, ChildItems
  <2> QED
    BY <2>1 DEF Waiting
<1>4. ASSUME NEW i \in 1 .. Len(new), MayBreak(new[i])
      PROVE  MayBreak(Head(todo))
  <2>1. \/ new[i].node = Here
        \/ \E j \in 1 .. Len(Children(Here)) : new[i].node = Children(Here)[j]
    BY <1>2, VisitsNodes
  <2>2. new[i].node \in Breaking
    BY <1>4 DEF MayBreak
  <2> HIDE DEF new
  <2>3. Here \in Breaking
    BY <1>2, <2>1, <2>2, ChildrenBreak
  <2> QED
    BY <1>1, <2>3 DEF MayBreak, Here
<1>5. todo' = new \o Rest
  OBVIOUS
<1> HIDE DEF new
<1> QED
  BY <1>1, <1>3, <1>4, <1>5, GrowsBreak

(* A node handled after its children.                                      *)
LEMMA DescendBreak == BreaksInLoops /\ IInv /\ BreakInv /\ Descend => BreakInv'
<1> SUFFICES ASSUME BreaksInLoops, IInv, BreakInv, Descend PROVE BreakInv'
  OBVIOUS
<1>1. /\ Turn("walk") /\ todo # <<>> /\ status' = "OK"
      /\ Here.kind \notin {"fun", "if", "while"} /\ todo' = Visits(Here, Depth) \o Rest
  BY DEF Descend, Turn, Pre
<1>2. Depth \in Nat
  BY <1>1, HeadItem
<1> QED
  BY <1>1, <1>2, VisitsBreak

(* A block.                                                                *)
LEMMA EnterBraceBreak == BreaksInLoops /\ IInv /\ BreakInv /\ EnterBrace => BreakInv'
<1> SUFFICES ASSUME BreaksInLoops, IInv, BreakInv, EnterBrace PROVE BreakInv'
  OBVIOUS
<1>1. /\ Turn("walk") /\ todo # <<>> /\ status' = "OK"
      /\ Here.kind \notin {"fun", "if", "while"} /\ todo' = Visits(Here, Depth + 1) \o Rest
  BY DEF EnterBrace, Visit, Turn, Pre
<1>2. Depth + 1 \in Nat
  BY <1>1, HeadItem
<1> QED
  BY <1>1, <1>2, VisitsBreak

(* A statement of the top level holds no brk that leaves it.               *)
LEMMA TopDeclBreak == BreaksInLoops /\ IInv /\ BreakInv /\ TopDecl => BreakInv'
<1> SUFFICES ASSUME BreaksInLoops, IInv, BreakInv, TopDecl PROVE BreakInv'
  OBVIOUS
<1> DEFINE d == Head(todo).d
           new == Walks(<<Here>>, d)
<1>1. /\ Turn("decl") /\ todo # <<>> /\ UNCHANGED status
      /\ todo' = Rest \/ (Here.kind = "top" /\ todo' = new \o Rest)
  BY DEF TopDecl, Turn, Done, Pre
<1>2. status' # "BRK"
  BY <1>1, NotHeld
<1>3. CASE todo' = Rest
  BY <1>1, <1>2, <1>3, FallsBreak
<1>4. CASE Here.kind = "top" /\ todo' = new \o Rest
  <2> DEFINE nodes == <<Here>>
  <2>1. Here \in Node /\ d \in Nat
    BY <1>1, HeadItem
  <2>2. nodes \in Seq(Node) /\ Len(nodes) = 1 /\ nodes[1] = Here
    BY <2>1
  <2> HIDE DEF d, nodes
  <2>3. /\ Walks(nodes, d) \in Seq(TodoItem) /\ Len(Walks(nodes, d)) = 1
        /\ Walks(nodes, d)[1].node = Here
    BY <2>1, <2>2, WalksItems, WalksNodes
  <2>4. Here \notin Breaking
    BY <1>4, NotBreaking DEF IsExpr, ExprKinds
  <2>5. \A i \in 1 .. Len(Walks(nodes, d)) : ~MayBreak(Walks(nodes, d)[i])
    BY <2>3, <2>4 DEF MayBreak
  <2>6. todo' = Walks(nodes, d) \o Rest
    BY <1>4 DEF nodes
  <2> HIDE DEF new
  <2> QED
    BY <1>1, <1>2, <2>3, <2>5, <2>6, PlainBreak
<1> QED
  BY <1>1, <1>3, <1>4

(* A brk cuts its walk short up to the loop that it leaves.                *)
LEMMA BreakBreak == BreaksInLoops /\ IInv /\ BreakInv /\ Break => BreakInv'
<1> SUFFICES ASSUME BreaksInLoops, IInv, BreakInv, Break PROVE BreakInv'
  OBVIOUS
<1>1. /\ todo # <<>> /\ Head(todo).op = "post" /\ Here.kind = "brk"
      /\ todo' = Unwind(Rest)
  BY DEF Break, Visit, Turn
<1>2. Here \in Node /\ Rest \in Seq(TodoItem) /\ todo \in Seq(TodoItem)
  BY <1>1, HeadItem DEF IInv, WalkGood
<1>3. MayBreak(Head(todo))
  BY <1>1, <1>2, BreakingIs DEF LeftBy, MayBreak, Here
<1>4. Caught(Rest) /\ CaughtBehind(Rest, 0)
  BY <1>1, <1>2, <1>3, TailCaught DEF BreakInv, Rest
<1> DEFINE s == Unwind(Rest)
<1>5. s # <<>> /\ Head(s).op = "loop_body"
  BY <1>2, <1>4, UnwindCaught
<1>6. Suffix(s, Rest)
  BY <1>2, UnwindSuffix
<1>7. todo' = s
  BY <1>1
<1> HIDE DEF s
<1>8. Caught(s)
  BY <1>2, <1>4, <1>6, SuffixCaught
<1>9. Held'
  BY <1>5, <1>7 DEF Held
<1>10. Caught(todo)'
  BY <1>7, <1>8 DEF Caught, CaughtBehind
<1> QED
  BY <1>9, <1>10 DEF BreakInv

(* The end of the program, and a step of something else.                   *)
LEMMA FinishBreak == BreakInv /\ (Finish \/ UNCHANGED vars) => BreakInv'
<1> SUFFICES ASSUME BreakInv, Finish \/ UNCHANGED vars PROVE BreakInv'
  OBVIOUS
<1>1. UNCHANGED <<todo, status>>
  BY DEF Finish, Stop, vars
<1> QED
  BY <1>1 DEF BreakInv, Held, Caught, CaughtBehind

(* Each step keeps the invariant.                                          *)
LEMMA BreakStep == BreaksInLoops /\ IInv /\ BreakInv /\ [Next]_vars => BreakInv'
<1> SUFFICES ASSUME BreaksInLoops, IInv, BreakInv, [Next]_vars PROVE BreakInv'
  OBVIOUS
<1>1. CASE TopDecl \/ Descend \/ SkipAfterError \/ UnwindAfterError \/ StatusAssertFails
  BY <1>1, TopDeclBreak, DescendBreak, FallsOthers, FallingBreak
<1>2. CASE Statement
  BY <1>2, FallsStatements, FallingBreak, AssignBreak, EnterBraceBreak, EnterIfBreak,
     ConditionBreak, EnterWhileBreak, LoopConditionBreak, LoopBodyBreak, BreakBreak
     DEF Statement
<1>3. CASE Expression
  BY <1>3, FallsExpressions, FallingBreak, ReferenceBreak, CallFunctionBreak DEF Expression
<1>4. CASE Finish \/ UNCHANGED vars
  BY <1>4, FinishBreak
<1> QED
  BY <1>1, <1>2, <1>3, <1>4 DEF Next

(* It holds when the program starts.                                       *)
LEMMA BreakInit == Init => BreakInv
<1> SUFFICES ASSUME Init PROVE BreakInv
  OBVIOUS
<1>1. prog \in Seq(Node) /\ Len(prog) \in Nat
  BY ProgramsAssumption, LenProperties DEF Init
<1>2. status = "OK" /\ todo = [i \in 1 .. Len(prog) |-> Item("decl", prog[i], 0, 0)]
  BY DEF Init
<1>3. \A i \in 1 .. Len(todo) : todo[i].op = "decl"
  BY <1>1, <1>2 DEF Item
<1> QED
  BY <1>2, <1>3 DEF BreakInv, Held, Caught, MayBreak

(* While a brk is on its way out, it is the turn of the rest of a loop.    *)
LEMMA HeldIsOK == Held => StatusIsOK
  BY DEF Held, StatusIsOK, Is

(* In a program whose `brk`s leave nothing but blocks of a loop's body,    *)
(* the assertion of eval.c 341 never fails: the status of a `brk` is taken *)
(* away before another node is visited.                                    *)
THEOREM BreaksMeetLoops == BreaksInLoops => (Spec => []StatusIsOK)
<1> SUFFICES ASSUME BreaksInLoops PROVE Spec => []StatusIsOK
  OBVIOUS
<1>1. BreaksInLoops /\ Init => IInv /\ BreakInv
  BY InitGood, BreakInit
<1>2. BreaksInLoops /\ IInv /\ BreakInv /\ [Next]_vars => (IInv /\ BreakInv)'
  BY StepGood, BreakStep
<1>3. IInv /\ BreakInv => StatusIsOK
  BY HeldIsOK DEF BreakInv
<1> QED
  BY <1>1, <1>2, <1>3, PTL DEF Spec
=============================================================================
