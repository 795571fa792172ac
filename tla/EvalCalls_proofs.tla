--------------------------- MODULE EvalCalls_proofs ---------------------------
(***************************************************************************)
(* Theorems about the calls of Eval: a running function changes no         *)
(* variable of its callers, and a call leaves its result and nothing else  *)
(* on the stack.                                                           *)
(***************************************************************************)
EXTENDS Eval_proofs

-----------------------------------------------------------------------------
(* The proof that a running function changes no variable of its callers.   *)
(*                                                                         *)
(* A step can only disturb a caller's table by popping it, or by storing   *)
(* into it through the pointer of an unfinished assignment.  Neither       *)
(* happens as long as no error was reported, because every frame of a      *)
(* function has somebody waiting for it in `todo`, who is above whatever   *)
(* counts on the frames of the callers only.                               *)

(* Parts of an expression that is being evaluated.                         *)
Tight(item) == \/ item.op \in {"walk", "post"} /\ IsExpr(item.node)
               \/ item.op \in {"assigned", "lazy"}

(* The item waits for the end of the function whose frame is number k.     *)
Awaits(item, k) == \/ item.op = "lazy" /\ item.d = k
                   \/ item.op = "return" /\ item.d + 1 = k

(* What is above a part of an expression: another one, or a call it makes. *)
(* Both leave the frames the part began with.                              *)
Leads(a, b) == Tight(b) => /\ Tight(a) \/ a.op = "return"
                           /\ a.d = IF a.op = "lazy" THEN b.d + 1 ELSE b.d

FunctionsAwaited(t, fs) ==
    \A k \in 1 .. Len(fs) :
      fs[k].kind = "function" => \E i \in 1 .. Len(t) : Awaits(t[i], k)

CallsApart(t) == \A i, j \in 1 .. Len(t) : i < j /\ t[j].op = "return" => t[j].d < t[i].d

TargetsOwn(t, fs) ==
    \A i \in 1 .. Len(t) :
      t[i].op = "assigned" /\ t[i].at # 0 =>
        \A k \in t[i].at + 1 .. t[i].d : fs[k].kind # "function"

ExpressionsLead(t) == \A i \in 1 .. Len(t) - 1 : Leads(t[i], t[i + 1])

(* n: how many frames there are.                                           *)
Level(t, n) == t # <<>> /\ Tight(t[1]) => t[1].d = n

Kept(t, fs) == /\ FunctionsAwaited(t, fs)
               /\ CallsApart(t)
               /\ TargetsOwn(t, fs)
               /\ ExpressionsLead(t)
               /\ Level(t, Len(fs))

(* The same function frames at the bottom.                                 *)
SameUpTo(n, fs, fs2) == \A k \in 1 .. n : fs2[k].kind = fs[k].kind

---------------------------------------------------------------------------
(* Lists of visits.                                                        *)

(* The items under the first one, and what they count on.                  *)
LEMMA TailItems ==
    ASSUME NEW t \in Seq(TodoItem), t # <<>>
    PROVE  /\ Tail(t) \in Seq(TodoItem) /\ Len(t) \in Nat /\ Len(t) >= 1
           /\ Len(Tail(t)) = Len(t) - 1 /\ Head(t) = t[1]
           /\ \A i \in 1 .. Len(Tail(t)) : i + 1 \in 2 .. Len(t) /\ Tail(t)[i] = t[i + 1]
           /\ \A i \in 1 .. Len(t) : t[i].d \in Nat /\ t[i].at \in Nat
<1>1. /\ Tail(t) \in Seq(TodoItem) /\ Len(Tail(t)) = Len(t) - 1 /\ Head(t) = t[1]
      /\ \A i \in 1 .. Len(t) - 1 : Tail(t)[i] = t[i + 1]
      /\ Len(t) \in Nat /\ Len(t) >= 1
  BY HeadTailProperties, LenProperties, EmptySeq
<1>2. \A i \in 1 .. Len(t) : t[i].d \in Nat /\ t[i].at \in Nat
  BY ItemFields
<1> QED
  BY <1>1, <1>2

(* A number below one that is at most another.                             *)
LEMMA BelowTrans ==
    ASSUME NEW x \in Nat, NEW y \in Nat, NEW z \in Nat, x < y, y <= z
    PROVE  x < z
OBVIOUS

(* A number above a natural and up to another.                             *)
LEMMA Between ==
    ASSUME NEW a \in Nat, NEW b \in Nat, NEW m \in Int, b <= m, NEW l \in a + 1 .. b
    PROVE  l \in 1 .. m
OBVIOUS

(* A part of the list, cut off above, is as good as the list when somebody *)
(* in it still waits for each function frame that is left.                 *)
LEMMA SuffixKept ==
    ASSUME NEW t \in Seq(TodoItem), NEW fs, NEW fs2, Kept(t, fs),
           NEW k \in 1 .. Len(t) + 1, NEW s, s = SubSeq(t, k, Len(t)),
           NEW m \in Int, \A i \in k .. Len(t) : t[i].d <= m, SameUpTo(m, fs, fs2),
           FunctionsAwaited(s, fs2), Level(s, Len(fs2))
    PROVE  Kept(s, fs2)
<1>1. /\ s \in Seq(TodoItem) /\ Len(t) \in Nat /\ Len(s) = Len(t) - k + 1
      /\ \A i \in 1 .. Len(s) : s[i] = t[k + i - 1]
      /\ \A i \in 1 .. Len(t) : t[i].d \in Nat /\ t[i].at \in Nat
  BY LenProperties, SuffixItems, ItemFields
<1>2. \A i \in 1 .. Len(s) : k + i - 1 \in k .. Len(t) /\ k + i - 1 \in 1 .. Len(t)
  BY <1>1
<1>3. CallsApart(s)
  <2> SUFFICES ASSUME NEW i \in 1 .. Len(s), NEW j \in 1 .. Len(s), i < j, s[j].op = "return"
               PROVE  s[j].d < s[i].d
    BY DEF CallsApart
  <2>1. k + i - 1 \in 1 .. Len(t) /\ k + j - 1 \in 1 .. Len(t) /\ k + i - 1 < k + j - 1
    BY <1>1, <1>2
  <2> QED
    BY <1>1, <2>1 DEF Kept, CallsApart
<1>4. TargetsOwn(s, fs2)
  <2> SUFFICES ASSUME NEW i \in 1 .. Len(s), s[i].op = "assigned", s[i].at # 0,
                      NEW l \in s[i].at + 1 .. s[i].d
               PROVE  fs2[l].kind # "function"
    BY DEF TargetsOwn
  <2>1. /\ k + i - 1 \in 1 .. Len(t) /\ s[i] = t[k + i - 1] /\ s[i].d <= m
        /\ s[i].d \in Nat /\ s[i].at \in Nat
    BY <1>1, <1>2
  <2>2. fs[l].kind # "function"
    BY <2>1 DEF Kept, TargetsOwn
  <2>3. l \in 1 .. m
    BY <2>1, Between
  <2> QED
    BY <2>2, <2>3 DEF SameUpTo
<1>5. ExpressionsLead(s)
  <2> SUFFICES ASSUME NEW i \in 1 .. Len(s) - 1 PROVE Leads(s[i], s[i + 1])
    BY DEF ExpressionsLead
  <2>1. k + i - 1 \in 1 .. Len(t) - 1 /\ i \in 1 .. Len(s) /\ i + 1 \in 1 .. Len(s)
        /\ k + (i + 1) - 1 = (k + i - 1) + 1
    BY <1>1
  <2>2. s[i] = t[k + i - 1] /\ s[i + 1] = t[(k + i - 1) + 1]
    BY <1>1, <2>1
  <2> QED
    BY <2>1, <2>2 DEF Kept, ExpressionsLead
<1> QED
  BY <1>3, <1>4, <1>5 DEF Kept

(* The first item goes, and perhaps some frames with it.                   *)
LEMMA TailKept ==
    ASSUME NEW t \in Seq(TodoItem), t # <<>>, NEW fs, NEW fs2, Kept(t, fs),
           Len(fs) \in Nat, Len(fs2) \in Nat, Len(fs2) <= Len(fs),
           SameUpTo(Len(fs2), fs, fs2),
           \A k \in 1 .. Len(fs2) : ~Awaits(t[1], k),
           \A i \in 2 .. Len(t) : t[i].d <= Len(fs2),
           Level(Tail(t), Len(fs2))
    PROVE  Kept(Tail(t), fs2)
<1>1. /\ Tail(t) \in Seq(TodoItem) /\ Len(t) \in Nat /\ Len(t) >= 1
      /\ Len(Tail(t)) = Len(t) - 1
      /\ \A i \in 1 .. Len(Tail(t)) : i + 1 \in 2 .. Len(t) /\ Tail(t)[i] = t[i + 1]
  BY TailItems
<1>2. FunctionsAwaited(Tail(t), fs2)
  <2> SUFFICES ASSUME NEW k \in 1 .. Len(fs2), fs2[k].kind = "function"
               PROVE  \E i \in 1 .. Len(Tail(t)) : Awaits(Tail(t)[i], k)
    BY DEF FunctionsAwaited
  <2>1. k \in 1 .. Len(fs) /\ fs[k].kind = "function"
    BY DEF SameUpTo
  <2>2. PICK i \in 1 .. Len(t) : Awaits(t[i], k)
    BY <2>1 DEF Kept, FunctionsAwaited
  <2>3. i # 1
    BY <2>2
  <2>4. i - 1 \in 1 .. Len(Tail(t)) /\ (i - 1) + 1 = i
    BY <1>1, <2>3
  <2>5. Tail(t)[i - 1] = t[i]
    BY <1>1, <2>4
  <2> QED
    BY <2>2, <2>4, <2>5
<1>3. Tail(t) = SubSeq(t, 2, Len(t)) /\ 2 \in 1 .. Len(t) + 1 /\ Len(fs2) \in Int
  BY <1>1
<1> QED
  BY <1>2, <1>3, SuffixKept

(* The items of a list whose first item gave way to others.                *)
LEMMA ReplacedItems ==
    ASSUME NEW t \in Seq(TodoItem), t # <<>>, NEW new \in Seq(TodoItem)
    PROVE  /\ new \o Tail(t) \in Seq(TodoItem)
           /\ Len(new) \in Nat
           /\ Len(new \o Tail(t)) = Len(new) + (Len(t) - 1)
           /\ \A i \in 1 .. Len(new) : (new \o Tail(t))[i] = new[i]
           /\ \A i \in 2 .. Len(t) : (new \o Tail(t))[Len(new) + (i - 1)] = t[i]
<1> DEFINE r == Tail(t)
<1>1. /\ r \in Seq(TodoItem) /\ Len(t) \in Nat /\ Len(t) >= 1 /\ Len(r) = Len(t) - 1
      /\ \A i \in 1 .. Len(r) : i + 1 \in 2 .. Len(t) /\ r[i] = t[i + 1]
  BY TailItems
<1> HIDE DEF r
<1>2. /\ new \o r \in Seq(TodoItem) /\ Len(new \o r) = Len(new) + Len(r) /\ Len(new) \in Nat
      /\ \A i \in 1 .. Len(new) + Len(r) :
           (new \o r)[i] = IF i <= Len(new) THEN new[i] ELSE r[i - Len(new)]
  BY <1>1, ConcatProperties, LenProperties
<1>3. \A i \in 1 .. Len(new) : (new \o r)[i] = new[i]
  BY <1>1, <1>2
<1>4. ASSUME NEW i \in 2 .. Len(t) PROVE (new \o r)[Len(new) + (i - 1)] = t[i]
  <2>1. /\ Len(new) + (i - 1) \in 1 .. Len(new) + Len(r)
        /\ ~(Len(new) + (i - 1) <= Len(new))
        /\ Len(new) + (i - 1) - Len(new) = i - 1 /\ i - 1 \in 1 .. Len(r) /\ (i - 1) + 1 = i
    BY <1>1, <1>2
  <2>2. (new \o r)[Len(new) + (i - 1)] = r[i - 1]
    BY <1>2, <2>1
  <2>3. r[i - 1] = t[i]
    BY <1>1, <2>1
  <2> QED
    BY <2>2, <2>3
<1> QED
  BY <1>1, <1>2, <1>3, <1>4 DEF r

(* An index of such a list is one of the new items or of the old ones.     *)
LEMMA ReplacedIndex ==
    ASSUME NEW n \in Nat, NEW a \in Nat, n >= 1, NEW i \in 1 .. a + (n - 1)
    PROVE  i \in 1 .. a \/ \E j \in 2 .. n : i = a + (j - 1)
<1>1. CASE i <= a
  BY <1>1
<1>2. CASE i > a
  <2>1. i - a + 1 \in 2 .. n /\ i = a + ((i - a + 1) - 1)
    BY <1>2
  <2> QED
    BY <2>1
<1> QED
  BY <1>1, <1>2

(* The first item gives way to new ones, frames may be pushed and popped.  *)
LEMMA GrowKept ==
    ASSUME NEW t \in Seq(TodoItem), t # <<>>, NEW fs, NEW fs2, Kept(t, fs),
           t[1].op # "lazy", t[1].op # "return",
           \A i \in 2 .. Len(t) : t[i].d <= t[1].d,
           SameUpTo(t[1].d, fs, fs2),
           NEW new \in Seq(TodoItem), new # <<>>,
           \A k \in 1 .. Len(fs2) :
             fs2[k].kind = "function" => \/ k \in 1 .. Len(fs) /\ fs[k].kind = "function"
                                         \/ \E i \in 1 .. Len(new) : Awaits(new[i], k),
           \A i \in 1 .. Len(new) : t[1].d <= new[i].d,
           CallsApart(new), TargetsOwn(new, fs2), ExpressionsLead(new), Level(new, Len(fs2)),
           \A b \in TodoItem : Leads(t[1], b) => Leads(new[Len(new)], b)
    PROVE  Kept(new \o Tail(t), fs2)
<1> DEFINE u == new \o Tail(t)
           a == Len(new)
           n == Len(t)
<1>1. /\ u \in Seq(TodoItem) /\ a \in Nat /\ Len(u) = a + (n - 1)
      /\ \A i \in 1 .. a : u[i] = new[i]
      /\ \A i \in 2 .. n : u[a + (i - 1)] = t[i]
  BY ReplacedItems
<1>2. /\ n \in Nat /\ n >= 1 /\ a >= 1
      /\ \A i \in 1 .. n : t[i].d \in Nat /\ t[i].at \in Nat
      /\ \A i \in 1 .. a : new[i].d \in Nat
  BY <1>1, TailItems, ItemFields, EmptySeq
<1> HIDE DEF u
<1>3. \A i \in 1 .. Len(u) : \/ i \in 1 .. a /\ u[i] = new[i]
                             \/ \E j \in 2 .. n : i = a + (j - 1) /\ u[i] = t[j]
  <2> SUFFICES ASSUME NEW i \in 1 .. Len(u)
               PROVE  \/ i \in 1 .. a /\ u[i] = new[i]
                      \/ \E j \in 2 .. n : i = a + (j - 1) /\ u[i] = t[j]
    OBVIOUS
  <2>1. i \in 1 .. a \/ \E j \in 2 .. n : i = a + (j - 1)
    <3> HIDE DEF a, n
    <3> QED
      BY <1>1, <1>2, ReplacedIndex
  <2> QED
    BY <1>1, <2>1
<1>4. \A j \in 2 .. n : a + (j - 1) \in 1 .. Len(u)
  BY <1>1, <1>2
<1>5. FunctionsAwaited(u, fs2)
  <2> SUFFICES ASSUME NEW k \in 1 .. Len(fs2), fs2[k].kind = "function"
               PROVE  \E i \in 1 .. Len(u) : Awaits(u[i], k)
    BY DEF FunctionsAwaited
  <2>1. CASE \E i \in 1 .. a : Awaits(new[i], k)
    <3>1. PICK i \in 1 .. a : Awaits(new[i], k)
      BY <2>1
    <3>2. i \in 1 .. Len(u) /\ u[i] = new[i]
      BY <1>1, <1>2
    <3> QED
      BY <3>1, <3>2
  <2>2. CASE k \in 1 .. Len(fs) /\ fs[k].kind = "function"
    <3>1. PICK i \in 1 .. n : Awaits(t[i], k)
      BY <2>2 DEF Kept, FunctionsAwaited
    <3>2. i # 1
      BY <3>1 DEF Awaits
    <3>3. i \in 2 .. n
      BY <3>2
    <3> QED
      BY <1>1, <1>4, <3>1, <3>3
  <2> QED
    BY <2>1, <2>2
<1>6. CallsApart(u)
  <2> SUFFICES ASSUME NEW i \in 1 .. Len(u), NEW j \in 1 .. Len(u), i < j, u[j].op = "return"
               PROVE  u[j].d < u[i].d
    BY DEF CallsApart
  <2>1. CASE j \in 1 .. a
    <3>1. i \in 1 .. a /\ u[i] = new[i] /\ u[j] = new[j]
      BY <1>1, <2>1
    <3> QED
      BY <2>1, <3>1 DEF CallsApart
  <2>2. ASSUME NEW l \in 2 .. n, j = a + (l - 1), u[j] = t[l]
        PROVE  u[j].d < u[i].d
    <3>1. CASE i \in 1 .. a
      <4>1. u[i] = new[i] /\ t[1].d <= new[i].d /\ new[i].d \in Nat
        BY <1>1, <1>2, <3>1
      <4>2. t[l].d < t[1].d
        BY <1>2, <2>2 DEF Kept, CallsApart
      <4>3. t[l].d \in Nat /\ t[1].d \in Nat
        BY <1>2
      <4>4. t[l].d < new[i].d
        BY <4>1, <4>2, <4>3, BelowTrans
      <4> QED
        BY <2>2, <4>1, <4>4
    <3>2. ASSUME NEW h \in 2 .. n, i = a + (h - 1), u[i] = t[h]
          PROVE  u[j].d < u[i].d
      <4>1. h < l
        BY <1>2, <2>2, <3>2
      <4>2. CallsApart(t) /\ h \in 1 .. Len(t) /\ l \in 1 .. Len(t) /\ t[l].op = "return"
        BY <1>2, <2>2, <3>2 DEF Kept
      <4>3. t[l].d < t[h].d
        BY <4>1, <4>2 DEF CallsApart
      <4> QED
        BY <2>2, <3>2, <4>3
    <3> QED
      BY <1>3, <3>1, <3>2
  <2> QED
    BY <1>3, <2>1, <2>2
<1>7. TargetsOwn(u, fs2)
  <2> SUFFICES ASSUME NEW i \in 1 .. Len(u), u[i].op = "assigned", u[i].at # 0,
                      NEW k \in u[i].at + 1 .. u[i].d
               PROVE  fs2[k].kind # "function"
    BY DEF TargetsOwn
  <2>1. CASE i \in 1 .. a /\ u[i] = new[i]
    BY <2>1 DEF TargetsOwn
  <2>2. ASSUME NEW l \in 2 .. n, u[i] = t[l]
        PROVE  fs2[k].kind # "function"
    <3>1. fs[k].kind # "function"
      BY <2>2 DEF Kept, TargetsOwn
    <3>2. t[l].at \in Nat /\ t[l].d \in Nat /\ t[l].d <= t[1].d /\ t[1].d \in Int
      BY <1>2
    <3>3. k \in 1 .. t[1].d
      BY <2>2, <3>2, Between
    <3> QED
      BY <3>1, <3>3 DEF SameUpTo
  <2> QED
    BY <1>3, <2>1, <2>2
<1>8. ExpressionsLead(u)
  <2> SUFFICES ASSUME NEW i \in 1 .. Len(u) - 1 PROVE Leads(u[i], u[i + 1])
    BY DEF ExpressionsLead
  <2>1. CASE i < a
    <3>1. i \in 1 .. a - 1 /\ u[i] = new[i] /\ u[i + 1] = new[i + 1]
      BY <1>1, <2>1
    <3> QED
      BY <3>1 DEF ExpressionsLead
  <2>2. CASE i = a
    <3>1. 2 \in 2 .. n /\ i + 1 = a + (2 - 1) /\ a \in 1 .. a /\ 1 \in 1 .. n - 1 /\ 1 + 1 = 2
      BY <1>1, <1>2, <2>2
    <3>2. u[i] = new[a] /\ u[i + 1] = t[2]
      BY <1>1, <2>2, <3>1
    <3>3. Leads(t[1], t[2]) /\ t[2] \in TodoItem
      BY <3>1, ElementOfSeq DEF Kept, ExpressionsLead
    <3> QED
      BY <3>2, <3>3
  <2>3. CASE i > a
    <3>1. /\ i - a + 1 \in 2 .. n /\ i - a + 2 \in 2 .. n /\ i - a + 1 \in 1 .. n - 1
          /\ i = a + ((i - a + 1) - 1) /\ i + 1 = a + ((i - a + 2) - 1)
          /\ (i - a + 1) + 1 = i - a + 2
      BY <1>1, <1>2, <2>3
    <3>2. u[i] = t[i - a + 1] /\ u[i + 1] = t[(i - a + 1) + 1]
      BY <1>1, <3>1
    <3> QED
      BY <3>1, <3>2 DEF Kept, ExpressionsLead
  <2> QED
    BY <1>1, <1>2, <2>1, <2>2, <2>3
<1>9. Level(u, Len(fs2))
  <2>1. u[1] = new[1]
    BY <1>1, <1>2
  <2> QED
    BY <2>1 DEF Level
<1> QED
  BY <1>5, <1>6, <1>7, <1>8, <1>9 DEF Kept, u

(* The part of an expression below the first item is evaluated in the same *)
(* frame.                                                                  *)
LEMMA NextLevel ==
    ASSUME NEW t \in Seq(TodoItem), t # <<>>, NEW n \in Nat,
           ExpressionsLead(t), Level(t, n), t[1].op # "lazy", t[1].op # "return"
    PROVE  Level(Tail(t), n)
<1>1. Len(t) \in Nat /\ Len(Tail(t)) = Len(t) - 1 /\ Tail(t) \in Seq(TodoItem)
      /\ \A i \in 1 .. Len(Tail(t)) : Tail(t)[i] = t[i + 1]
  BY TailItems
<1> SUFFICES ASSUME Tail(t) # <<>>, Tight(Tail(t)[1]) PROVE Tail(t)[1].d = n
  BY DEF Level
<1>2. 1 \in 1 .. Len(Tail(t)) /\ 1 \in 1 .. Len(t) - 1
  BY <1>1, EmptySeq
<1>3. Tail(t)[1] = t[2] /\ Leads(t[1], t[2])
  BY <1>1, <1>2 DEF ExpressionsLead
<1> QED
  BY <1>3 DEF Leads, Level

(* A statement has no part of an expression under it.                      *)
LEMMA NextStatement ==
    ASSUME NEW t \in Seq(TodoItem), t # <<>>, NEW n,
           ExpressionsLead(t), ~Tight(t[1]), t[1].op # "return"
    PROVE  Level(Tail(t), n)
<1>1. Len(t) \in Nat /\ Len(Tail(t)) = Len(t) - 1 /\ Tail(t) \in Seq(TodoItem)
      /\ \A i \in 1 .. Len(Tail(t)) : Tail(t)[i] = t[i + 1]
  BY TailItems
<1> SUFFICES ASSUME Tail(t) # <<>>, Tight(Tail(t)[1]) PROVE FALSE
  BY DEF Level
<1>2. 1 \in 1 .. Len(Tail(t)) /\ 1 \in 1 .. Len(t) - 1
  BY <1>1, EmptySeq
<1>3. Tail(t)[1] = t[2] /\ Leads(t[1], t[2])
  BY <1>1, <1>2 DEF ExpressionsLead
<1> QED
  BY <1>3 DEF Leads

(* An expression goes on after a call where it was, and after the value of *)
(* a global with one frame less.                                           *)
LEMMA NextAfterReturn ==
    ASSUME NEW t \in Seq(TodoItem), t # <<>>, ExpressionsLead(t), NEW n \in Nat,
           \/ t[1].op = "return" /\ n = t[1].d
           \/ t[1].op = "lazy" /\ n + 1 = t[1].d
    PROVE  Level(Tail(t), n)
<1>1. /\ Len(t) \in Nat /\ Len(Tail(t)) = Len(t) - 1 /\ Tail(t) \in Seq(TodoItem)
      /\ \A i \in 1 .. Len(Tail(t)) : Tail(t)[i] = t[i + 1]
      /\ \A i \in 1 .. Len(t) : t[i].d \in Nat
  BY TailItems
<1> SUFFICES ASSUME Tail(t) # <<>>, Tight(Tail(t)[1]) PROVE Tail(t)[1].d = n
  BY DEF Level
<1>2. 1 \in 1 .. Len(Tail(t)) /\ 1 \in 1 .. Len(t) - 1 /\ 2 \in 1 .. Len(t)
  BY <1>1, EmptySeq
<1>3. Tail(t)[1] = t[2] /\ Leads(t[1], t[2]) /\ t[2].d \in Nat
  BY <1>1, <1>2 DEF ExpressionsLead
<1> QED
  BY <1>3 DEF Leads

---------------------------------------------------------------------------
(* Walks that are cut short.                                               *)

(* What is cut off by `brk`, `nxt` or `ret` has no part that waits, and it *)
(* ends above a statement or a call.                                       *)
LEMMA UnwindKept ==
    ASSUME NEW t \in Seq(TodoItem), t # <<>>, NEW fs \in Seq(EvalFrame), Kept(t, fs),
           \A i \in 2 .. Len(t) : t[i].d <= Len(fs),
           ~Tight(t[1]), t[1].op \notin Waiting
    PROVE  Kept(Unwind(Tail(t)), fs)
<1> DEFINE r == Tail(t)
<1>1. /\ r \in Seq(TodoItem) /\ Len(t) \in Nat /\ Len(t) >= 1 /\ Len(r) = Len(t) - 1
      /\ \A i \in 1 .. Len(r) : i + 1 \in 2 .. Len(t) /\ r[i] = t[i + 1]
      /\ Len(r) \in Nat /\ Len(fs) \in Nat
  BY TailItems, LenProperties
<1>2. "lazy" \in Waiting /\ "return" \in Waiting /\ "assigned" \in Waiting
      /\ "walk" \notin Waiting /\ "post" \notin Waiting
  BY DEF Waiting
<1>3. \A k \in 1 .. Len(fs) :
        fs[k].kind = "function" => \E i \in Stops(r) : Awaits(r[i], k)
  <2> SUFFICES ASSUME NEW k \in 1 .. Len(fs), fs[k].kind = "function"
               PROVE  \E i \in Stops(r) : Awaits(r[i], k)
    OBVIOUS
  <2>1. PICK i \in 1 .. Len(t) : Awaits(t[i], k)
    BY DEF Kept, FunctionsAwaited
  <2>2. t[i].op \in Waiting
    BY <1>2, <2>1 DEF Awaits
  <2>3. i # 1
    BY <2>2
  <2>4. i - 1 \in 1 .. Len(r) /\ (i - 1) + 1 = i
    BY <1>1, <2>3
  <2>5. r[i - 1] = t[i]
    BY <1>1, <2>4
  <2>6. i - 1 \in Stops(r)
    BY <2>2, <2>4, <2>5 DEF Stops
  <2> QED
    BY <2>1, <2>5, <2>6
<1>4. CASE Stops(r) = {}
  <2>1. Unwind(r) = <<>> /\ Len(<<>>) = 0
    BY <1>4, EmptySeq DEF Unwind
  <2>2. \A k \in 1 .. Len(fs) : fs[k].kind # "function"
    BY <1>3, <1>4
  <2> HIDE DEF r
  <2> QED
    BY <2>1, <2>2
       DEF Kept, FunctionsAwaited, CallsApart, TargetsOwn, ExpressionsLead, Level, r
<1>5. CASE Stops(r) # {}
  <2> DEFINE f == CHOOSE i \in Stops(r) : \A j \in Stops(r) : i <= j
             s == SubSeq(r, f, Len(r))
  <2>1. Stops(r) \in SUBSET Nat /\ Stops(r) \in SUBSET (1 .. Len(r))
    BY <1>1 DEF Stops
  <2>2. f \in Stops(r) /\ \A j \in Stops(r) : f <= j
    <3> HIDE DEF r
    <3>1. \E i \in Stops(r) : \A j \in Stops(r) : i <= j
      BY <1>5, <2>1, LeastIndex
    <3> QED
      BY <3>1
  <2>3. f \in 1 .. Len(r) /\ Unwind(r) = s
    BY <1>5, <2>1, <2>2 DEF Unwind
  <2> HIDE DEF f
  <2>4. /\ Len(s) = Len(r) - f + 1 /\ Len(s) >= 1
        /\ \A i \in 1 .. Len(s) : s[i] = r[f + i - 1]
    <3> HIDE DEF r
    <3>1. f \in 1 .. Len(r) + 1
      BY <1>1, <2>3
    <3>2. /\ Len(s) = Len(r) - f + 1
          /\ \A i \in 1 .. Len(r) - f + 1 : s[i] = r[f + i - 1]
      BY <1>1, <3>1, SuffixItems
    <3> QED
      BY <1>1, <2>3, <3>2
  <2> HIDE DEF s
  <2>5. FunctionsAwaited(s, fs)
    <3> SUFFICES ASSUME NEW k \in 1 .. Len(fs), fs[k].kind = "function"
                 PROVE  \E i \in 1 .. Len(s) : Awaits(s[i], k)
      BY DEF FunctionsAwaited
    <3>1. PICK i \in Stops(r) : Awaits(r[i], k)
      BY <1>3
    <3>2. i \in 1 .. Len(r) /\ f <= i
      BY <2>1, <2>2, <3>1
    <3>3. i - f + 1 \in 1 .. Len(s) /\ f + (i - f + 1) - 1 = i
      BY <1>1, <2>3, <2>4, <3>2
    <3> QED
      BY <2>4, <3>1, <3>3
  <2>6. ~Tight(r[f])
    <3> SUFFICES ASSUME Tight(r[f]) PROVE FALSE
      OBVIOUS
    <3> DEFINE S == {i \in 1 .. f + 1 : \A j \in i .. f + 1 : Tight(t[j])}
    <3>1. r[f] = t[f + 1] /\ f + 1 \in 2 .. Len(t) /\ f \in Nat
      BY <1>1, <2>3
    <3>2. f + 1 \in S
      BY <3>1
    <3>3. S \in SUBSET Nat /\ S # {}
      BY <3>1, <3>2
    <3>4. PICK l \in S : \A i \in S : l <= i
      <4> HIDE DEF S
      <4> QED
        BY <3>3, LeastIndex
    <3>5. l \in 1 .. f + 1 /\ \A j \in l .. f + 1 : Tight(t[j])
      OBVIOUS
    <3>6. l # 1
      BY <3>1, <3>5
    <3>7. l - 1 \in 1 .. Len(t) - 1 /\ (l - 1) + 1 = l /\ l - 1 \in 1 .. f /\ l \in l .. f + 1
      BY <3>1, <3>5, <3>6
    <3>8. Leads(t[l - 1], t[l])
      BY <3>7 DEF Kept, ExpressionsLead
    <3>9. Tight(t[l - 1]) \/ t[l - 1].op = "return"
      BY <3>5, <3>7, <3>8 DEF Leads
    <3>10. t[l - 1].op # "return"
      <4>1. CASE l - 1 = 1
        BY <1>2, <4>1
      <4>2. CASE l - 1 # 1
        <5>1. l - 2 \in 1 .. Len(r) /\ (l - 2) + 1 = l - 1 /\ ~(f <= l - 2)
          BY <1>1, <2>3, <3>1, <3>5, <3>7, <4>2
        <5>2. l - 2 \notin Stops(r) /\ r[l - 2] = t[l - 1]
          BY <1>1, <2>2, <5>1
        <5>3. r[l - 2].op \notin Waiting
          BY <5>1, <5>2 DEF Stops
        <5> QED
          BY <1>2, <5>2, <5>3
      <4> QED
        BY <4>1, <4>2
    <3>11. l - 1 \in S
      <4>1. \A j \in l - 1 .. f + 1 : j = l - 1 \/ j \in l .. f + 1
        BY <3>5
      <4> QED
        BY <3>1, <3>5, <3>7, <3>9, <3>10, <4>1
    <3>12. l <= l - 1
      <4> HIDE DEF S
      <4> QED
        BY <3>4, <3>11
    <3> QED
      BY <3>5, <3>12
  <2>7. Level(s, Len(fs))
    <3>1. s[1] = r[f]
      <4>1. 1 \in 1 .. Len(s) /\ f + 1 - 1 = f
        BY <1>1, <2>3, <2>4
      <4> QED
        BY <2>4, <4>1
    <3> QED
      BY <2>6, <3>1 DEF Level
  <2>8. s = SubSeq(t, f + 1, Len(t)) /\ f + 1 \in 1 .. Len(t) + 1 /\ f + 1 \in 2 .. Len(t)
    <3> DEFINE s2 == SubSeq(t, f + 1, Len(t))
    <3>1. f + 1 \in 1 .. Len(t) + 1 /\ f + 1 \in 2 .. Len(t)
      BY <1>1, <2>3
    <3>2. /\ Len(s2) = Len(t) - (f + 1) + 1 /\ s2 \in Seq(TodoItem)
          /\ \A i \in 1 .. Len(t) - (f + 1) + 1 : s2[i] = t[(f + 1) + i - 1]
      BY <3>1, SuffixItems
    <3>3. Len(s) = Len(s2) /\ s \in Seq(TodoItem)
      <4>1. f \in 1 .. Len(r) + 1
        BY <1>1, <2>3
      <4>2. s \in Seq(TodoItem)
        <5> HIDE DEF r
        <5> QED
          BY <1>1, <4>1, SuffixItems DEF s
      <4> QED
        BY <1>1, <2>3, <2>4, <3>2, <4>2
    <3>4. ASSUME NEW i \in 1 .. Len(s) PROVE s[i] = s2[i]
      <4>1. /\ f + i - 1 \in 1 .. Len(r) /\ (f + i - 1) + 1 = (f + 1) + i - 1
            /\ i \in 1 .. Len(t) - (f + 1) + 1
        BY <1>1, <2>3, <2>4
      <4>2. s[i] = r[f + i - 1] /\ r[f + i - 1] = t[(f + i - 1) + 1]
        BY <1>1, <2>4, <4>1
      <4> QED
        BY <3>2, <4>1, <4>2
    <3> HIDE DEF s2
    <3> QED
      BY <3>1, <3>2, <3>3, <3>4, SeqEqual DEF s2
  <2>9. \A i \in f + 1 .. Len(t) : t[i].d <= Len(fs)
    BY <1>1, <2>8
  <2>10. SameUpTo(Len(fs), fs, fs) /\ Len(fs) \in Int
    BY <1>1 DEF SameUpTo
  <2> HIDE DEF r
  <2>11. Kept(s, fs)
    BY <2>5, <2>7, <2>8, <2>9, <2>10, SuffixKept
  <2> QED
    BY <2>3, <2>11 DEF r
<1> QED
  BY <1>4, <1>5

---------------------------------------------------------------------------
(* What the visits put on the list.                                        *)

(* Two items, the second no part of an expression or the first in one with *)
(* it.                                                                     *)
LEMMA PairLeads ==
    ASSUME NEW a \in TodoItem, NEW b \in TodoItem, a.op = "walk",
           b.op = "return" => b.d < a.d,
           NEW fs, TargetsOwn(<<b>>, fs), Leads(a, b),
           Level(<<a>>, Len(fs))
    PROVE  /\ <<a, b>> \in Seq(TodoItem) /\ <<a, b>> # <<>> /\ Len(<<a, b>>) = 2
           /\ <<a, b>>[1] = a /\ <<a, b>>[2] = b
           /\ CallsApart(<<a, b>>) /\ TargetsOwn(<<a, b>>, fs)
           /\ ExpressionsLead(<<a, b>>) /\ Level(<<a, b>>, Len(fs))
<1> DEFINE t == <<a, b>>
<1>1. t \in Seq(TodoItem) /\ Len(t) = 2 /\ t[1] = a /\ t[2] = b /\ t # <<>>
  BY TwoItems, EmptySeq
<1>2. Len(<<b>>) = 1 /\ <<b>>[1] = b /\ <<a>> # <<>> /\ <<a>>[1] = a
  OBVIOUS
<1>3. b.op = "assigned" /\ b.at # 0 => \A k \in b.at + 1 .. b.d : fs[k].kind # "function"
  BY <1>2 DEF TargetsOwn
<1> HIDE DEF t
<1>4. \A i \in 1 .. Len(t) : (i = 1 /\ t[i] = a) \/ (i = 2 /\ t[i] = b)
  <2>1. \A i \in 1 .. 2 : i = 1 \/ i = 2
    OBVIOUS
  <2> QED
    BY <1>1, <2>1
<1>5. CallsApart(t)
  BY <1>4 DEF CallsApart
<1>6. TargetsOwn(t, fs)
  BY <1>3, <1>4 DEF TargetsOwn
<1>7. ExpressionsLead(t)
  <2>1. \A i \in 1 .. Len(t) - 1 : i = 1
    BY <1>1
  <2> QED
    BY <1>1, <2>1 DEF ExpressionsLead
<1>8. Level(t, Len(fs))
  BY <1>1, <1>2 DEF Level
<1> QED
  BY <1>1, <1>5, <1>6, <1>7, <1>8 DEF t

(* An expression has expressions under it, a statement one expression or   *)
(* statements.                                                             *)
LEMMA ChildrenKinds ==
    ASSUME NEW n \in Node
    PROVE  /\ Children(n) \in Seq(Node)
           /\ IsExpr(n) => \A i \in 1 .. Len(Children(n)) : IsExpr(Children(n)[i])
           /\ ~IsExpr(n) => \/ Len(Children(n)) <= 1
                            \/ \A i \in 1 .. Len(Children(n)) : ~IsExpr(Children(n)[i])
<1>1. Children(n) \in Seq(Node)
  BY TreeAssumption DEF Children
<1>2. CASE n.kind \in {"top", "brace"}
  BY <1>1, <1>2, GrammarAssumption DEF Children, IsExpr, ExprKinds
<1>3. CASE n.kind = "var"
  <2>1. Children(n) = <<>> \/ Children(n) = <<n.init>>
    BY <1>3 DEF Children
  <2> DEFINE x == n.init
  <2>2. ~IsExpr(n)
    BY <1>3 DEF IsExpr, ExprKinds
  <2>3. Len(Children(n)) <= 1
    <3>1. Children(n) = <<>> => Len(Children(n)) <= 1
      BY EmptySeq
    <3>2. Children(n) = <<x>> => Len(Children(n)) <= 1
      <4> HIDE DEF x
      <4> QED
        OBVIOUS
    <3> QED
      BY <2>1, <3>1, <3>2
  <2> QED
    BY <1>1, <2>2, <2>3
<1>4. CASE n.kind \in {"unary", "paren"}
  <2>1. Children(n) = <<n.subexpr>> /\ IsExpr(n.subexpr) /\ IsExpr(n)
    BY <1>4, GrammarAssumption DEF Children, IsExpr, ExprKinds
  <2>2. \A i \in 1 .. Len(<<n.subexpr>>) : <<n.subexpr>>[i] = n.subexpr
    OBVIOUS
  <2> QED
    BY <1>1, <2>1, <2>2
<1>5. CASE n.kind = "binary"
  <2>1. Children(n) = <<n.lhs, n.rhs>> /\ IsExpr(n.lhs) /\ IsExpr(n.rhs) /\ IsExpr(n)
    BY <1>5, GrammarAssumption DEF Children, IsExpr, ExprKinds
  <2>2. \A i \in 1 .. Len(<<n.lhs, n.rhs>>) : <<n.lhs, n.rhs>>[i] \in {n.lhs, n.rhs}
    OBVIOUS
  <2> QED
    BY <1>1, <2>1, <2>2
<1>6. CASE n.kind = "apply"
  <2>1. /\ Children(n) = <<n.callee>> \o n.args /\ IsExpr(n.callee) /\ IsExpr(n)
        /\ \A i \in 1 .. Len(n.args) : IsExpr(n.args[i])
        /\ n.args \in Seq(Node) /\ n.callee \in Node
    BY <1>6, GrammarAssumption, TreeAssumption DEF Children, IsExpr, ExprKinds
  <2> DEFINE a == n.args
             c == <<n.callee>>
  <2>2. c \in Seq(Node) /\ Len(c) = 1 /\ c[1] = n.callee /\ a \in Seq(Node) /\ Len(a) \in Nat
    BY <2>1, LenProperties
  <2> HIDE DEF a, c
  <2>3. Len(c \o a) = 1 + Len(a)
        /\ \A i \in 1 .. 1 + Len(a) : (c \o a)[i] = IF i <= 1 THEN c[i] ELSE a[i - 1]
    <3>1. /\ Len(c \o a) = Len(c) + Len(a)
          /\ \A i \in 1 .. Len(c) + Len(a) :
               (c \o a)[i] = IF i <= Len(c) THEN c[i] ELSE a[i - Len(c)]
      BY <2>2, ConcatProperties
    <3> QED
      BY <2>2, <3>1
  <2>4. \A i \in 1 .. 1 + Len(a) : i = 1 \/ (~(i <= 1) /\ i - 1 \in 1 .. Len(a))
    BY <2>2
  <2>5. \A i \in 1 .. Len(c \o a) : (c \o a)[i] = n.callee \/ \E j \in 1 .. Len(a) : (c \o a)[i] = a[j]
    BY <2>2, <2>3, <2>4
  <2> QED
    BY <1>1, <2>1, <2>5 DEF a, c
<1>7. CASE n.kind \in {"expr_stmt", "ret"}
  <2>1. Children(n) = <<n.expr>> /\ ~IsExpr(n) /\ Len(<<n.expr>>) = 1
    BY <1>7 DEF Children, IsExpr, ExprKinds
  <2> QED
    BY <1>1, <2>1
<1>8. CASE n.kind \notin {"top", "brace", "var", "unary", "paren", "binary", "apply",
                          "expr_stmt", "ret"}
  <2>1. Children(n) = <<>> /\ Len(<<>>) = 0
    BY <1>8 DEF Children
  <2> QED
    BY <1>1, <2>1
<1> QED
  BY <1>2, <1>3, <1>4, <1>5, <1>6, <1>7, <1>8

(* The visits to a node and its children: a part of an expression is below *)
(* parts of the same.                                                      *)
LEMMA VisitsLead ==
    ASSUME NEW n \in Node, NEW d \in Nat
    PROVE  /\ Visits(n, d) \in Seq(TodoItem) /\ Visits(n, d) # <<>>
           /\ \A i \in 1 .. Len(Visits(n, d)) : /\ Visits(n, d)[i].d = d
                                               /\ Visits(n, d)[i].op \in {"walk", "post"}
           /\ ExpressionsLead(Visits(n, d))
           /\ Visits(n, d)[Len(Visits(n, d))] = Item("post", n, d, 0)
<1> DEFINE c == Children(n)
           w == Walks(c, d)
           p == Item("post", n, d, 0)
           v == w \o <<p>>
<1>1. /\ c \in Seq(Node) /\ Len(c) \in Nat
      /\ IsExpr(n) => \A i \in 1 .. Len(c) : IsExpr(c[i])
      /\ ~IsExpr(n) => Len(c) <= 1 \/ \A i \in 1 .. Len(c) : ~IsExpr(c[i])
      /\ \A i \in 1 .. Len(c) : c[i] \in Node
  BY ChildrenKinds, LenProperties, ElementOfSeq
<1> HIDE DEF c
<1>2. /\ "walk" \in Ops /\ "post" \in Ops /\ 0 \in Nat
      /\ p \in TodoItem /\ p.op = "post" /\ p.node = n /\ p.d = d
  BY OneItem DEF Ops
<1>3. /\ w \in Seq(TodoItem) /\ Len(w) = Len(c)
      /\ \A i \in 1 .. Len(c) : w[i].op = "walk" /\ w[i].node = c[i] /\ w[i].d = d
  <2>1. \A i \in 1 .. Len(c) : /\ Item("walk", c[i], d, 0) \in TodoItem
                               /\ Item("walk", c[i], d, 0).op = "walk"
                               /\ Item("walk", c[i], d, 0).node = c[i]
                               /\ Item("walk", c[i], d, 0).d = d
    BY <1>1, <1>2, OneItem
  <2> QED
    BY <1>1, <2>1 DEF Walks
<1> HIDE DEF p, w
<1>4. /\ v \in Seq(TodoItem) /\ Len(v) = Len(c) + 1
      /\ \A i \in 1 .. Len(c) : v[i] = w[i]
      /\ v[Len(c) + 1] = p
  <2>1. v = Append(w, p)
    BY <1>2, <1>3, AppendIsConcat
  <2> QED
    BY <1>2, <1>3, <2>1, AppendProperties
<1>5. Visits(n, d) = v
  BY DEF Visits, v, w, p, c
<1> HIDE DEF v
<1>6. \A i \in 1 .. Len(v) : i \in 1 .. Len(c) \/ i = Len(c) + 1
  BY <1>1, <1>4
<1>7. \A i \in 1 .. Len(v) : v[i].d = d /\ v[i].op \in {"walk", "post"}
  BY <1>2, <1>3, <1>4, <1>6
<1>8. ExpressionsLead(v)
  <2> SUFFICES ASSUME NEW i \in 1 .. Len(v) - 1, Tight(v[i + 1])
               PROVE  Tight(v[i])
    <3>1. \A i \in 1 .. Len(v) - 1 : i \in 1 .. Len(v) /\ i + 1 \in 1 .. Len(v)
      BY <1>1, <1>4
    <3> QED
      BY <1>7, <3>1 DEF ExpressionsLead, Leads
  <2>1. i \in 1 .. Len(c) /\ (i + 1 \in 1 .. Len(c) \/ i + 1 = Len(c) + 1)
    BY <1>1, <1>4
  <2>2. v[i].op = "walk" /\ v[i].node = c[i]
    BY <1>3, <1>4, <2>1
  <2>3. CASE IsExpr(n)
    BY <1>1, <2>1, <2>2, <2>3 DEF Tight
  <2>4. CASE ~IsExpr(n)
    <3>1. CASE i + 1 = Len(c) + 1
      BY <1>2, <1>4, <2>4, <3>1 DEF Tight
    <3>2. CASE i + 1 \in 1 .. Len(c)
      <4>1. v[i + 1].op = "walk" /\ v[i + 1].node = c[i + 1]
        BY <1>3, <1>4, <3>2
      <4>2. ~(Len(c) <= 1)
        BY <1>1, <2>1, <3>2
      <4> QED
        BY <1>1, <2>4, <3>2, <4>1, <4>2 DEF Tight
    <3> QED
      BY <2>1, <3>1, <3>2
  <2> QED
    BY <2>3, <2>4
<1>9. v # <<>> /\ v[Len(v)] = p
  BY <1>1, <1>4, EmptySeq
<1> QED
  BY <1>4, <1>5, <1>7, <1>8, <1>9 DEF p

---------------------------------------------------------------------------
(* The invariant.                                                          *)
CallersInv == IInv /\ (outcome = "run" /\ status # "ERR" => Kept(todo, frames))

(* What is known of the list and the frames.                               *)
LEMMA ListFacts ==
    ASSUME IInv, outcome = "run", todo # <<>>
    PROVE  /\ todo \in Seq(TodoItem) /\ Head(todo) = todo[1] /\ Rest = Tail(todo)
           /\ Here = todo[1].node /\ Here \in Node
           /\ frames \in Seq(EvalFrame) /\ Len(frames) = Depth /\ Depth \in Nat
           /\ todo[1].d \in Nat /\ todo[1].d <= Depth /\ todo[1].at \in Nat
           /\ \A i \in 2 .. Len(todo) : todo[i].d \in Nat /\ todo[i].d <= todo[1].d
           /\ \A i \in 2 .. Len(todo) : todo[i].d <= Depth
           /\ Pops(todo[1]) => \A i \in 2 .. Len(todo) : todo[i].d + 1 <= todo[1].d
<1>1. /\ todo \in Seq(TodoItem) /\ Ordered(todo, Depth) /\ frames \in Seq(EvalFrame)
  BY DEF IInv, WalkGood, ScopeGood
<1>2. /\ Head(todo) = todo[1] /\ Len(todo) \in Nat /\ Len(todo) >= 1
      /\ \A i \in 1 .. Len(todo) : todo[i].d \in Nat /\ todo[i].at \in Nat
  BY <1>1, TailItems
<1>3. Rest = Tail(todo) /\ Here = todo[1].node /\ Here \in Node
  BY <1>2, HeadItem DEF Rest, Here
<1>4. Len(frames) = Depth /\ Depth \in Nat
  BY <1>1, LenProperties DEF Depth
<1>5. \A i \in 2 .. Len(todo) : /\ todo[i].d <= todo[1].d /\ todo[i].d <= Depth
                                /\ Pops(todo[1]) => todo[i].d < todo[1].d
  BY <1>1, <1>2 DEF Ordered
<1>6. \A i \in 2 .. Len(todo) : Pops(todo[1]) => todo[i].d + 1 <= todo[1].d
  BY <1>2, <1>5
<1>7. todo[1].d <= Depth
  BY <1>1, <1>2 DEF Ordered
<1> QED
  BY <1>1, <1>2, <1>3, <1>4, <1>5, <1>6, <1>7

(* A visit that is over and has left the frames alone.                     *)
LEMMA DoneKept ==
    ASSUME IInv, outcome = "run", todo # <<>>, Kept(todo, frames),
           frames' = frames, todo' = Rest, Head(todo).op \notin {"lazy", "return"}
    PROVE  Kept(todo', frames')
<1> DEFINE t == todo
<1>1. /\ t \in Seq(TodoItem) /\ t # <<>> /\ Len(frames) \in Nat /\ Head(t) = t[1]
      /\ t[1].op # "lazy" /\ t[1].op # "return" /\ todo' = Tail(t) /\ Kept(t, frames)
      /\ \A i \in 2 .. Len(t) : t[i].d <= Len(frames)
  BY ListFacts
<1> HIDE DEF t
<1>2. Level(Tail(t), Len(frames))
  BY <1>1, NextLevel DEF Kept
<1>3. \A k \in 1 .. Len(frames) : ~Awaits(t[1], k)
  BY <1>1 DEF Awaits
<1>4. SameUpTo(Len(frames), frames, frames) /\ Len(frames) <= Len(frames)
  BY <1>1 DEF SameUpTo
<1>5. Kept(Tail(t), frames)
  BY <1>1, <1>2, <1>3, <1>4, TailKept
<1> QED
  BY <1>1, <1>5

(* A visit of `brk`, `nxt` or `ret`.                                       *)
LEMMA CutKept ==
    ASSUME IInv, outcome = "run", todo # <<>>, Kept(todo, frames),
           frames' = frames, todo' = Unwind(Rest), Head(todo).op = "post", ~IsExpr(Here)
    PROVE  Kept(todo', frames')
<1>1. /\ todo \in Seq(TodoItem) /\ frames \in Seq(EvalFrame)
      /\ todo' = Unwind(Tail(todo)) /\ ~Tight(todo[1]) /\ todo[1].op \notin Waiting
      /\ \A i \in 2 .. Len(todo) : todo[i].d <= Len(frames)
  BY ListFacts DEF Tight, Waiting
<1> QED
  BY <1>1, UnwindKept

(* Frames that no item below the first counts on are popped.               *)
LEMMA PopKept ==
    ASSUME IInv, outcome = "run", todo # <<>>, Kept(todo, frames),
           NEW d \in 0 .. Depth, frames' = SubSeq(frames, 1, d), todo' = Rest,
           \A k \in 1 .. d : ~Awaits(todo[1], k),
           \A i \in 2 .. Len(todo) : todo[i].d <= d,
           Level(Rest, d)
    PROVE  Kept(todo', frames')
<1> DEFINE fs2 == SubSeq(frames, 1, d)
           t == todo
<1>1. /\ t \in Seq(TodoItem) /\ t # <<>> /\ frames \in Seq(EvalFrame) /\ Len(frames) \in Nat
      /\ Len(frames) = Depth /\ todo' = Tail(t) /\ Kept(t, frames) /\ Level(Tail(t), d)
      /\ \A k \in 1 .. d : ~Awaits(t[1], k)
      /\ \A i \in 2 .. Len(t) : t[i].d <= d
  BY ListFacts
<1>2. Len(fs2) = d /\ \A k \in 1 .. d : fs2[k] = frames[k]
  BY <1>1, SeqIsSequence, Shortened
<1>3. Len(fs2) \in Nat /\ Len(fs2) <= Len(frames) /\ SameUpTo(Len(fs2), frames, fs2)
  BY <1>1, <1>2 DEF SameUpTo
<1> HIDE DEF fs2, t
<1>4. /\ \A k \in 1 .. Len(fs2) : ~Awaits(t[1], k)
      /\ \A i \in 2 .. Len(t) : t[i].d <= Len(fs2)
      /\ Level(Tail(t), Len(fs2))
  BY <1>1, <1>2
<1>5. Kept(Tail(t), fs2)
  BY <1>1, <1>3, <1>4, TailKept
<1> QED
  BY <1>1, <1>5 DEF fs2

(* Two items take the place of a statement, on the frames that are left.   *)
LEMMA StatementPairKept ==
    ASSUME IInv, outcome = "run", todo # <<>>, Kept(todo, frames),
           ~Tight(todo[1]), todo[1].op # "return",
           NEW d \in 0 .. Depth, todo[1].d <= d, frames' = SubSeq(frames, 1, d),
           NEW op \in {"condition", "branch", "loop_condition", "loop_body"},
           NEW n1 \in Node, NEW n2 \in Node,
           todo' = <<Item("walk", n1, d, 0), Item(op, n2, d, 0)>> \o Rest
    PROVE  Kept(todo', frames')
<1> DEFINE a == Item("walk", n1, d, 0)
           b == Item(op, n2, d, 0)
           new == <<a, b>>
           fs2 == SubSeq(frames, 1, d)
           t == todo
<1>1. /\ t \in Seq(TodoItem) /\ t # <<>> /\ frames \in Seq(EvalFrame) /\ Len(frames) = Depth
      /\ todo' = new \o Tail(t) /\ Kept(t, frames) /\ Depth \in Nat /\ t[1].d \in Nat
      /\ \A i \in 2 .. Len(t) : t[i].d <= t[1].d
  BY ListFacts
<1>2. Len(fs2) = d /\ \A k \in 1 .. d : fs2[k] = frames[k]
  BY <1>1, SeqIsSequence, Shortened
<1>3. "walk" \in Ops /\ op \in Ops /\ 0 \in Nat /\ d \in Nat
  BY <1>1 DEF Ops, Waiting
<1>4. a \in TodoItem /\ a.op = "walk" /\ a.d = d
  BY <1>3, OneItem
<1>5. b \in TodoItem /\ b.op = op /\ b.d = d
  BY <1>3, OneItem
<1>6. t[1].op # "lazy" /\ t[1].op # "return" /\ ~Tight(t[1])
  BY DEF Tight
<1> HIDE DEF a, b, fs2, t
<1>7. ~Tight(b) /\ b.op # "return" /\ b.op # "assigned"
  BY <1>5 DEF Tight
<1>8. Leads(a, b)
  BY <1>7 DEF Leads
<1>9. TargetsOwn(<<b>>, fs2)
  <2>1. \A i \in 1 .. Len(<<b>>) : <<b>>[i] = b
    OBVIOUS
  <2> QED
    BY <1>7, <2>1 DEF TargetsOwn
<1>10. Level(<<a>>, Len(fs2))
  BY <1>2, <1>4 DEF Level
<1>11. /\ new \in Seq(TodoItem) /\ new # <<>> /\ Len(new) = 2 /\ new[1] = a /\ new[2] = b
       /\ CallsApart(new) /\ TargetsOwn(new, fs2)
       /\ ExpressionsLead(new) /\ Level(new, Len(fs2))
  BY <1>4, <1>5, <1>7, <1>8, <1>9, <1>10, PairLeads
<1> HIDE DEF new
<1>12. \A i \in 1 .. Len(new) : t[1].d <= new[i].d
  <2>1. \A i \in 1 .. Len(new) : new[i] = a \/ new[i] = b
    <3>1. \A i \in 1 .. 2 : i = 1 \/ i = 2
      OBVIOUS
    <3> QED
      BY <1>11, <3>1
  <2> QED
    BY <1>4, <1>5, <2>1 DEF t
<1>13. SameUpTo(t[1].d, frames, fs2)
  BY <1>1, <1>2 DEF SameUpTo, t
<1>14. \A k \in 1 .. Len(fs2) : fs2[k].kind = "function" =>
                                  k \in 1 .. Len(frames) /\ frames[k].kind = "function"
  BY <1>1, <1>2
<1>15. \A i \in TodoItem : Leads(t[1], i) => Leads(new[Len(new)], i)
  BY <1>6, <1>11 DEF Leads
<1>16. Kept(new \o Tail(t), fs2)
  BY <1>1, <1>6, <1>11, <1>12, <1>13, <1>14, <1>15, GrowKept
<1> QED
  BY <1>1, <1>16 DEF fs2

(* A statement that keeps its frames and goes on with two visits.          *)
LEMMA SameFramesPairKept ==
    ASSUME IInv, outcome = "run", todo # <<>>, Kept(todo, frames), frames' = frames,
           ~Tight(todo[1]), todo[1].op # "return",
           NEW op \in {"condition", "branch", "loop_condition", "loop_body"},
           NEW n1 \in Node, NEW n2 \in Node,
           todo' = <<Item("walk", n1, Depth, 0), Item(op, n2, Depth, 0)>> \o Rest
    PROVE  Kept(todo', frames')
<1>1. /\ frames \in Seq(EvalFrame) /\ Len(frames) = Depth /\ Depth \in Nat
      /\ todo[1].d <= Depth /\ Depth \in 0 .. Depth
  BY ListFacts
<1>2. frames' = SubSeq(frames, 1, Depth)
  BY <1>1, SubSeqFull
<1> QED
  BY <1>1, <1>2, StatementPairKept

(* A node and its children are visited, in its own frame or in a new one   *)
(* that is no function's.                                                  *)
LEMMA VisitsKept ==
    ASSUME IInv, outcome = "run", todo # <<>>, Kept(todo, frames),
           todo[1].op = "walk", NEW d \in Nat, todo' = Visits(Here, d) \o Rest,
           Len(frames') = d, Depth <= d, IsExpr(Here) => d = Depth,
           SameUpTo(Depth, frames, frames'),
           \A k \in 1 .. d : frames'[k].kind = "function" => k <= Depth
    PROVE  Kept(todo', frames')
<1> DEFINE new == Visits(Here, d)
           t == todo
           fs2 == frames'
<1>1. /\ t \in Seq(TodoItem) /\ t # <<>> /\ Len(frames) = Depth /\ Depth \in Nat
      /\ t[1].d \in Nat /\ t[1].d <= Depth /\ Here = t[1].node /\ Here \in Node
      /\ todo' = new \o Tail(t) /\ Kept(t, frames)
      /\ \A i \in 2 .. Len(t) : t[i].d <= t[1].d
  BY ListFacts
<1>2. /\ new \in Seq(TodoItem) /\ new # <<>> /\ ExpressionsLead(new)
      /\ \A i \in 1 .. Len(new) : new[i].d = d /\ new[i].op \in {"walk", "post"}
      /\ new[Len(new)] = Item("post", Here, d, 0)
  BY <1>1, VisitsLead
<1>3. /\ new[Len(new)].op = "post" /\ new[Len(new)].node = Here /\ new[Len(new)].d = d
      /\ Len(new) \in Nat /\ Len(new) >= 1
  BY <1>2, EmptySeq DEF Item
<1> HIDE DEF new, t, fs2
<1>4. CallsApart(new) /\ TargetsOwn(new, fs2)
  BY <1>2 DEF CallsApart, TargetsOwn
<1>5. Level(new, Len(fs2))
  BY <1>2, <1>3 DEF Level, fs2
<1>6. t[1].op = "walk" /\ t[1].op # "lazy" /\ t[1].op # "return"
  BY DEF t
<1>7. SameUpTo(t[1].d, frames, fs2)
  BY <1>1 DEF SameUpTo, fs2
<1>8. \A k \in 1 .. Len(fs2) : fs2[k].kind = "function" =>
                                 k \in 1 .. Len(frames) /\ frames[k].kind = "function"
  BY <1>1 DEF SameUpTo, fs2
<1>9. \A i \in 1 .. Len(new) : t[1].d <= new[i].d
  BY <1>1, <1>2
<1>10. ASSUME NEW b \in TodoItem, Leads(t[1], b) PROVE Leads(new[Len(new)], b)
  <2> SUFFICES ASSUME Tight(b) PROVE Leads(new[Len(new)], b)
    BY DEF Leads
  <2>1. IsExpr(Here) /\ t[1].d = b.d
    BY <1>1, <1>6, <1>10 DEF Leads, Tight
  <2>2. t[1].d = Depth
    BY <1>1, <1>6, <2>1 DEF Kept, Level, Tight
  <2> QED
    BY <1>3, <2>1, <2>2 DEF Leads, Tight
<1>11. Kept(new \o Tail(t), fs2)
  BY <1>1, <1>2, <1>4, <1>5, <1>6, <1>7, <1>8, <1>9, <1>10, GrowKept
<1> QED
  BY <1>1, <1>11 DEF fs2

(* A part of an expression gives way to two, the first a part of it too or *)
(* the body of a function in a new frame.                                  *)
LEMMA ExpressionPairKept ==
    ASSUME IInv, outcome = "run", todo # <<>>, Kept(todo, frames),
           Tight(todo[1]), todo[1].op \notin {"lazy", "return"},
           NEW a \in TodoItem, NEW b \in TodoItem, todo' = <<a, b>> \o Rest,
           a.op = "walk", a.d = Len(frames'), Len(frames') \in {Depth, Depth + 1},
           SameUpTo(Depth, frames, frames'), TargetsOwn(<<b>>, frames'),
           \/ b.op = "assigned" /\ IsExpr(a.node) /\ b.d = Depth /\ Len(frames') = Depth
           \/ b.op = "lazy" /\ IsExpr(a.node) /\ b.d = Depth + 1 /\ Len(frames') = Depth + 1
           \/ b.op = "return" /\ b.d = Depth /\ Len(frames') = Depth + 1
    PROVE  Kept(todo', frames')
<1> DEFINE new == <<a, b>>
           t == todo
           fs2 == frames'
<1>1. /\ t \in Seq(TodoItem) /\ t # <<>> /\ Len(frames) = Depth /\ Depth \in Nat
      /\ t[1].d \in Nat /\ t[1].d <= Depth
      /\ todo' = new \o Tail(t) /\ Kept(t, frames) /\ Tight(t[1])
      /\ t[1].op # "lazy" /\ t[1].op # "return"
      /\ \A i \in 2 .. Len(t) : t[i].d <= t[1].d
  BY ListFacts
<1> HIDE DEF t, fs2
<1>2. t[1].d = Depth
  BY <1>1 DEF Kept, Level
<1>3. Leads(a, b) /\ (b.op = "return" => b.d < a.d)
  BY <1>1 DEF Leads, Tight
<1>4. TargetsOwn(<<b>>, fs2) /\ Level(<<a>>, Len(fs2))
  BY DEF fs2, Level
<1>5. /\ new \in Seq(TodoItem) /\ new # <<>> /\ Len(new) = 2 /\ new[1] = a /\ new[2] = b
      /\ CallsApart(new) /\ TargetsOwn(new, fs2)
      /\ ExpressionsLead(new) /\ Level(new, Len(fs2))
  BY <1>3, <1>4, PairLeads
<1> HIDE DEF new
<1>6. \A i \in 1 .. Len(new) : t[1].d <= new[i].d
  <2>1. \A i \in 1 .. 2 : i = 1 \/ i = 2
    OBVIOUS
  <2>2. \A i \in 1 .. Len(new) : new[i] = a \/ new[i] = b
    BY <1>5, <2>1
  <2> QED
    BY <1>1, <1>2, <2>2
<1>7. SameUpTo(t[1].d, frames, fs2)
  BY <1>2 DEF fs2
<1>8. \A k \in 1 .. Len(fs2) :
        fs2[k].kind = "function" => \/ k \in 1 .. Len(frames) /\ frames[k].kind = "function"
                                    \/ \E i \in 1 .. Len(new) : Awaits(new[i], k)
  <2> SUFFICES ASSUME NEW k \in 1 .. Len(fs2), fs2[k].kind = "function"
               PROVE  \/ k \in 1 .. Len(frames) /\ frames[k].kind = "function"
                      \/ \E i \in 1 .. Len(new) : Awaits(new[i], k)
    OBVIOUS
  <2>1. CASE k \in 1 .. Depth
    BY <1>1, <2>1 DEF SameUpTo, fs2
  <2>2. CASE k \notin 1 .. Depth
    <3>1. k = Depth + 1 /\ Len(frames') = Depth + 1
      BY <1>1, <2>2 DEF fs2
    <3>2. Awaits(b, k)
      BY <1>1, <3>1 DEF Awaits
    <3>3. 2 \in 1 .. Len(new) /\ new[2] = b
      BY <1>5
    <3> QED
      BY <3>2, <3>3
  <2> QED
    BY <2>1, <2>2
<1>9. ASSUME NEW i \in TodoItem, Leads(t[1], i) PROVE Leads(new[Len(new)], i)
  <2> SUFFICES ASSUME Tight(i) PROVE Leads(b, i)
    BY <1>5 DEF Leads
  <2>1. i.d = Depth
    BY <1>1, <1>2, <1>9 DEF Leads
  <2> QED
    BY <1>1, <2>1 DEF Leads, Tight
<1>10. Kept(new \o Tail(t), fs2)
  BY <1>1, <1>5, <1>6, <1>7, <1>8, <1>9, GrowKept
<1> QED
  BY <1>1, <1>10 DEF fs2

---------------------------------------------------------------------------
(* The steps that neither stop the program nor report an error.            *)
Goes == status' # "ERR" /\ outcome' = "run"

VisitOver == /\ outcome = "run" /\ todo # <<>> /\ frames' = frames /\ todo' = Rest
             /\ Head(todo).op \in {"walk", "post", "assigned", "branch"}

(* A step that goes on is no stop.                                         *)
LEMMA StopsNot == \A o \in {"abort", "undefined"} : Goes => ~Stop(o)
BY DEF Goes, Stop

(* A push that goes well.                                                  *)
LEMMA PushIsOver ==
    ASSUME Goes, NEW v, Push(v)
    PROVE  frames' = frames /\ todo' = Rest
BY StopsNot DEF Push, Done, scope

(* The visits of statements that are over at once.                         *)
LEMMA StatementIsOver ==
    ASSUME Goes, DeclareFun \/ DeclareVar \/ Assigned \/ BranchDone \/ ExprStmt \/ EndTop
    PROVE  VisitOver
<1>1. CASE DeclareFun
  <2>1. frames # <<>>
    BY <1>1, StopsNot DEF DeclareFun
  <2> QED
    BY <1>1, <2>1 DEF DeclareFun, Visit, Turn, FailPre, Done, VisitOver, Goes
<1>2. CASE DeclareVar
  BY <1>2, StopsNot DEF DeclareVar, Visit, Turn, FailPost, Done, VisitOver, Goes
<1>3. CASE Assigned
  BY <1>3, StopsNot DEF Assigned, Turn, Done, VisitOver
<1>4. CASE BranchDone
  BY <1>4 DEF BranchDone, Turn, Done, VisitOver, scope
<1>5. CASE ExprStmt
  BY <1>5, StopsNot DEF ExprStmt, Visit, Turn, Done, VisitOver, scope
<1>6. CASE EndTop
  BY <1>6, StopsNot DEF EndTop, Visit, Turn, Done, VisitOver, scope
<1> QED
  BY <1>1, <1>2, <1>3, <1>4, <1>5, <1>6

(* The visits of expressions that are over at once.                        *)
LEMMA ExpressionIsOver ==
    ASSUME Goes, Literal \/ UnaryOp \/ BinaryOp \/ Paren \/ CallPrint
    PROVE  VisitOver
<1>1. CASE Literal
  BY <1>1, PushIsOver DEF Literal, Visit, Turn, VisitOver
<1>2. CASE UnaryOp
  BY <1>2, StopsNot DEF UnaryOp, Visit, Turn, FailPost, Done, VisitOver, Goes, scope
<1>3. CASE BinaryOp
  BY <1>3, StopsNot DEF BinaryOp, Visit, Turn, FailPost, Done, VisitOver, Goes, scope
<1>4. CASE Paren
  BY <1>4 DEF Paren, Visit, Turn, Done, VisitOver, scope
<1>5. CASE CallPrint
  BY <1>5 DEF CallPrint, Visit, Turn, Done, VisitOver, scope
<1> QED
  BY <1>1, <1>2, <1>3, <1>4, <1>5

(* They keep the invariant.                                                *)
LEMMA OverKept == IInv /\ Kept(todo, frames) /\ VisitOver => Kept(todo', frames')
BY DoneKept DEF VisitOver

(* The loop of eval_program.                                               *)
LEMMA TopDeclKept == IInv /\ Kept(todo, frames) /\ TopDecl => Kept(todo', frames')
<1> SUFFICES ASSUME IInv, Kept(todo, frames), TopDecl PROVE Kept(todo', frames')
  OBVIOUS
<1> DEFINE t == todo
           h == Head(todo)
           new == Walks(<<Here>>, h.d)
<1>1. outcome = "run" /\ todo # <<>> /\ h.op = "decl" /\ frames' = frames
  BY DEF TopDecl, Turn, scope
<1>2. CASE Here.kind # "top"
  <2>1. todo' = Rest
    BY <1>2 DEF TopDecl, Done
  <2> QED
    BY <1>1, <2>1, DoneKept
<1>3. CASE Here.kind = "top"
  <2>1. /\ t \in Seq(TodoItem) /\ t # <<>> /\ Len(frames) = Depth /\ Depth \in Nat
        /\ t[1].d \in Nat /\ h = t[1] /\ Here \in Node
        /\ todo' = new \o Tail(t) /\ Kept(t, frames) /\ t[1].op = "decl"
        /\ \A i \in 2 .. Len(t) : t[i].d <= t[1].d
    BY <1>1, <1>3, ListFacts DEF TopDecl, Pre
  <2>2. "walk" \in Ops /\ 0 \in Nat
    BY DEF Ops
  <2> DEFINE a == Item("walk", Here, h.d, 0)
  <2>3. a \in TodoItem /\ a.op = "walk" /\ a.d = t[1].d /\ a.node = Here
    <3> HIDE DEF h, t
    <3> QED
      BY <2>1, <2>2, OneItem
  <2>4. new = <<a>>
    BY DEF Walks
  <2> HIDE DEF new, a, t
  <2>5. new \in Seq(TodoItem) /\ Len(new) = 1 /\ new[1] = a /\ new # <<>>
    BY <2>3, <2>4
  <2>6. ~Tight(a) /\ ~Tight(t[1])
    BY <1>3, <2>1, <2>3 DEF Tight, IsExpr, ExprKinds
  <2>7. \A i \in 1 .. Len(new) : new[i] = a
    BY <2>5
  <2>8. /\ CallsApart(new) /\ TargetsOwn(new, frames) /\ ExpressionsLead(new)
        /\ Level(new, Len(frames))
    <3>1. CallsApart(new) /\ TargetsOwn(new, frames)
      BY <2>3, <2>7 DEF CallsApart, TargetsOwn
    <3>2. ExpressionsLead(new)
      BY <2>5 DEF ExpressionsLead
    <3>3. Level(new, Len(frames))
      BY <2>5, <2>6 DEF Level
    <3> QED
      BY <3>1, <3>2, <3>3
  <2>9. \A i \in 1 .. Len(new) : t[1].d <= new[i].d
    BY <2>1, <2>3, <2>7
  <2>10. \A b \in TodoItem : Leads(t[1], b) => Leads(new[Len(new)], b)
    BY <2>1, <2>6 DEF Leads
  <2>11. SameUpTo(t[1].d, frames, frames)
    BY DEF SameUpTo
  <2>12. Kept(new \o Tail(t), frames)
    BY <2>1, <2>5, <2>8, <2>9, <2>10, <2>11, GrowKept
  <2> QED
    BY <1>1, <2>1, <2>12
<1> QED
  BY <1>2, <1>3

(* Visits to the children, in the same frame.                              *)
LEMMA DescendKept == IInv /\ Kept(todo, frames) /\ Descend => Kept(todo', frames')
<1> SUFFICES ASSUME IInv, Kept(todo, frames), Descend PROVE Kept(todo', frames')
  OBVIOUS
<1>1. /\ outcome = "run" /\ todo # <<>> /\ Head(todo).op = "walk" /\ frames' = frames
      /\ todo' = Visits(Here, Depth) \o Rest
  BY DEF Descend, Turn, Pre, scope
<1>2. todo[1].op = "walk" /\ Len(frames') = Depth /\ Depth \in Nat /\ Depth <= Depth
  BY <1>1, ListFacts
<1>3. SameUpTo(Depth, frames, frames')
  BY <1>1 DEF SameUpTo
<1>4. \A k \in 1 .. Depth : k <= Depth
  BY <1>2
<1> QED
  BY <1>1, <1>2, <1>3, <1>4, VisitsKept

(* A block has a frame of its own.                                         *)
LEMMA EnterBraceKept == IInv /\ Kept(todo, frames) /\ EnterBrace => Kept(todo', frames')
<1> SUFFICES ASSUME IInv, Kept(todo, frames), EnterBrace PROVE Kept(todo', frames')
  OBVIOUS
<1> DEFINE d == Depth + 1
<1>1. /\ outcome = "run" /\ todo # <<>> /\ Head(todo).op = "walk" /\ Here.kind = "brace"
      /\ frames' = Append(frames, Frame("anonymous"))
      /\ todo' = Visits(Here, d) \o Rest
  BY DEF EnterBrace, Visit, Turn, Pre, PushFrame
<1>2. /\ todo[1].op = "walk" /\ Len(frames) = Depth /\ Depth \in Nat /\ d \in Nat
      /\ frames \in Seq(EvalFrame)
  BY <1>1, ListFacts
<1>3. Len(frames') = d /\ (\A k \in 1 .. Depth : frames'[k] = frames[k])
      /\ frames'[d] = Frame("anonymous")
  BY <1>1, <1>2, SeqIsSequence, Appended
<1>4. Frame("anonymous").kind # "function"
  BY DEF Frame
<1>5. SameUpTo(Depth, frames, frames') /\ Depth <= d
  BY <1>2, <1>3 DEF SameUpTo
<1>6. \A k \in 1 .. d : frames'[k].kind = "function" => k <= Depth
  <2> SUFFICES ASSUME NEW k \in 1 .. d, frames'[k].kind = "function" PROVE k <= Depth
    OBVIOUS
  <2>1. k # d
    BY <1>3, <1>4
  <2> QED
    BY <1>2, <2>1
<1>7. ~IsExpr(Here)
  BY <1>1 DEF IsExpr, ExprKinds
<1> HIDE DEF d
<1> QED
  BY <1>1, <1>2, <1>3, <1>5, <1>6, <1>7, VisitsKept

(* Conditionals and loops begin with their condition.                      *)
LEMMA EnterKept ==
    IInv /\ Kept(todo, frames) /\ (EnterIf \/ EnterWhile) => Kept(todo', frames')
<1> SUFFICES ASSUME IInv, Kept(todo, frames), EnterIf \/ EnterWhile
             PROVE  Kept(todo', frames')
  OBVIOUS
<1>1. /\ outcome = "run" /\ todo # <<>> /\ Head(todo).op = "walk" /\ frames' = frames
      /\ Here.kind \in {"if", "while"}
      /\ \E op \in {"condition", "loop_condition"} :
           todo' = <<Item("walk", Here.cond, Depth, 0), Item(op, Here, Depth, 0)>> \o Rest
  BY DEF EnterIf, EnterWhile, LoopHead, Visit, Turn, Pre, scope
<1>2. Here \in Node /\ Here.cond \in Node /\ todo[1].op = "walk" /\ todo[1].node = Here
  BY <1>1, ListFacts, TreeAssumption
<1>3. ~Tight(todo[1]) /\ todo[1].op # "return"
  BY <1>1, <1>2 DEF Tight, IsExpr, ExprKinds
<1> QED
  BY <1>1, <1>2, <1>3, SameFramesPairKept

(* A condition is followed by a branch or a body, or by nothing.           *)
LEMMA DecideKept ==
    ASSUME IInv, Kept(todo, frames), Goes, Condition \/ LoopCondition
    PROVE  Kept(todo', frames')
<1>1. outcome = "run" /\ todo # <<>> /\ Head(todo).op \in {"condition", "loop_condition"}
  BY DEF Condition, LoopCondition, Turn
<1>2. todo[1] = Head(todo) /\ ~Tight(todo[1]) /\ todo[1].op # "return" /\ Rest \in Seq(TodoItem)
      /\ Here \in Node /\ AliveItem(Head(todo), locals, globals) /\ Head(todo).node = Here
  BY <1>1, ListFacts, HeadItem DEF Tight, Here
<1>3. <<>> \o Rest = Rest
  BY <1>2, ConcatEmptySeq
<1>4. ASSUME NEW T, NEW F, Decide(T, F)
      PROVE  frames' = frames /\ (todo' = T \o Rest \/ todo' = F \o Rest)
  BY <1>4 DEF Decide, FailPre, Goes, scope
<1>5. CASE todo' = Rest
  <2>1. frames' = frames
    BY DEF Condition, LoopCondition, Decide, scope
  <2> QED
    BY <1>1, <1>5, <2>1, DoneKept
<1>6. CASE Condition /\ todo' # Rest
  <2> DEFINE F == IF Here.else = None THEN <<>> ELSE BranchOf(Here.else)
  <2>1. Decide(BranchOf(Here.then), F) /\ Head(todo).op = "condition"
    BY <1>6 DEF Condition, Turn
  <2>2. Here.then \in Node /\ Here.else \in Node \cup {None}
    BY <1>2, <2>1, TreeAssumption DEF AliveItem
  <2> HIDE DEF F
  <2>3. frames' = frames /\ (todo' = BranchOf(Here.then) \o Rest \/ todo' = F \o Rest)
    BY <1>4, <2>1
  <2>4. \E n \in Node : todo' = BranchOf(n) \o Rest
    BY <1>3, <1>6, <2>2, <2>3 DEF F
  <2>5. PICK n \in Node :
          todo' = <<Item("walk", n, Depth, 0), Item("branch", n, Depth, 0)>> \o Rest
    BY <2>4 DEF BranchOf
  <2> QED
    BY <1>1, <1>2, <2>3, <2>5, SameFramesPairKept
<1>7. CASE LoopCondition /\ todo' # Rest
  <2> DEFINE T == <<Item("walk", Here.body, Depth, 0), Item("loop_body", Here, Depth, 0)>>
  <2>1. Decide(T, <<>>) /\ Head(todo).op = "loop_condition"
    BY <1>7 DEF LoopCondition, Turn
  <2>2. Here.body \in Node
    BY <1>2, <2>1, TreeAssumption DEF AliveItem
  <2> HIDE DEF T
  <2>3. frames' = frames /\ (todo' = T \o Rest \/ todo' = <<>> \o Rest)
    BY <1>4, <2>1
  <2>4. todo' = T \o Rest
    BY <1>3, <1>7, <2>3
  <2> QED
    BY <1>1, <1>2, <2>2, <2>3, <2>4, SameFramesPairKept DEF T
<1> QED
  BY <1>5, <1>6, <1>7

(* After the body of a loop, in the frame of the loop.                     *)
LEMMA LoopBodyKept ==
    ASSUME IInv, Kept(todo, frames), Goes, LoopBody
    PROVE  Kept(todo', frames')
<1> DEFINE d == todo[1].d
<1>1. /\ outcome = "run" /\ todo # <<>> /\ Head(todo).op = "loop_body" /\ Head(todo) = todo[1]
      /\ todo \in Seq(TodoItem)
  BY ListFacts DEF LoopBody, Turn
<1>2. /\ frames' = SubSeq(frames, 1, d)
      /\ \/ todo' = Rest
         \/ todo' = <<Item("walk", Here.cond, d, 0), Item("loop_condition", Here, d, 0)>> \o Rest
  BY <1>1, StopsNot DEF LoopBody, PopTo, Done
<1>3. /\ d \in 0 .. Depth /\ d \in Nat /\ Here \in Node /\ Here.cond \in Node /\ d <= d
      /\ Rest = Tail(todo) /\ \A i \in 2 .. Len(todo) : todo[i].d <= d
  <2>1. d \in Nat /\ Depth \in Nat /\ d <= Depth /\ Here \in Node /\ Rest = Tail(todo)
        /\ \A i \in 2 .. Len(todo) : todo[i].d <= d
    BY <1>1, ListFacts
  <2>2. Here.kind = "while"
    BY <1>1, HeadItem DEF AliveItem, Here
  <2> QED
    BY <2>1, <2>2, TreeAssumption
<1>4. ~Tight(todo[1]) /\ todo[1].op # "return"
  BY <1>1 DEF Tight
<1>5. CASE todo' = Rest
  <2>1. Level(Rest, d)
    BY <1>1, <1>3, <1>4, NextStatement DEF Kept
  <2>2. \A k \in 1 .. d : ~Awaits(todo[1], k)
    BY <1>1 DEF Awaits
  <2> HIDE DEF d
  <2> QED
    BY <1>1, <1>2, <1>3, <1>5, <2>1, <2>2, PopKept
<1>6. CASE todo' # Rest
  <2>1. todo[1].d <= d
    BY <1>3
  <2> HIDE DEF d
  <2> QED
    BY <1>1, <1>2, <1>3, <1>4, <1>6, <2>1, StatementPairKept
<1> QED
  BY <1>5, <1>6

(* The end of a call.                                                      *)
LEMMA ReturnKept ==
    ASSUME IInv, Kept(todo, frames), Goes, Return
    PROVE  Kept(todo', frames')
<1> DEFINE d == todo[1].d
<1>1. /\ outcome = "run" /\ todo # <<>> /\ Head(todo).op = "return" /\ Head(todo) = todo[1]
      /\ todo \in Seq(TodoItem)
  BY ListFacts DEF Return, Turn
<1>2. frames' = SubSeq(frames, 1, d) /\ todo' = Rest
  BY <1>1, StopsNot DEF Return, PopTo, Done
<1>3. /\ d \in 0 .. Depth /\ d \in Nat
      /\ Rest = Tail(todo) /\ \A i \in 2 .. Len(todo) : todo[i].d <= d
  <2>1. d \in Nat /\ Depth \in Nat /\ d <= Depth /\ Rest = Tail(todo)
        /\ \A i \in 2 .. Len(todo) : todo[i].d <= d
    BY <1>1, ListFacts
  <2> QED
    BY <2>1
<1>4. Level(Rest, d)
  BY <1>1, <1>3, NextAfterReturn DEF Kept
<1>5. \A k \in 1 .. d : ~Awaits(todo[1], k)
  BY <1>1, <1>3 DEF Awaits
<1> HIDE DEF d
<1> QED
  BY <1>1, <1>2, <1>3, <1>4, <1>5, PopKept

(* The end of a block, and of the value of a global: one frame goes.       *)
LEMMA PopOneKept ==
    ASSUME IInv, Kept(todo, frames), Goes, LeaveBrace \/ LazyDone
    PROVE  Kept(todo', frames')
<1> DEFINE d == IF Depth = 0 THEN 0 ELSE Depth - 1
<1>1. /\ outcome = "run" /\ todo # <<>> /\ Head(todo) = todo[1] /\ todo \in Seq(TodoItem)
      /\ \/ todo[1].op = "lazy"
         \/ todo[1].op = "post" /\ todo[1].node.kind = "brace"
      /\ PopOne
  BY ListFacts DEF LeaveBrace, LazyDone, Visit, Turn, Here
<1>2. frames' = SubSeq(frames, 1, d) /\ todo' = Rest
  BY <1>1, StopsNot DEF PopOne, PopTo, Done
<1>3. /\ Pops(todo[1]) /\ Depth \in Nat /\ todo[1].d \in Nat /\ todo[1].d <= Depth
      /\ Rest = Tail(todo) /\ \A i \in 2 .. Len(todo) : todo[i].d \in Nat /\ todo[i].d + 1 <= todo[1].d
  BY <1>1, ListFacts DEF Pops
<1>4. d \in 0 .. Depth /\ d \in Nat /\ \A i \in 2 .. Len(todo) : todo[i].d <= d
  <2>1. d \in 0 .. Depth /\ d \in Nat /\ todo[1].d <= d + 1
    BY <1>3
  <2>2. ASSUME NEW i \in 2 .. Len(todo) PROVE todo[i].d <= d
    <3>1. todo[i].d \in Nat /\ todo[i].d + 1 <= todo[1].d
      BY <1>3
    <3> QED
      BY <1>3, <2>1, <3>1
  <2> QED
    BY <2>1, <2>2
<1>5. CASE todo[1].op = "lazy"
  <2>1. todo[1].d = Depth
    BY <1>3, <1>5, ListFacts, <1>1 DEF Kept, Level, Tight
  <2>2. Level(Rest, d)
    <3>1. CASE Depth = 0
      <4>1. \A i \in 2 .. Len(todo) : FALSE
        BY <1>3, <2>1, <3>1
      <4>2. Tail(todo) = <<>>
        BY <1>1, <4>1, TailItems, EmptySeq
      <4> QED
        BY <1>3, <4>2 DEF Level
    <3>2. CASE Depth # 0
      BY <1>1, <1>3, <1>4, <1>5, <2>1, <3>2, NextAfterReturn DEF Kept
    <3> QED
      BY <3>1, <3>2
  <2>3. \A k \in 1 .. d : ~Awaits(todo[1], k)
    BY <1>3, <1>5, <2>1 DEF Awaits
  <2> HIDE DEF d
  <2> QED
    BY <1>1, <1>2, <1>4, <2>2, <2>3, PopKept
<1>6. CASE todo[1].op = "post" /\ todo[1].node.kind = "brace"
  <2>1. ~Tight(todo[1])
    BY <1>6 DEF Tight, IsExpr, ExprKinds
  <2>2. Level(Rest, d)
    BY <1>1, <1>3, <1>6, <2>1, NextStatement DEF Kept
  <2>3. \A k \in 1 .. d : ~Awaits(todo[1], k)
    BY <1>6 DEF Awaits
  <2> HIDE DEF d
  <2> QED
    BY <1>1, <1>2, <1>4, <2>2, <2>3, PopKept
<1> QED
  BY <1>1, <1>5, <1>6

(* No function's frame is above the one where a name is found.             *)
LEMMA FoundAboveCallers ==
    ASSUME IInv, NEW x
    PROVE  /\ Where(x) \in Nat
           /\ Where(x) # 0 => \A k \in Where(x) + 1 .. Depth : frames[k].kind # "function"
<1>1. Depth \in Nat
  BY LenProperties DEF IInv, ScopeGood, Depth
<1>2. CASE Holders(x) = {}
  BY <1>2 DEF Where
<1>3. CASE Holders(x) # {}
  <2>1. Holders(x) \in SUBSET (0 .. Depth)
    BY <1>1 DEF Holders, InScope
  <2>2. \E i \in Holders(x) : \A j \in Holders(x) : j <= i
    BY <1>1, <1>3, <2>1, GreatestIndex
  <2>3. Where(x) \in Holders(x)
    BY <1>3, <2>2 DEF Where
  <2> QED
    BY <1>1, <2>1, <2>3 DEF Holders, InScope
<1> QED
  BY <1>2, <1>3

(* An assignment waits for its right-hand side.                            *)
LEMMA AssignKept ==
    ASSUME IInv, Kept(todo, frames), Goes, Assign
    PROVE  Kept(todo', frames')
<1> DEFINE x == Here.lhs.name
           a == Item("walk", Here.rhs, Depth, 0)
           b == Item("assigned", Here, Depth, Where(x))
<1>1. /\ outcome = "run" /\ todo # <<>> /\ Head(todo).op = "walk" /\ Here.kind = "binary"
      /\ frames' = frames
  BY DEF Assign, Visit, Turn, scope
<1>2. todo' = <<a, b>> \o Rest
  BY DEF Assign, Pre, FailPre, Goes
<1>3. /\ Here \in Node /\ Here.rhs \in Node /\ IsExpr(Here.rhs) /\ IsExpr(Here)
      /\ todo[1].op = "walk" /\ todo[1].node = Here /\ Len(frames) = Depth /\ Depth \in Nat
      /\ "walk" \in Ops /\ "assigned" \in Ops /\ 0 \in Nat
  BY <1>1, ListFacts, TreeAssumption, GrammarAssumption DEF Ops, Waiting, IsExpr, ExprKinds
<1>4. /\ Where(x) \in Nat
      /\ Where(x) # 0 => \A k \in Where(x) + 1 .. Depth : frames[k].kind # "function"
  BY FoundAboveCallers
<1>5. a \in TodoItem /\ a.op = "walk" /\ a.d = Depth /\ a.node = Here.rhs
  BY <1>3, OneItem
<1>6. b \in TodoItem /\ b.op = "assigned" /\ b.d = Depth /\ b.at = Where(x)
  <2> HIDE DEF x
  <2> QED
    BY <1>3, <1>4, OneItem
<1> HIDE DEF a, b, x
<1>7. TargetsOwn(<<b>>, frames')
  <2>1. \A i \in 1 .. Len(<<b>>) : <<b>>[i] = b
    OBVIOUS
  <2> QED
    BY <1>1, <1>4, <1>6, <2>1 DEF TargetsOwn
<1>8. Tight(todo[1]) /\ todo[1].op \notin {"lazy", "return"}
  BY <1>3 DEF Tight
<1>9. SameUpTo(Depth, frames, frames') /\ Len(frames') \in {Depth, Depth + 1}
      /\ a.d = Len(frames') /\ Len(frames') = Depth
  BY <1>1, <1>3, <1>5 DEF SameUpTo
<1> QED
  BY <1>1, <1>2, <1>3, <1>5, <1>6, <1>7, <1>8, <1>9, ExpressionPairKept

(* The frame of a function is pushed, and somebody waits for it.           *)
LEMMA FunctionPairKept ==
    ASSUME IInv, outcome = "run", todo # <<>>, Kept(todo, frames),
           Tight(todo[1]), todo[1].op = "post",
           frames' = Append(frames, Frame("function")),
           NEW n \in Node, NEW op \in {"lazy", "return"}, NEW d \in Nat, NEW at \in Nat,
           \/ op = "lazy" /\ d = Depth + 1 /\ IsExpr(n)
           \/ op = "return" /\ d = Depth,
           todo' = <<Item("walk", n, Depth + 1, 0), Item(op, Here, d, at)>> \o Rest
    PROVE  Kept(todo', frames')
<1> DEFINE a == Item("walk", n, Depth + 1, 0)
           b == Item(op, Here, d, at)
<1>1. /\ frames \in Seq(EvalFrame) /\ Len(frames) = Depth /\ Depth \in Nat /\ Here \in Node
      /\ "walk" \in Ops /\ op \in Ops /\ 0 \in Nat /\ Depth + 1 \in Nat
  BY ListFacts DEF Ops, Waiting
<1>2. a \in TodoItem /\ a.op = "walk" /\ a.d = Depth + 1 /\ a.node = n
  BY <1>1, OneItem
<1>3. b \in TodoItem /\ b.op = op /\ b.d = d
  BY <1>1, OneItem
<1>4. todo' = <<a, b>> \o Rest
  OBVIOUS
<1>5. Len(frames') = Depth + 1 /\ \A k \in 1 .. Depth : frames'[k] = frames[k]
  BY <1>1, SeqIsSequence, Appended
<1>6. SameUpTo(Depth, frames, frames') /\ Len(frames') \in {Depth, Depth + 1}
  BY <1>5 DEF SameUpTo
<1> HIDE DEF a, b
<1>7. TargetsOwn(<<b>>, frames')
  <2>1. \A i \in 1 .. Len(<<b>>) : <<b>>[i] = b
    OBVIOUS
  <2> QED
    BY <1>3, <2>1 DEF TargetsOwn
<1>8. todo[1].op \notin {"lazy", "return"} /\ a.d = Len(frames')
  BY <1>2, <1>5
<1>9. \/ b.op = "lazy" /\ IsExpr(a.node) /\ b.d = Depth + 1 /\ Len(frames') = Depth + 1
      \/ b.op = "return" /\ b.d = Depth /\ Len(frames') = Depth + 1
  BY <1>2, <1>3, <1>5
<1> QED
  BY <1>2, <1>3, <1>4, <1>6, <1>7, <1>8, <1>9, ExpressionPairKept

(* A name: its value, or the evaluation of a global.                       *)
LEMMA ReferenceKept ==
    ASSUME IInv, Kept(todo, frames), Goes, Reference
    PROVE  Kept(todo', frames')
<1> DEFINE x == Here.name
<1>1. outcome = "run" /\ todo # <<>> /\ Head(todo).op = "post" /\ Here.kind = "ref"
  BY DEF Reference, Visit, Turn
<1>2. CASE x = "print" \/ (Found(x) /\ ValueOf(x).kind # "lazy")
  <2>1. PICK v : Push(v)
    BY <1>2 DEF Reference
  <2> QED
    BY <1>1, <2>1, PushIsOver, DoneKept
<1>3. CASE ~(x = "print" \/ (Found(x) /\ ValueOf(x).kind # "lazy"))
  <2>1. Found(x) /\ ValueOf(x).kind = "lazy" /\ x # "print"
    BY <1>3 DEF Reference, FailPost, Goes
  <2>2. /\ frames' = Append(frames, Frame("function"))
        /\ todo' = <<Item("walk", ValueOf(x).expr, Depth + 1, 0),
                     Item("lazy", Here, Depth + 1, 0)>> \o Rest
    BY <2>1 DEF Reference, Pre, PushFrame
  <2>3. ValueOf(x).expr \in Node /\ IsExpr(ValueOf(x).expr)
    BY <2>1, ValueGood, GoodParts
  <2>4. todo[1].op = "post" /\ todo[1].node = Here /\ Depth + 1 \in Nat /\ 0 \in Nat
    BY <1>1, ListFacts
  <2>5. Tight(todo[1])
    BY <1>1, <2>4 DEF Tight, IsExpr, ExprKinds
  <2> QED
    BY <1>1, <2>2, <2>3, <2>4, <2>5, FunctionPairKept
<1> QED
  BY <1>2, <1>3

(* A call of a function.                                                   *)
LEMMA CallFunctionKept ==
    ASSUME IInv, Kept(todo, frames), Goes, CallFunction
    PROVE  Kept(todo', frames')
<1> DEFINE c  == CalleeSlot
           f  == stack[c]
           ps == f.decl.params
<1>1. /\ outcome = "run" /\ todo # <<>> /\ Head(todo).op = "post" /\ Here.kind = "apply"
      /\ KindAt(c) = "function"
  BY DEF CallFunction, Visit, Turn
<1>2. /\ frames' = Append(frames, Frame("function"))
      /\ todo' = <<Item("walk", f.decl.body, Depth + 1, 0), Item("return", Here, Depth, c)>>
                   \o Rest
  BY StopsNot DEF CallFunction, FailPost, Pre, PushFrame, Goes
<1>3. /\ todo[1].op = "post" /\ todo[1].node = Here /\ Depth \in Nat /\ Here \in Node
  BY <1>1, ListFacts
<1>4. Tight(todo[1])
  BY <1>1, <1>3 DEF Tight, IsExpr, ExprKinds
<1>5. c \in 0 .. StackSize - 1 /\ f.kind = "function"
  <2>1. Here.args \in Seq(Node)
    BY <1>1, <1>3, TreeAssumption
  <2>2. c \in Int
    BY <2>1, LenProperties DEF CalleeSlot, IInv, StackGood
  <2>3. c \in 0 .. StackSize - 1
    BY <1>1, <2>2, SlotInside
  <2> QED
    BY <1>1, <2>3, StackAssumption DEF KindAt
<1>6. f.decl.body \in Node
  <2>1. Good(f)
    BY <1>5 DEF IInv, StackGood
  <2>2. f.decl \in Node /\ f.decl.kind = "fun"
    BY <1>5, <2>1, GoodParts
  <2> QED
    BY <2>2, TreeAssumption
<1>7. c \in Nat /\ "return" \in {"lazy", "return"}
  BY <1>5, StackAssumption
<1> HIDE DEF c, f
<1> QED
  BY <1>1, <1>2, <1>3, <1>4, <1>6, <1>7, FunctionPairKept

(* `brk`, `nxt` and `ret`.                                                 *)
LEMMA JumpKept ==
    IInv /\ Kept(todo, frames) /\ (Break \/ NextOrReturn) => Kept(todo', frames')
<1> SUFFICES ASSUME IInv, Kept(todo, frames), Break \/ NextOrReturn
             PROVE  Kept(todo', frames')
  OBVIOUS
<1>1. /\ outcome = "run" /\ todo # <<>> /\ Head(todo).op = "post" /\ frames' = frames
      /\ todo' = Unwind(Rest) /\ Here.kind \in {"brk", "nxt", "ret"}
  BY DEF Break, NextOrReturn, Visit, Turn, scope
<1>2. ~IsExpr(Here)
  BY <1>1 DEF IsExpr, ExprKinds
<1> QED
  BY <1>1, <1>2, CutKept

(* A step that goes on, not after an error.                                *)
LEMMA GoingKept ==
    ASSUME IInv, status # "ERR", Kept(todo, frames), Goes, Next
    PROVE  Kept(todo', frames')
<1>1. ~(SkipAfterError \/ UnwindAfterError \/ StatusAssertFails \/ CallBad \/ Finish)
  BY StopsNot DEF SkipAfterError, UnwindAfterError, StatusAssertFails, CallBad, FailPost,
                  Finish, Goes
<1>2. CASE TopDecl \/ Descend
  BY <1>2, TopDeclKept, DescendKept
<1>3. CASE Statement
  <2>1. CASE DeclareFun \/ DeclareVar \/ Assigned \/ BranchDone \/ ExprStmt \/ EndTop
    BY <2>1, StatementIsOver, OverKept
  <2>2. CASE Assign
    BY <2>2, AssignKept
  <2>3. CASE EnterBrace \/ LeaveBrace
    BY <2>3, EnterBraceKept, PopOneKept
  <2>4. CASE EnterIf \/ Condition \/ EnterWhile \/ LoopCondition
    BY <2>4, EnterKept, DecideKept
  <2>5. CASE LoopBody
    BY <2>5, LoopBodyKept
  <2>6. CASE Break \/ NextOrReturn
    BY <2>6, JumpKept
  <2> QED
    BY <1>3, <2>1, <2>2, <2>3, <2>4, <2>5, <2>6 DEF Statement
<1>4. CASE Expression
  <2>1. CASE Literal \/ UnaryOp \/ BinaryOp \/ Paren \/ CallPrint
    BY <2>1, ExpressionIsOver, OverKept
  <2>2. CASE Reference \/ CallFunction \/ Return \/ LazyDone
    BY <2>2, ReferenceKept, CallFunctionKept, ReturnKept, PopOneKept
  <2> QED
    BY <1>1, <1>4, <2>1, <2>2 DEF Expression
<1> QED
  BY <1>1, <1>2, <1>3, <1>4 DEF Next

(* Every action needs a program that runs.                                 *)
LEMMA ActsRun == Next => outcome = "run"
BY DEF Next, Statement, Expression, TopDecl, SkipAfterError, UnwindAfterError,
       StatusAssertFails, Descend, DeclareFun, DeclareVar, Assign, Assigned, EnterBrace,
       LeaveBrace, EnterIf, Condition, BranchDone, EnterWhile, LoopCondition, LoopBody,
       ExprStmt, Break, NextOrReturn, EndTop, Literal, Reference, LazyDone, UnaryOp,
       BinaryOp, Paren, CallPrint, CallFunction, CallBad, Return, Finish, Visit, Turn

(* At first nobody waits for anything.                                     *)
LEMMA CallersInit == Init => CallersInv
<1> SUFFICES ASSUME Init PROVE Kept(todo, frames)
  BY InitGood DEF CallersInv
<1>1. frames = <<>> /\ todo = [i \in 1 .. Len(prog) |-> Item("decl", prog[i], 0, 0)]
  BY DEF Init
<1>2. prog \in Seq(Node) /\ Len(prog) \in Nat
  BY ProgramsAssumption, LenProperties DEF Init
<1>3. Len(todo) = Len(prog) /\ \A i \in 1 .. Len(todo) : todo[i].op = "decl"
  <2>1. \A i \in 1 .. Len(prog) : todo[i].op = "decl"
    BY <1>1 DEF Item
  <2>2. todo \in Seq(TodoItem)
    BY InitGood DEF IInv, WalkGood
  <2>3. DOMAIN todo = 1 .. Len(prog) /\ DOMAIN todo = 1 .. Len(todo) /\ Len(todo) \in Nat
    BY <1>1, <2>2, LenProperties
  <2>4. Len(todo) = Len(prog)
    BY <1>2, <2>3
  <2> QED
    BY <2>1, <2>4
<1>4. \A i \in 1 .. Len(todo) : ~Tight(todo[i])
  BY <1>3 DEF Tight
<1>5. FunctionsAwaited(todo, frames)
  BY <1>1, EmptySeq DEF FunctionsAwaited
<1>6. CallsApart(todo) /\ TargetsOwn(todo, frames)
  BY <1>3 DEF CallsApart, TargetsOwn
<1>7. ExpressionsLead(todo)
  BY <1>2, <1>3, <1>4 DEF ExpressionsLead, Leads
<1>8. Level(todo, Len(frames))
  <2>1. ASSUME todo # <<>> PROVE 1 \in 1 .. Len(todo)
    BY <2>1, TailItems, InitGood DEF IInv, WalkGood
  <2> QED
    BY <1>4, <2>1 DEF Level
<1> QED
  BY <1>5, <1>6, <1>7, <1>8 DEF Kept

(* The invariant is preserved by every step.                               *)
LEMMA CallersInvStep == CallersInv /\ [Next]_vars => CallersInv'
<1> SUFFICES ASSUME CallersInv, [Next]_vars, outcome' = "run", status' # "ERR"
             PROVE  Kept(todo', frames')
  BY StepGood DEF CallersInv
<1>1. CASE UNCHANGED vars
  BY <1>1 DEF CallersInv, vars
<1>2. CASE Next
  <2>1. outcome = "run" /\ status # "ERR"
    BY <1>2, ActsRun, SilentStep DEF CallersInv, Silent
  <2> QED
    BY <1>2, <2>1, GoingKept DEF CallersInv, Goes
<1> QED
  BY <1>1, <1>2

---------------------------------------------------------------------------
(* What a step does to the tables of the callers.                          *)

(* The frame of a caller is below the innermost one, and no deeper than    *)
(* what the next item counts on; the frame of the function that hides it   *)
(* has somebody waiting for it.                                            *)
LEMMA CallerBelow ==
    ASSUME IInv, outcome = "run", Kept(todo, frames), NEW i \in CallersFrames
    PROVE  /\ i \in 1 .. Depth /\ i + 1 <= Depth /\ Depth \in Nat
           /\ todo # <<>> /\ i <= todo[1].d
           /\ \E j \in i + 1 .. Depth : frames[j].kind = "function"
<1>1. PICK j \in i + 1 .. Depth : frames[j].kind = "function"
  BY DEF CallersFrames
<1>2. /\ i \in 1 .. Depth /\ Depth \in Nat /\ Len(frames) = Depth
      /\ todo \in Seq(TodoItem) /\ Len(todo) \in Nat
  BY LenProperties DEF CallersFrames, IInv, ScopeGood, WalkGood, Depth
<1>3. j \in 1 .. Len(frames) /\ i + 1 <= j
  BY <1>1, <1>2
<1>4. PICK k \in 1 .. Len(todo) : Awaits(todo[k], j)
  BY <1>1, <1>3 DEF Kept, FunctionsAwaited
<1>5. todo # <<>>
  BY <1>2, <1>4, EmptySeq
<1>6. todo[1].d \in Nat /\ todo[k].d \in Nat /\ todo[k].d <= todo[1].d
  BY <1>2, <1>4, <1>5, ListFacts
<1>7. j <= todo[k].d + 1
  BY <1>4, <1>6 DEF Awaits
<1>8. i <= todo[1].d
  BY <1>2, <1>3, <1>6, <1>7
<1> QED
  BY <1>1, <1>2, <1>3, <1>5, <1>8

(* Most visits leave every table as it is.                                 *)
LEMMA SameTables ==
    ASSUME \/ TopDecl \/ SkipAfterError \/ UnwindAfterError \/ StatusAssertFails \/ Descend
           \/ Assign \/ EnterIf \/ Condition \/ BranchDone \/ EnterWhile \/ LoopCondition
           \/ ExprStmt \/ Break \/ NextOrReturn \/ EndTop
           \/ Literal \/ UnaryOp \/ BinaryOp \/ Paren \/ CallPrint \/ CallBad
    PROVE  locals' = locals
<1>1. \A o : Stop(o) => locals' = locals
  BY DEF Stop
<1>2. \A v : Push(v) => locals' = locals
  BY <1>1 DEF Push, scope
<1>3. CASE TopDecl \/ SkipAfterError \/ UnwindAfterError \/ StatusAssertFails \/ Descend
  BY <1>1, <1>3 DEF TopDecl, SkipAfterError, UnwindAfterError, StatusAssertFails, Descend,
                    scope
<1>4. CASE Assign \/ EnterIf \/ Condition \/ BranchDone \/ EnterWhile \/ LoopCondition
  BY <1>4 DEF Assign, EnterIf, Condition, BranchDone, EnterWhile, LoopCondition, Decide, scope
<1>5. CASE ExprStmt \/ Break \/ NextOrReturn \/ EndTop
  BY <1>1, <1>5 DEF ExprStmt, Break, NextOrReturn, EndTop, scope
<1>6. CASE Literal \/ Paren \/ CallPrint \/ CallBad
  BY <1>1, <1>2, <1>6 DEF Literal, Paren, CallPrint, CallBad, scope
<1>7. CASE UnaryOp \/ BinaryOp
  BY <1>1, <1>7 DEF UnaryOp, BinaryOp, scope
<1> QED
  BY <1>3, <1>4, <1>5, <1>6, <1>7

(* A declaration changes the innermost table only.                         *)
LEMMA DeclaresInnermost ==
    ASSUME IInv, DeclareFun \/ DeclareVar, NEW i \in 1 .. Depth, i + 1 <= Depth
    PROVE  locals'[i] = locals[i]
<1>1. IsSequence(locals) /\ Depth \in Nat /\ i # Depth
  BY LenProperties DEF IInv, ScopeGood, Depth
<1>2. \A names : locals' = [locals EXCEPT ![Depth] = names] => locals'[i] = locals[i]
  BY <1>1 DEF IsSequence
<1>3. \A o : Stop(o) => locals' = locals
  BY DEF Stop
<1>4. CASE DeclareFun
  <2>1. \/ locals' = locals
        \/ \E names : locals' = [locals EXCEPT ![Depth] = names]
    BY <1>3, <1>4 DEF DeclareFun
  <2> QED
    BY <1>2, <2>1
<1>5. CASE DeclareVar
  <2>1. \/ locals' = locals
        \/ \E names : locals' = [locals EXCEPT ![Depth] = names]
    BY <1>3, <1>5 DEF DeclareVar
  <2> QED
    BY <1>2, <2>1
<1> QED
  BY <1>4, <1>5

(* A new frame comes on top of the others.                                 *)
LEMMA PushesOnTop ==
    ASSUME IInv, EnterBrace \/ Reference \/ CallFunction, NEW i \in 1 .. Depth
    PROVE  locals'[i] = locals[i]
<1>1. IsSequence(locals) /\ Len(locals) = Depth
  BY DEF IInv, ScopeGood, Depth
<1>2. \A kind, names : PushFrame(kind, names) => locals'[i] = locals[i]
  BY <1>1, Appended DEF PushFrame
<1>3. \A o : Stop(o) => locals' = locals
  BY DEF Stop
<1>4. \A v : Push(v) => locals' = locals
  BY <1>3 DEF Push, scope
<1>5. CASE EnterBrace
  BY <1>2, <1>5 DEF EnterBrace
<1>6. CASE Reference
  BY <1>2, <1>4, <1>6 DEF Reference, scope
<1>7. CASE CallFunction
  BY <1>2, <1>3, <1>7 DEF CallFunction
<1> QED
  BY <1>5, <1>6, <1>7

(* The frames of the callers stay when frames are popped.                  *)
LEMMA PopsAboveCallers ==
    ASSUME IInv, Kept(todo, frames), LoopBody \/ Return \/ LeaveBrace \/ LazyDone,
           NEW i \in CallersFrames
    PROVE  locals'[i] = locals[i]
<1>1. outcome = "run" /\ todo # <<>>
  BY DEF LoopBody, Return, LeaveBrace, LazyDone, Visit, Turn
<1>2. i \in 1 .. Depth /\ i + 1 <= Depth /\ Depth \in Nat /\ i <= todo[1].d
  BY <1>1, CallerBelow
<1>3. /\ Head(todo) = todo[1] /\ todo[1].d \in Nat /\ todo[1].d <= Depth
      /\ IsSequence(locals) /\ Len(locals) = Depth
  BY <1>1, ListFacts DEF IInv, ScopeGood, Depth
<1>4. ASSUME NEW d \in 0 .. Depth, PopTo(d), i <= d PROVE locals'[i] = locals[i]
  <2>1. i \in 1 .. d /\ d \in 0 .. Len(locals) /\ locals' = SubSeq(locals, 1, d)
    BY <1>2, <1>3, <1>4 DEF PopTo
  <2> QED
    BY <1>3, <2>1, Shortened
<1>5. \A o : Stop(o) => locals' = locals
  BY DEF Stop
<1>6. CASE LoopBody \/ Return
  <2>1. locals' = locals \/ PopTo(todo[1].d)
    BY <1>3, <1>5, <1>6 DEF LoopBody, Return
  <2>2. todo[1].d \in 0 .. Depth
    BY <1>2, <1>3
  <2> QED
    BY <1>2, <1>4, <2>1, <2>2
<1>7. CASE LeaveBrace \/ LazyDone
  <2>1. Depth # 0 /\ Depth - 1 \in 0 .. Depth /\ i <= Depth - 1
    BY <1>2
  <2>2. locals' = locals \/ PopTo(Depth - 1)
    BY <1>5, <1>7, <2>1 DEF LeaveBrace, LazyDone, PopOne
  <2> QED
    BY <1>4, <2>1, <2>2
<1> QED
  BY <1>6, <1>7

(* An assignment stores into the table of a caller at no time.             *)
LEMMA StoresAboveCallers ==
    ASSUME IInv, Kept(todo, frames), Assigned, NEW i \in CallersFrames
    PROVE  locals'[i] = locals[i]
<1> DEFINE at == todo[1].at
<1>1. outcome = "run" /\ todo # <<>> /\ Head(todo).op = "assigned"
  BY DEF Assigned, Turn
<1>2. i \in 1 .. Depth /\ Depth \in Nat
  BY <1>1, CallerBelow
<1>3. PICK j \in i + 1 .. Depth : frames[j].kind = "function"
  BY <1>1, CallerBelow
<1>4. /\ Head(todo) = todo[1] /\ todo[1].op = "assigned" /\ at \in Nat
      /\ IsSequence(locals) /\ Len(locals) = Depth /\ Len(frames) = Depth
  BY <1>1, ListFacts DEF IInv, ScopeGood
<1>5. todo[1].d = Depth
  BY <1>1, <1>4 DEF Kept, Level, Tight
<1>6. at # i
  <2> SUFFICES ASSUME at = i PROVE FALSE
    OBVIOUS
  <2>1. at # 0 /\ 1 \in 1 .. Len(todo)
    BY <1>1, <1>2, TailItems, ListFacts
  <2>2. \A k \in at + 1 .. Depth : frames[k].kind # "function"
    BY <1>4, <1>5, <2>1 DEF Kept, TargetsOwn
  <2> QED
    BY <1>3, <2>2
<1>7. \/ locals' = locals
      \/ \E names : locals' = [locals EXCEPT ![at] = names]
  BY <1>4 DEF Assigned, Stop
<1> QED
  BY <1>2, <1>4, <1>6, <1>7 DEF IsSequence

(* The end of the program: no function is running.                         *)
LEMMA FinishNoCallers ==
    ASSUME IInv, Kept(todo, frames), Finish
    PROVE  CallersFrames = {}
<1>1. outcome = "run" /\ todo = <<>>
  BY DEF Finish
<1> QED
  BY <1>1, CallerBelow

(* A step leaves the tables of the callers alone, unless an error was      *)
(* reported before.                                                        *)
LEMMA CallersStep ==
    CallersInv /\ [Next]_vars =>
      (status = "OK" => \A i \in CallersFrames : locals'[i] = locals[i])
<1> SUFFICES ASSUME CallersInv, [Next]_vars, status = "OK", NEW i \in CallersFrames
             PROVE  locals'[i] = locals[i]
  OBVIOUS
<1>1. CASE UNCHANGED vars
  BY <1>1 DEF vars
<1>2. CASE Next
  <2>1. IInv /\ outcome = "run" /\ Kept(todo, frames)
    BY <1>2, ActsRun DEF CallersInv
  <2>2. i \in 1 .. Depth /\ i + 1 <= Depth
    BY <2>1, CallerBelow
  <2>3. CASE \/ DeclareFun \/ DeclareVar \/ EnterBrace \/ Reference \/ CallFunction
    BY <2>1, <2>2, <2>3, DeclaresInnermost, PushesOnTop
  <2>4. CASE LoopBody \/ Return \/ LeaveBrace \/ LazyDone \/ Assigned
    BY <2>1, <2>4, PopsAboveCallers, StoresAboveCallers
  <2>5. CASE Finish
    BY <2>1, <2>5, FinishNoCallers
  <2> QED
    BY <1>2, <2>3, <2>4, <2>5, SameTables DEF Next, Statement, Expression
<1> QED
  BY <1>1, <1>2

(* In every program, whatever it calls: as long as no error was reported,  *)
(* a step of a running function, of one it calls, or of the value of a     *)
(* global leaves every variable of its callers as it is, whether it        *)
(* assigns, declares, loops, returns early or ends.                        *)
THEOREM CallersAreUntouched == Spec => CallersUntouched
<1>1. Spec => []CallersInv
  BY CallersInit, CallersInvStep, PTL DEF Spec
<1>2. CallersInv /\ [Next]_vars =>
        [status = "OK" => \A i \in CallersFrames : locals'[i] = locals[i]]_vars
  BY CallersStep
<1>3. [](CallersInv) /\ [][Next]_vars =>
        [][status = "OK" => \A i \in CallersFrames : locals'[i] = locals[i]]_vars
  BY <1>2, PTL
<1>4. Spec => [][status = "OK" => \A i \in CallersFrames : locals'[i] = locals[i]]_vars
  BY <1>1, <1>3, PTL DEF Spec
<1> QED
  BY <1>4 DEF CallersUntouched

-----------------------------------------------------------------------------
(* The proof that a call leaves its result right above its callee, and     *)
(* that a program leaves an empty stack: the height of the value stack is  *)
(* what the list of visits accounts for.                                   *)
(*                                                                         *)
(* Each item of `todo` has a height the stack must have when its turn      *)
(* comes, and an effect on it; the items are balanced when the effect of   *)
(* each leads from its height to that of the next one, down to zero at the *)
(* end.  Statements begin at the height their frame began with, which is   *)
(* what a jump relies on when it leaves some of the list out.              *)

(* The body of every function ends in a `ret` on every way.                *)
BodiesReturn == \E T \in SUBSET Node : ReturnsIn(T)

(* The statements that end in a `ret`.                                     *)
Returning == CHOOSE T \in SUBSET Node : ReturnsIn(T)

(* What the list of visits ends with.                                      *)
EndItem  == [op |-> "end", node |-> None, d |-> 0, at |-> 0]
At(t, i) == IF i = Len(t) + 1 THEN EndItem ELSE t[i]

---------------------------------------------------------------------------
(* Heights of the value stack.                                             *)

(* The values a visit after the children of a node pushes, less those it   *)
(* takes.                                                                  *)
PostEffect(n) == IF n.kind \in {"bool", "integer", "ref"} THEN 1
                 ELSE IF n.kind = "binary" THEN -1
                 ELSE IF n.kind = "apply" THEN -Len(n.args)
                 ELSE IF n.kind = "var" /\ n.init # None THEN -1
                 ELSE 0

(* And what an item does with all it puts on the list: an expression       *)
(* leaves its value, and so does a statement that ends in a `ret`.         *)
Effect(a) == IF a.op = "walk" THEN (IF IsExpr(a.node) \/ a.node \in Returning THEN 1 ELSE 0)
             ELSE IF a.op = "post" THEN PostEffect(a.node)
             ELSE IF a.op \in {"assigned", "loop_condition", "return"} THEN -1
             ELSE IF a.op = "condition" THEN (IF a.node \in Returning THEN 0 ELSE -1)
             ELSE 0

(* The end of an expression used as a statement, which drops what it finds *)
(* above the values that were there when the frame began.                  *)
Discards(a) == a.op = "post" /\ a.node.kind = "expr_stmt"

Base(fs, d) == IF d = 0 THEN 0 ELSE fs[d].base

(* The height after an item whose own height is v.                         *)
After(fs, a, v) == IF Discards(a) THEN Base(fs, a.d) ELSE v + Effect(a)

(* The heights that are known without the items around.                    *)
Own(fs, a, v) ==
    /\ (a.op = "walk" /\ ~IsExpr(a.node) /\ a.node.kind # "brace") => v = Base(fs, a.d)
    /\ a.op \in {"decl", "loop_body"} => v = Base(fs, a.d)
    /\ a.op \in {"condition", "loop_condition"} => v = Base(fs, a.d) + 1
    /\ a.op = "return" => v = a.at + 2

(* What takes the value of the item above it.                              *)
Takes(b) == \/ Tight(b)
            \/ Discards(b)
            \/ b.op = "post" /\ b.node.kind = "var" /\ b.node.init # None

(* A `ret` ends the walk of a; it is on its way through b, or at its end.  *)
Ends(a)    == a.op \in {"walk", "post", "branch", "condition"} /\ a.node \in Returning
Through(b) == b.op = "post" /\ b.node.kind = "brace" /\ b.node \in Returning
Closes(b)  == Through(b) \/ b.op = "return" \/ (b.op = "branch" /\ b.node \in Returning)

(* What is under an item.                                                  *)
Link(a, b) ==
    /\ a.op = "assigned" => Discards(b)
    /\ b.d = a.d - (IF Pops(a) THEN 1 ELSE 0) - (IF b.op = "return" THEN 1 ELSE 0)
    /\ Takes(b) => Tight(a) \/ a.op = "return"
    /\ Ends(a) => Closes(b)

Step(fs, a, v, b, w) == /\ Own(fs, a, v)
                        /\ Link(a, b)
                        /\ Discards(b) \/ w = After(fs, a, v)

Labels(fs, t, h) == /\ h \in [1 .. Len(t) + 1 -> Int]
                    /\ h[Len(t) + 1] = 0
                    /\ \A i \in 1 .. Len(t) : Step(fs, t[i], h[i], At(t, i + 1), h[i + 1])

(* The list takes the stack from height v to the empty one.                *)
Balanced(fs, t, v) == \E h : Labels(fs, t, h) /\ h[1] = v

(* The number of frames is what the first item counts on, unless a jump    *)
(* has left some for it to pop.                                            *)
Footing(t, n) == LET a == At(t, 1)
                 IN  a.op # "loop_body" /\ ~Closes(a) => n = a.d

Accounted  == Balanced(frames, todo, vi) /\ Footing(todo, Depth)
BalanceInv == outcome = "run" /\ status # "ERR" => Accounted

---------------------------------------------------------------------------
(* Lists of visits.                                                        *)

(* Nothing takes what the end of the list gives.                           *)
LEMMA EndItemIs ==
    /\ EndItem.op = "end" /\ EndItem.d = 0
    /\ ~Discards(EndItem) /\ ~Takes(EndItem) /\ ~Closes(EndItem)
  BY DEF EndItem, Discards, Takes, Tight, Closes, Through

(* The item an effect leads to.                                            *)
LEMMA LabelsStep ==
    ASSUME NEW fs, NEW t, NEW h, Labels(fs, t, h), Len(t) \in Nat, NEW i \in 1 .. Len(t)
    PROVE  /\ Step(fs, t[i], h[i], At(t, i + 1), h[i + 1])
           /\ h[i] \in Int /\ h[i + 1] \in Int
<1>1. i \in 1 .. Len(t) + 1 /\ i + 1 \in 1 .. Len(t) + 1
  OBVIOUS
<1> QED
  BY <1>1 DEF Labels

(* The items from the k-th on, from the height of that one.                *)
LEMMA SuffixBalanced ==
    ASSUME NEW fs, NEW t \in Seq(TodoItem), NEW h, Labels(fs, t, h), NEW k \in 1 .. Len(t) + 1
    PROVE  Balanced(fs, SubSeq(t, k, Len(t)), h[k])
<1> DEFINE s == SubSeq(t, k, Len(t))
           n == Len(t) - k + 1
           g == [i \in 1 .. n + 1 |-> h[k + i - 1]]
<1>1. Len(t) \in Nat /\ n \in Nat
  BY LenProperties
<1>2. Len(s) = n /\ \A i \in 1 .. n : s[i] = t[k + i - 1]
  BY SuffixItems
<1>3. h \in [1 .. Len(t) + 1 -> Int] /\ h[Len(t) + 1] = 0
  BY DEF Labels
<1>4. \A i \in 1 .. n + 1 : k + i - 1 \in 1 .. Len(t) + 1 /\ g[i] = h[k + i - 1]
  BY <1>1
<1>5. g \in [1 .. n + 1 -> Int]
  BY <1>3, <1>4
<1>6. g[n + 1] = 0 /\ g[1] = h[k]
  <2>1. k + (n + 1) - 1 = Len(t) + 1 /\ k + 1 - 1 = k /\ 1 \in 1 .. n + 1 /\ n + 1 \in 1 .. n + 1
    BY <1>1
  <2> QED
    BY <1>3, <1>4, <2>1
<1> HIDE DEF g, s
<1>7. ASSUME NEW i \in 1 .. n
      PROVE  Step(fs, s[i], g[i], At(s, i + 1), g[i + 1])
  <2>1. PICK j \in 1 .. Len(t) : j = k + i - 1
    BY <1>1
  <2>2. k + (i + 1) - 1 = j + 1 /\ i \in 1 .. n + 1 /\ i + 1 \in 1 .. n + 1
    BY <1>1, <2>1
  <2>3. s[i] = t[j] /\ g[i] = h[j] /\ g[i + 1] = h[j + 1]
    BY <1>2, <1>4, <2>1, <2>2
  <2>4. At(s, i + 1) = At(t, j + 1)
    <3>1. CASE i = n
      <4>1. j = Len(t)
        BY <1>1, <2>1, <3>1
      <4> QED
        BY <1>2, <3>1, <4>1 DEF At
    <3>2. CASE i # n
      <4>1. i + 1 \in 1 .. n /\ j # Len(t) /\ i + 1 # n + 1 /\ j + 1 # Len(t) + 1
        BY <1>1, <2>1, <3>2
      <4>2. s[i + 1] = t[j + 1]
        BY <1>2, <2>2, <4>1
      <4> QED
        BY <1>2, <4>1, <4>2 DEF At
    <3> QED
      BY <3>1, <3>2
  <2>5. Step(fs, t[j], h[j], At(t, j + 1), h[j + 1])
    BY <1>1, LabelsStep
  <2> QED
    BY <2>3, <2>4, <2>5
<1>8. Labels(fs, s, g)
  BY <1>2, <1>5, <1>6, <1>7 DEF Labels
<1> QED
  BY <1>6, <1>8 DEF Balanced, s

(* A list whose first item drops what it finds is balanced at any height.  *)
LEMMA FreeTop ==
    ASSUME NEW fs, NEW t \in Seq(TodoItem), NEW v, Balanced(fs, t, v),
           Discards(At(t, 1)), NEW w \in Int
    PROVE  Balanced(fs, t, w)
<1>1. PICK h : Labels(fs, t, h) /\ h[1] = v
  BY DEF Balanced
<1>2. Len(t) \in Nat /\ Len(t) # 0 /\ At(t, 1) = t[1]
  BY LenProperties, EndItemIs DEF At
<1> DEFINE g == [h EXCEPT ![1] = w]
<1>3. /\ h \in [1 .. Len(t) + 1 -> Int] /\ h[Len(t) + 1] = 0
      /\ g \in [1 .. Len(t) + 1 -> Int] /\ g[1] = w
      /\ \A i \in 1 .. Len(t) + 1 : i # 1 => g[i] = h[i]
  BY <1>1, <1>2 DEF Labels
<1> HIDE DEF g
<1>4. ASSUME NEW i \in 1 .. Len(t)
      PROVE  Step(fs, t[i], g[i], At(t, i + 1), g[i + 1])
  <2>1. Step(fs, t[i], h[i], At(t, i + 1), h[i + 1])
    BY <1>1, <1>2, LabelsStep
  <2>2. i + 1 \in 1 .. Len(t) + 1 /\ i + 1 # 1 /\ i \in 1 .. Len(t) + 1
    BY <1>2
  <2>3. g[i + 1] = h[i + 1]
    BY <1>3, <2>2
  <2>4. CASE i = 1
    <3>1. Discards(t[i]) /\ t[i].op = "post"
      BY <1>2, <2>4 DEF Discards
    <3>2. Own(fs, t[i], g[i]) /\ After(fs, t[i], g[i]) = After(fs, t[i], h[i])
      BY <3>1 DEF Own, After
    <3> QED
      BY <2>1, <2>3, <3>2 DEF Step
  <2>5. CASE i # 1
    BY <1>3, <2>1, <2>2, <2>3, <2>5
  <2> QED
    BY <2>4, <2>5
<1>5. Len(t) + 1 \in 1 .. Len(t) + 1 /\ Len(t) + 1 # 1
  BY <1>2
<1>6. Labels(fs, t, g)
  BY <1>3, <1>4, <1>5 DEF Labels
<1> QED
  BY <1>3, <1>6 DEF Balanced

(* The list without its first item, from the height after that one.        *)
LEMMA TailBalanced ==
    ASSUME NEW fs, NEW t \in Seq(TodoItem), t # <<>>, NEW v \in Int, Balanced(fs, t, v),
           After(fs, Head(t), v) \in Int
    PROVE  /\ Balanced(fs, Tail(t), After(fs, Head(t), v))
           /\ Own(fs, Head(t), v)
           /\ Link(Head(t), At(Tail(t), 1))
<1> DEFINE s == Tail(t)
           a == Head(t)
<1>1. /\ Len(t) \in Nat /\ Len(t) >= 1 /\ a = t[1] /\ s \in Seq(TodoItem)
      /\ Len(s) = Len(t) - 1 /\ \A i \in 1 .. Len(t) - 1 : s[i] = t[i + 1]
  BY HeadTailProperties, LenProperties, EmptySeq
<1>2. PICK h : Labels(fs, t, h) /\ h[1] = v
  BY DEF Balanced
<1>3. s = SubSeq(t, 2, Len(t))
  BY HeadTailProperties
<1>4. 2 \in 1 .. Len(t) + 1 /\ 1 \in 1 .. Len(t) /\ 1 + 1 = 2
  BY <1>1
<1>5. Balanced(fs, s, h[2])
  BY <1>2, <1>3, <1>4, SuffixBalanced
<1>6. Step(fs, a, v, At(t, 2), h[2])
  BY <1>1, <1>2, <1>4, LabelsStep
<1>7. At(t, 2) = At(s, 1)
  <2>1. CASE Len(t) = 1
    BY <1>1, <2>1 DEF At
  <2>2. CASE Len(t) # 1
    <3>1. 1 \in 1 .. Len(t) - 1 /\ 2 # Len(t) + 1 /\ 1 # Len(s) + 1
      BY <1>1, <2>2
    <3>2. s[1] = t[2]
      BY <1>1, <3>1
    <3> QED
      BY <3>1, <3>2 DEF At
  <2> QED
    BY <2>1, <2>2
<1> HIDE DEF s, a
<1>8. Balanced(fs, s, After(fs, a, v))
  <2>1. CASE Discards(At(s, 1))
    BY <1>1, <1>5, <2>1, FreeTop DEF a
  <2>2. CASE ~Discards(At(s, 1))
    BY <1>5, <1>6, <1>7, <2>2 DEF Step
  <2> QED
    BY <2>1, <2>2
<1> QED
  BY <1>6, <1>7, <1>8 DEF Step, s, a

(* New items in front of a balanced list.                                  *)
LEMMA GrowBalanced ==
    ASSUME NEW fs, NEW t \in Seq(TodoItem), NEW new \in Seq(TodoItem),
           NEW h \in [1 .. Len(new) + 1 -> Int],
           Balanced(fs, t, h[Len(new) + 1]),
           \A i \in 1 .. Len(new) :
             Step(fs, new[i], h[i], IF i = Len(new) THEN At(t, 1) ELSE new[i + 1], h[i + 1])
    PROVE  Balanced(fs, new \o t, h[1])
<1> DEFINE u == new \o t
           a == Len(new)
           b == Len(t)
<1>1. PICK k : Labels(fs, t, k) /\ k[1] = h[a + 1]
  BY DEF Balanced
<1>2. /\ Len(u) = a + b /\ a \in Nat /\ b \in Nat
      /\ \A i \in 1 .. a + b : u[i] = IF i <= a THEN new[i] ELSE t[i - a]
  BY ConcatProperties, LenProperties
<1> DEFINE g == [i \in 1 .. a + b + 1 |-> IF i <= a THEN h[i] ELSE k[i - a]]
<1>3. k \in [1 .. b + 1 -> Int] /\ k[b + 1] = 0
  BY <1>1 DEF Labels
<1>4. \A i \in 1 .. a + b + 1 : \/ i <= a /\ i \in 1 .. a + 1
                                \/ ~(i <= a) /\ i - a \in 1 .. b + 1
  BY <1>2
<1>5. g \in [1 .. a + b + 1 -> Int]
  BY <1>3, <1>4
<1>6. \A i \in 1 .. a + b + 1 : /\ i <= a => g[i] = h[i]
                                /\ ~(i <= a) => g[i] = k[i - a]
  OBVIOUS
<1> HIDE DEF g, u
<1>7. \A i \in 1 .. a + 1 : g[i] = h[i]
  <2> SUFFICES ASSUME NEW i \in 1 .. a + 1, ~(i <= a)
               PROVE  g[i] = h[i]
    <3>1. \A i \in 1 .. a + 1 : i \in 1 .. a + b + 1
      BY <1>2
    <3> QED
      BY <1>6, <3>1
  <2>1. i = a + 1 /\ i \in 1 .. a + b + 1 /\ i - a = 1
    BY <1>2
  <2> QED
    BY <1>1, <1>6, <2>1
<1>8. g[a + b + 1] = 0 /\ g[1] = h[1]
  <2> DEFINE e == a + b + 1
  <2>1. e \in 1 .. a + b + 1 /\ ~(e <= a) /\ e - a = b + 1 /\ 1 \in 1 .. a + 1
    BY <1>2
  <2>2. g[e] = k[e - a] /\ g[1] = h[1]
    <3> HIDE DEF e
    <3> QED
      BY <1>6, <1>7, <2>1
  <2>3. g[e] = 0
    <3> HIDE DEF e
    <3> QED
      BY <1>3, <2>1, <2>2
  <2> QED
    BY <2>2, <2>3
<1>9. ASSUME NEW i \in 1 .. a + b
      PROVE  Step(fs, u[i], g[i], At(u, i + 1), g[i + 1])
  <2>1. CASE i <= a
    <3>1. i \in 1 .. a /\ i \in 1 .. a + 1 /\ i + 1 \in 1 .. a + 1
      BY <1>2, <2>1
    <3>2. u[i] = new[i] /\ g[i] = h[i] /\ g[i + 1] = h[i + 1]
      BY <1>2, <1>7, <2>1, <3>1
    <3>3. At(u, i + 1) = IF i = a THEN At(t, 1) ELSE new[i + 1]
      <4>1. CASE i # a
        <5>1. i + 1 \in 1 .. a + b /\ i + 1 <= a /\ i + 1 # a + b + 1
          BY <1>2, <3>1, <4>1
        <5> QED
          BY <1>2, <4>1, <5>1 DEF At
      <4>2. CASE i = a /\ b = 0
        BY <1>2, <4>2 DEF At
      <4>3. CASE i = a /\ b # 0
        <5>1. i + 1 \in 1 .. a + b /\ ~(i + 1 <= a) /\ i + 1 - a = 1 /\ 1 # b + 1
              /\ i + 1 # a + b + 1
          BY <1>2, <4>3
        <5>2. u[i + 1] = t[1]
          BY <1>2, <5>1
        <5> QED
          BY <1>2, <4>3, <5>1, <5>2 DEF At
      <4> QED
        BY <4>1, <4>2, <4>3
    <3> QED
      BY <3>1, <3>2, <3>3
  <2>2. CASE ~(i <= a)
    <3>1. PICK j \in 1 .. b : j = i - a
      BY <1>2, <2>2
    <3>2. i \in 1 .. a + b + 1 /\ i + 1 \in 1 .. a + b + 1 /\ ~(i + 1 <= a) /\ i + 1 - a = j + 1
      BY <1>2, <2>2, <3>1
    <3>3. u[i] = t[j] /\ g[i] = k[j] /\ g[i + 1] = k[j + 1]
      BY <1>2, <1>6, <2>2, <3>1, <3>2
    <3>4. At(u, i + 1) = At(t, j + 1)
      <4>1. CASE j = b
        <5>1. i + 1 = a + b + 1
          BY <1>2, <3>2, <4>1
        <5> QED
          BY <1>2, <4>1, <5>1 DEF At
      <4>2. CASE j # b
        <5>1. i + 1 \in 1 .. a + b /\ i + 1 # a + b + 1 /\ j + 1 # b + 1
          BY <1>2, <3>1, <3>2, <4>2
        <5>2. u[i + 1] = t[j + 1]
          BY <1>2, <3>2, <5>1
        <5> QED
          BY <1>2, <5>1, <5>2 DEF At
      <4> QED
        BY <4>1, <4>2
    <3>5. Step(fs, t[j], k[j], At(t, j + 1), k[j + 1])
      BY <1>1, <1>2, LabelsStep
    <3> QED
      BY <3>3, <3>4, <3>5
  <2> QED
    BY <2>1, <2>2
<1>10. Labels(fs, u, g)
  BY <1>2, <1>5, <1>8, <1>9 DEF Labels
<1> QED
  BY <1>8, <1>10 DEF Balanced, u

(* Two new items.                                                          *)
LEMMA PairBalanced ==
    ASSUME NEW fs, NEW t \in Seq(TodoItem), NEW a \in TodoItem, NEW b \in TodoItem,
           NEW v \in Int, NEW w \in Int, NEW x \in Int, Balanced(fs, t, x),
           Step(fs, a, v, b, w), Step(fs, b, w, At(t, 1), x)
    PROVE  Balanced(fs, <<a, b>> \o t, v)
<1> DEFINE new == <<a, b>>
           h == <<v, w, x>>
<1>1. new \in Seq(TodoItem) /\ Len(new) = 2 /\ new[1] = a /\ new[2] = b
  BY TwoItems
<1>2. h \in [1 .. 2 + 1 -> Int] /\ h[1] = v /\ h[2] = w /\ h[3] = x
  OBVIOUS
<1> HIDE DEF new, h
<1>3. \A i \in 1 .. Len(new) : i = 1 \/ i = 2
  BY <1>1
<1>4. \A i \in 1 .. Len(new) :
        Step(fs, new[i], h[i], IF i = Len(new) THEN At(t, 1) ELSE new[i + 1], h[i + 1])
  <2>1. 1 + 1 = 2 /\ 2 + 1 = 3 /\ 1 # 2
    OBVIOUS
  <2> QED
    BY <1>1, <1>2, <1>3, <2>1
<1>5. Len(new) + 1 = 3 /\ h \in [1 .. Len(new) + 1 -> Int]
  BY <1>1, <1>2
<1>6. Balanced(fs, new \o t, h[1])
  BY <1>1, <1>2, <1>4, <1>5, GrowBalanced
<1> QED
  BY <1>2, <1>6 DEF new

(* One new item.                                                           *)
LEMMA ItemBalanced ==
    ASSUME NEW fs, NEW t \in Seq(TodoItem), NEW a \in TodoItem,
           NEW v \in Int, NEW x \in Int, Balanced(fs, t, x), Step(fs, a, v, At(t, 1), x)
    PROVE  Balanced(fs, <<a>> \o t, v)
<1> DEFINE new == <<a>>
           h == <<v, x>>
<1>1. new \in Seq(TodoItem) /\ Len(new) = 1 /\ new[1] = a
  OBVIOUS
<1>2. h \in [1 .. 1 + 1 -> Int] /\ h[1] = v /\ h[2] = x
  OBVIOUS
<1> HIDE DEF new, h
<1>3. \A i \in 1 .. Len(new) : i = 1
  BY <1>1
<1>4. \A i \in 1 .. Len(new) :
        Step(fs, new[i], h[i], IF i = Len(new) THEN At(t, 1) ELSE new[i + 1], h[i + 1])
  <2>1. 1 + 1 = 2
    OBVIOUS
  <2> QED
    BY <1>1, <1>2, <1>3, <2>1
<1>5. Len(new) + 1 = 2 /\ h \in [1 .. Len(new) + 1 -> Int]
  BY <1>1, <1>2
<1>6. Balanced(fs, new \o t, h[1])
  BY <1>1, <1>2, <1>4, <1>5, GrowBalanced
<1> QED
  BY <1>2, <1>6 DEF new

(* Frames that no item counts on do not matter.                            *)
LEMMA FramesBalanced ==
    ASSUME NEW fs, NEW fs2, NEW t \in Seq(TodoItem), NEW v, Balanced(fs, t, v),
           NEW m \in Nat, \A i \in 1 .. Len(t) : t[i].d <= m,
           \A d \in 1 .. m : fs2[d] = fs[d]
    PROVE  Balanced(fs2, t, v)
<1>1. PICK h : Labels(fs, t, h) /\ h[1] = v
  BY DEF Balanced
<1>2. Len(t) \in Nat
  BY LenProperties
<1>3. ASSUME NEW i \in 1 .. Len(t)
      PROVE  Step(fs2, t[i], h[i], At(t, i + 1), h[i + 1])
  <2>1. Step(fs, t[i], h[i], At(t, i + 1), h[i + 1])
    BY <1>1, <1>2, LabelsStep
  <2>2. t[i].d \in Nat /\ t[i].d <= m
    BY ItemFields
  <2>3. Base(fs2, t[i].d) = Base(fs, t[i].d)
    BY <2>2 DEF Base
  <2> QED
    BY <2>1, <2>3 DEF Step, Own, After
<1>4. Labels(fs2, t, h)
  BY <1>1, <1>3 DEF Labels
<1> QED
  BY <1>1, <1>4 DEF Balanced

(* Heights are whole numbers.                                              *)
LEMMA EffectIsInt ==
    ASSUME NEW a \in TodoItem
    PROVE  Effect(a) \in Int
<1>1. a.node \in Node /\ a.op \in Ops
  BY DEF TodoItem
<1>2. a.node.kind = "apply" => Len(a.node.args) \in Nat
  BY <1>1, TreeAssumption, LenProperties
<1>3. PostEffect(a.node) \in Int
  BY <1>2 DEF PostEffect
<1> QED
  BY <1>3 DEF Effect

(* The height a frame began with is one.                                    *)
LEMMA BaseIsInt ==
    ASSUME NEW fs \in Seq(EvalFrame), NEW d \in 0 .. Len(fs)
    PROVE  Base(fs, d) \in Int
<1>1. d # 0 => fs[d] \in EvalFrame
  <2>1. Len(fs) \in Nat
    BY LenProperties
  <2> QED
    BY <2>1, ElementOfSeq
<1>2. d # 0 => fs[d].base \in Int
  BY <1>1 DEF EvalFrame
<1> QED
  BY <1>2 DEF Base

---------------------------------------------------------------------------
(* Jumps.                                                                  *)

(* The first item that waits is where a walk that is cut short goes on.    *)
LEMMA UnwindAt ==
    ASSUME NEW t \in Seq(TodoItem), NEW k \in 1 .. Len(t), t[k].op \in Waiting,
           \A j \in 1 .. Len(t) : j < k => t[j].op \notin Waiting
    PROVE  /\ Unwind(t) = SubSeq(t, k, Len(t))
           /\ Unwind(t) \in Seq(TodoItem)
           /\ At(Unwind(t), 1) = t[k]
<1>1. Len(t) \in Nat /\ k \in 1 .. Len(t) + 1
  BY LenProperties
<1>2. k \in Stops(t) /\ \A j \in Stops(t) : k <= j
  BY <1>1 DEF Stops
<1>3. \A i \in Stops(t) : (\A j \in Stops(t) : i <= j) => i = k
  BY <1>2 DEF Stops
<1>4. Unwind(t) = SubSeq(t, k, Len(t))
  BY <1>2, <1>3 DEF Unwind
<1> DEFINE s == SubSeq(t, k, Len(t))
<1>5. /\ s \in Seq(TodoItem) /\ Len(s) = Len(t) - k + 1
      /\ \A i \in 1 .. Len(t) - k + 1 : s[i] = t[k + i - 1]
  BY <1>1, SuffixItems
<1>6. s[1] = t[k] /\ 1 # Len(s) + 1
  BY <1>1, <1>5
<1> HIDE DEF s
<1> QED
  BY <1>4, <1>5, <1>6 DEF At, s

(* The height stays the same over items without an effect.                 *)
LEMMA SameHeight ==
    ASSUME NEW fs, NEW t \in Seq(TodoItem), NEW h, Labels(fs, t, h),
           NEW k \in 1 .. Len(t) + 1,
           \A i \in 1 .. Len(t) : i < k => Effect(t[i]) = 0 /\ ~Discards(t[i]),
           \A i \in 1 .. Len(t) : i <= k => ~Discards(t[i])
    PROVE  h[k] = h[1]
<1> DEFINE Bad == {i \in 1 .. k : h[i] # h[1]}
<1>1. Len(t) \in Nat
  BY LenProperties
<1>2. CASE Bad = {}
  BY <1>1, <1>2
<1>3. CASE Bad # {}
  <2>1. Bad \in SUBSET Nat
    OBVIOUS
  <2> HIDE DEF Bad
  <2>2. PICK i \in Bad : \A j \in Bad : i <= j
    BY <1>3, <2>1, LeastIndex
  <2> USE DEF Bad
  <2>3. i \in 1 .. k /\ h[i] # h[1] /\ i # 1
    OBVIOUS
  <2>4. PICK j \in 1 .. Len(t) : j = i - 1
    BY <1>1, <2>3
  <2>5. j \in 1 .. k /\ j < k /\ j + 1 = i /\ ~(i <= j)
    BY <2>3, <2>4
  <2>6. h[j] = h[1]
    BY <2>2, <2>5
  <2>7. Step(fs, t[j], h[j], At(t, i), h[i]) /\ h[j] \in Int
    BY <1>1, <2>5, LabelsStep
  <2>8. ~Discards(At(t, i))
    <3>1. i = Len(t) + 1 \/ i \in 1 .. Len(t)
      BY <1>1, <2>3
    <3> QED
      BY <2>3, <3>1, EndItemIs DEF At
  <2>9. After(fs, t[j], h[j]) = h[j] + 0 /\ h[j] + 0 = h[j]
    BY <2>5, <2>7 DEF After
  <2> QED
    BY <2>3, <2>6, <2>7, <2>8, <2>9 DEF Step
<1> QED
  BY <1>2, <1>3

(* A `ret` goes through the blocks it ends, to the function or the branch  *)
(* that waits for it, and takes nothing from the stack.                    *)
LEMMA UnwindReturn ==
    ASSUME NEW fs, NEW t \in Seq(TodoItem), NEW v, Balanced(fs, t, v), Closes(At(t, 1))
    PROVE  /\ Unwind(t) \in Seq(TodoItem)
           /\ Balanced(fs, Unwind(t), v)
           /\ Closes(At(Unwind(t), 1))
<1>1. PICK h : Labels(fs, t, h) /\ h[1] = v
  BY DEF Balanced
<1>2. Len(t) \in Nat
  BY LenProperties
<1> DEFINE Not == {i \in 1 .. Len(t) + 1 : ~Through(At(t, i))}
<1>3. Len(t) + 1 \in Not
  BY <1>2, EndItemIs DEF At, Closes
<1>4. PICK k \in Not : \A j \in Not : k <= j
  <2>1. Not \in SUBSET Nat /\ Not # {}
    BY <1>3
  <2> HIDE DEF Not
  <2> QED
    BY <2>1, LeastIndex
<1>5. k \in 1 .. Len(t) + 1 /\ ~Through(At(t, k))
  OBVIOUS
<1>6. \A j \in 1 .. Len(t) : j < k => Through(t[j])
  <2> SUFFICES ASSUME NEW j \in 1 .. Len(t), j < k
               PROVE  Through(t[j])
    OBVIOUS
  <2>1. j \notin Not /\ j \in 1 .. Len(t) + 1 /\ j # Len(t) + 1
    BY <1>2, <1>4, <1>5
  <2> QED
    BY <2>1 DEF At
<1> HIDE DEF Not
<1>7. Closes(At(t, k))
  <2>1. CASE k = 1
    BY <2>1
  <2>2. CASE k # 1
    <3>1. PICK j \in 1 .. Len(t) : j = k - 1
      BY <1>2, <1>5, <2>2
    <3>2. j < k /\ j + 1 = k
      BY <1>5, <3>1
    <3>3. Ends(t[j])
      BY <1>6, <3>2 DEF Through, Ends
    <3>4. Link(t[j], At(t, k))
      BY <1>1, <1>2, <3>2, LabelsStep DEF Step
    <3> QED
      BY <3>3, <3>4 DEF Link
  <2> QED
    BY <2>1, <2>2
<1>8. k \in 1 .. Len(t) /\ At(t, k) = t[k]
  BY <1>5, <1>7, EndItemIs DEF At
<1>9. t[k].op \in Waiting
  BY <1>5, <1>7, <1>8 DEF Closes, Waiting
<1>10. \A j \in 1 .. Len(t) : j < k => t[j].op \notin Waiting
  BY <1>6 DEF Through, Waiting
<1>11. /\ Unwind(t) = SubSeq(t, k, Len(t)) /\ Unwind(t) \in Seq(TodoItem)
       /\ At(Unwind(t), 1) = t[k]
  BY <1>8, <1>9, <1>10, UnwindAt
<1>12. \A j \in 1 .. Len(t) : j < k => Effect(t[j]) = 0 /\ ~Discards(t[j])
  <2> SUFFICES ASSUME NEW j \in 1 .. Len(t), j < k
               PROVE  Effect(t[j]) = 0 /\ ~Discards(t[j])
    OBVIOUS
  <2>1. t[j].op = "post" /\ t[j].node.kind = "brace"
    BY <1>6 DEF Through
  <2> QED
    BY <2>1 DEF Effect, PostEffect, Discards
<1>13. ~Discards(t[k])
  BY <1>9 DEF Discards, Waiting
<1>14. h[k] = v
  <2>1. \A j \in 1 .. Len(t) : j <= k => j < k \/ j = k
    BY <1>2, <1>5
  <2> QED
    BY <1>1, <1>5, <1>12, <1>13, <2>1, SameHeight
<1>15. Balanced(fs, SubSeq(t, k, Len(t)), h[k])
  BY <1>1, <1>5, SuffixBalanced
<1> QED
  BY <1>7, <1>8, <1>11, <1>14, <1>15

(* A `brk` or `nxt` leaves statements and ends of blocks only, and takes   *)
(* nothing from the stack.                                                 *)
LEMMA UnwindJump ==
    ASSUME NEW fs, NEW t \in Seq(TodoItem), NEW v, Balanced(fs, t, v),
           CaughtBehind(t, 0), ~Takes(At(t, 1))
    PROVE  /\ Unwind(t) \in Seq(TodoItem)
           /\ Balanced(fs, Unwind(t), v)
           /\ At(Unwind(t), 1).op = "loop_body"
<1>1. PICK h : Labels(fs, t, h) /\ h[1] = v
  BY DEF Balanced
<1>2. Len(t) \in Nat
  BY LenProperties
<1>3. PICK k \in 1 .. Len(t) : /\ t[k].op = "loop_body"
                               /\ \A j \in 1 .. Len(t) : j < k => t[j].op \notin Waiting
  BY DEF CaughtBehind
<1>4. \A j \in 1 .. Len(t) : j < k => /\ At(t, j + 1) = t[j + 1]
                                      /\ j + 1 \in 1 .. Len(t) /\ j + 1 <= k
                                      /\ Link(t[j], t[j + 1])
  <2> SUFFICES ASSUME NEW j \in 1 .. Len(t), j < k
               PROVE  /\ At(t, j + 1) = t[j + 1]
                      /\ j + 1 \in 1 .. Len(t) /\ j + 1 <= k
                      /\ Link(t[j], t[j + 1])
    OBVIOUS
  <2>1. j + 1 \in 1 .. Len(t) /\ j + 1 <= k /\ j + 1 # Len(t) + 1
    BY <1>2, <1>3
  <2>2. Link(t[j], At(t, j + 1))
    BY <1>1, <1>2, LabelsStep DEF Step
  <2> QED
    BY <2>1, <2>2 DEF At
<1>5. \A j \in 1 .. Len(t) : j < k => ~Ends(t[j])
  <2> DEFINE Last == {j \in 0 .. Len(t) : j \in 1 .. Len(t) /\ j < k /\ Ends(t[j])}
  <2> SUFFICES ASSUME Last # {}
               PROVE  FALSE
    <3>1. \A j \in 1 .. Len(t) : j \in 0 .. Len(t)
      OBVIOUS
    <3> QED
      BY <3>1
  <2>1. PICK j \in Last : \A i \in Last : i <= j
    <3>1. Last \in SUBSET (0 .. Len(t))
      OBVIOUS
    <3> HIDE DEF Last
    <3> QED
      BY <1>2, <3>1, GreatestIndex
  <2>2. j \in 1 .. Len(t) /\ j < k /\ Ends(t[j])
    OBVIOUS
  <2>3. Closes(t[j + 1]) /\ j + 1 \in 1 .. Len(t) /\ j + 1 <= k
    BY <1>4, <2>2 DEF Link
  <2>4. CASE j + 1 = k
    BY <1>3, <2>3, <2>4 DEF Closes, Through
  <2>5. CASE j + 1 # k
    <3>1. j + 1 < k
      BY <2>3, <2>5
    <3>2. t[j + 1].op \notin Waiting
      BY <1>3, <2>3, <3>1
    <3>3. Ends(t[j + 1])
      BY <2>3, <3>2 DEF Closes, Through, Ends, Waiting
    <3>4. j + 1 \in Last
      BY <2>3, <3>1, <3>3
    <3>5. j + 1 <= j
      BY <2>1, <3>4
    <3> QED
      BY <2>2, <3>5
  <2> QED
    BY <2>4, <2>5
<1>6. \A i \in 1 .. Len(t) : i <= k => ~Takes(t[i])
  <2> DEFINE Some == {i \in 1 .. Len(t) : i <= k /\ Takes(t[i])}
  <2> SUFFICES ASSUME Some # {}
               PROVE  FALSE
    OBVIOUS
  <2>1. PICK i \in Some : \A j \in Some : i <= j
    <3>1. Some \in SUBSET Nat
      OBVIOUS
    <3> HIDE DEF Some
    <3> QED
      BY <3>1, LeastIndex
  <2>2. i \in 1 .. Len(t) /\ i <= k /\ Takes(t[i])
    OBVIOUS
  <2>3. i # 1
    <3>1. At(t, 1) = t[1]
      BY <1>2, <1>3 DEF At
    <3> QED
      BY <2>2, <3>1
  <2>4. PICK j \in 1 .. Len(t) : j = i - 1
    BY <1>2, <2>2, <2>3
  <2>5. j < k /\ j + 1 = i /\ ~(i <= j)
    BY <1>3, <2>2, <2>4
  <2>6. Tight(t[j]) \/ t[j].op = "return"
    BY <1>4, <2>2, <2>5 DEF Link
  <2>7. Takes(t[j])
    BY <1>3, <2>5, <2>6 DEF Takes, Waiting
  <2>8. j \in Some
    BY <1>3, <2>5, <2>7
  <2> QED
    BY <2>1, <2>5, <2>8
<1>7. \A j \in 1 .. Len(t) : j < k => Effect(t[j]) = 0 /\ ~Discards(t[j])
  <2> SUFFICES ASSUME NEW j \in 1 .. Len(t), j < k
               PROVE  Effect(t[j]) = 0 /\ ~Discards(t[j])
    OBVIOUS
  <2>1. t[j].op \in {"decl", "walk", "post"}
    BY <1>3, ItemFields DEF Ops, Waiting
  <2>2. ~Takes(t[j]) /\ ~Ends(t[j])
    <3>1. j <= k
      BY <1>2, <1>3
    <3> QED
      BY <1>5, <1>6, <3>1
  <2>3. ~Discards(t[j])
    BY <2>2 DEF Takes
  <2>4. CASE t[j].op = "walk"
    BY <2>2, <2>4 DEF Takes, Tight, Ends, Effect
  <2>5. CASE t[j].op = "post"
    <3>1. ~IsExpr(t[j].node)
      BY <2>2, <2>5 DEF Takes, Tight
    <3>2. ~(t[j].node.kind = "var" /\ t[j].node.init # None)
      BY <2>2, <2>5 DEF Takes
    <3>3. PostEffect(t[j].node) = 0
      BY <3>1, <3>2 DEF IsExpr, ExprKinds, PostEffect
    <3> QED
      BY <2>3, <2>5, <3>3 DEF Effect
  <2>6. CASE t[j].op = "decl"
    BY <2>3, <2>6 DEF Effect
  <2> QED
    BY <2>1, <2>3, <2>4, <2>5, <2>6
<1>8. \A i \in 1 .. Len(t) : i <= k => ~Discards(t[i])
  BY <1>6 DEF Takes
<1>9. k \in 1 .. Len(t) + 1 /\ t[k].op \in Waiting
  BY <1>2, <1>3 DEF Waiting
<1>10. h[k] = v
  BY <1>1, <1>7, <1>8, <1>9, SameHeight
<1>11. Balanced(fs, SubSeq(t, k, Len(t)), h[k])
  BY <1>1, <1>9, SuffixBalanced
<1>12. /\ Unwind(t) = SubSeq(t, k, Len(t)) /\ Unwind(t) \in Seq(TodoItem)
       /\ At(Unwind(t), 1) = t[k]
  BY <1>3, <1>9, UnwindAt
<1> QED
  BY <1>3, <1>10, <1>11, <1>12

---------------------------------------------------------------------------
(* What the visits put on the list.                                        *)

(* The statements that end in a `ret`, when there are such.                *)
LEMMA ReturningIs == BodiesReturn => Returning \in SUBSET Node /\ ReturnsIn(Returning)
  BY DEF BodiesReturn, Returning

(* An expression is none of them, nor is a statement of another kind.      *)
LEMMA NotReturning ==
    ASSUME BodiesReturn, NEW n, IsExpr(n) \/ n.kind \notin {"ret", "brace", "if"}
    PROVE  n \notin Returning
  BY ReturningIs DEF ReturnsIn, IsExpr, ExprKinds

(* The walks of the children of a node, and the visit after them, in front *)
(* of a list.                                                              *)
ChildWalks(n, d) == Walks(Children(n), d)
PostOn(n, d, t)  == <<Item("post", n, d, 0)>> \o t

(* The walks of the children.                                              *)
LEMMA ChildWalksAre ==
    ASSUME NEW n \in Node, NEW d \in Nat
    PROVE  /\ Children(n) \in Seq(Node) /\ Len(Children(n)) \in Nat
           /\ ChildWalks(n, d) \in Seq(TodoItem)
           /\ Len(ChildWalks(n, d)) = Len(Children(n))
           /\ \A i \in 1 .. Len(Children(n)) :
                 /\ ChildWalks(n, d)[i].op = "walk" /\ ChildWalks(n, d)[i].d = d
                 /\ ChildWalks(n, d)[i].node = Children(n)[i]
<1>1. Children(n) \in Seq(Node) /\ Len(Children(n)) \in Nat
  BY ChildrenKinds, LenProperties
<1> QED
  BY <1>1, WalksItems, WalksNodes DEF ChildWalks

(* The visit after them.                                                   *)
LEMMA PostOnIs ==
    ASSUME NEW n \in Node, NEW d \in Nat, NEW t \in Seq(TodoItem)
    PROVE  /\ PostOn(n, d, t) \in Seq(TodoItem)
           /\ At(PostOn(n, d, t), 1).op = "post"
           /\ At(PostOn(n, d, t), 1).node = n
           /\ At(PostOn(n, d, t), 1).d = d
           /\ Item("post", n, d, 0) \in TodoItem
<1> DEFINE z == Item("post", n, d, 0)
           one == <<z>>
<1>3. z \in TodoItem /\ z.op = "post" /\ z.node = n /\ z.d = d
  BY OneItem DEF Ops
<1> HIDE DEF z
<1>5. one \in Seq(TodoItem) /\ Len(one) = 1 /\ one[1] = z
  BY <1>3
<1> HIDE DEF one
<1>6. /\ one \o t \in Seq(TodoItem)
      /\ Len(one \o t) = Len(one) + Len(t)
      /\ \A i \in 1 .. Len(one) + Len(t) :
           (one \o t)[i] = IF i <= Len(one) THEN one[i] ELSE t[i - Len(one)]
  <2>1. one \in Seq(TodoItem) /\ t \in Seq(TodoItem)
    BY <1>5
  <2> QED
    BY ONLY <2>1, ConcatProperties, SMTT(30)
<1>7. At(one \o t, 1) = z
  <2>1. Len(t) \in Nat
    BY LenProperties
  <2>2. 1 # Len(one \o t) + 1 /\ (one \o t)[1] = one[1]
    BY <1>5, <1>6, <2>1
  <2> QED
    BY <1>5, <2>2 DEF At
<1> QED
  BY <1>3, <1>6, <1>7 DEF z, one, PostOn

(* The visits of a node are those, one after the other.                    *)
LEMMA VisitsSplit ==
    ASSUME NEW n \in Node, NEW d \in Nat, NEW t \in Seq(TodoItem)
    PROVE  Visits(n, d) \o t = ChildWalks(n, d) \o PostOn(n, d, t)
<1> DEFINE w == ChildWalks(n, d)
           one == <<Item("post", n, d, 0)>>
<1>1. Item("post", n, d, 0) \in TodoItem
  BY PostOnIs
<1>2. w \in Seq(TodoItem) /\ one \in Seq(TodoItem) /\ t \in Seq(TodoItem)
  BY <1>1, ChildWalksAre
<1>3. Visits(n, d) = w \o one
  BY DEF Visits, ChildWalks
<1> HIDE DEF w, one
<1>4. (w \o one) \o t = w \o (one \o t)
  BY ONLY <1>2, ConcatAssociative, SMTT(30)
<1> QED
  BY <1>3, <1>4 DEF w, one, PostOn

(* The walk of an expression puts a value under what comes next.           *)
LEMMA ExpressionStep ==
    ASSUME BodiesReturn, NEW fs, NEW x \in TodoItem, x.op = "walk", IsExpr(x.node),
           NEW y, y.d = x.d, y.op # "return", NEW v \in Int
    PROVE  Step(fs, x, v, y, v + 1)
<1>1. x.node \notin Returning
  BY NotReturning
<1>2. Own(fs, x, v)
  BY DEF Own
<1>3. Link(x, y)
  <2>1. ~Pops(x) /\ Tight(x) /\ ~Ends(x)
    BY <1>1 DEF Pops, Tight, Ends
  <2>2. y.d = x.d - 0 - 0
    BY DEF TodoItem
  <2> QED
    BY <2>1, <2>2 DEF Link
<1>4. After(fs, x, v) = v + 1
  BY DEF After, Discards, Effect
<1> QED
  BY <1>2, <1>3, <1>4 DEF Step

(* The children of a node that has expressions under it push a value each. *)
LEMMA ExpressionsBalanced ==
    ASSUME BodiesReturn, NEW fs, NEW t \in Seq(TodoItem), NEW n \in Node, NEW d \in Nat,
           NEW v \in Int, \A i \in 1 .. Len(Children(n)) : IsExpr(Children(n)[i]),
           Balanced(fs, PostOn(n, d, t), v + Len(Children(n)))
    PROVE  Balanced(fs, Visits(n, d) \o t, v)
<1> DEFINE c == Children(n)
           w == ChildWalks(n, d)
           s == PostOn(n, d, t)
<1>1. /\ c \in Seq(Node) /\ Len(c) \in Nat
      /\ w \in Seq(TodoItem) /\ Len(w) = Len(c)
      /\ \A i \in 1 .. Len(c) : w[i].op = "walk" /\ w[i].node = c[i] /\ w[i].d = d
      /\ s \in Seq(TodoItem)
      /\ At(s, 1).op = "post" /\ At(s, 1).d = d /\ At(s, 1).node = n
      /\ Visits(n, d) \o t = w \o s
  <2>1. /\ c \in Seq(Node) /\ Len(c) \in Nat
        /\ w \in Seq(TodoItem) /\ Len(w) = Len(c)
        /\ \A i \in 1 .. Len(c) : w[i].op = "walk" /\ w[i].node = c[i] /\ w[i].d = d
    BY ChildWalksAre
  <2>2. /\ s \in Seq(TodoItem)
        /\ At(s, 1).op = "post" /\ At(s, 1).d = d /\ At(s, 1).node = n
    BY PostOnIs
  <2>3. Visits(n, d) \o t = w \o s
    BY VisitsSplit
  <2> HIDE DEF c, w, s
  <2> QED
    BY <2>1, <2>2, <2>3
<1>2. Balanced(fs, s, v + Len(c)) /\ \A i \in 1 .. Len(c) : IsExpr(c[i])
  OBVIOUS
<1> HIDE DEF c, w, s
<1> DEFINE h == [i \in 1 .. Len(c) + 1 |-> v + i - 1]
<1>3. /\ h \in [1 .. Len(c) + 1 -> Int]
      /\ \A i \in 1 .. Len(c) : h[i] = v + i - 1 /\ h[i + 1] = v + i - 1 + 1
      /\ h[1] = v /\ h[Len(c) + 1] = v + Len(c)
  <2>1. Len(c) \in Nat
    BY <1>1
  <2> HIDE DEF c
  <2>2. /\ \A i \in 1 .. Len(c) : i \in 1 .. Len(c) + 1 /\ i + 1 \in 1 .. Len(c) + 1
        /\ 1 \in 1 .. Len(c) + 1 /\ Len(c) + 1 \in 1 .. Len(c) + 1
        /\ \A i \in 1 .. Len(c) + 1 : v + i - 1 \in Int
        /\ v + 1 - 1 = v /\ v + (Len(c) + 1) - 1 = v + Len(c)
        /\ \A i \in 1 .. Len(c) : v + (i + 1) - 1 = v + i - 1 + 1
    BY <2>1
  <2> QED
    BY <2>2
<1> HIDE DEF h
<1>4. ASSUME NEW i \in 1 .. Len(w)
      PROVE  Step(fs, w[i], h[i], IF i = Len(w) THEN At(s, 1) ELSE w[i + 1], h[i + 1])
  <2> DEFINE y == IF i = Len(w) THEN At(s, 1) ELSE w[i + 1]
  <2>1. w[i] \in TodoItem /\ w[i].op = "walk" /\ IsExpr(w[i].node) /\ w[i].d = d
    BY <1>1, <1>2, ElementOfSeq
  <2>2. i # Len(w) => i + 1 \in 1 .. Len(c)
    BY <1>1
  <2>3. y.d = d /\ y.op # "return"
    BY <1>1, <2>2
  <2>4. v + i - 1 \in Int /\ h[i] = v + i - 1 /\ h[i + 1] = v + i - 1 + 1
    BY <1>1, <1>3
  <2> HIDE DEF y
  <2>5. Step(fs, w[i], v + i - 1, y, v + i - 1 + 1)
    BY <2>1, <2>3, <2>4, ExpressionStep
  <2> QED
    BY <2>4, <2>5 DEF y
<1>5. Balanced(fs, w \o s, h[1])
  <2>1. w \in Seq(TodoItem) /\ s \in Seq(TodoItem) /\ h \in [1 .. Len(w) + 1 -> Int]
    BY <1>1, <1>3
  <2>2. Balanced(fs, s, h[Len(w) + 1])
    BY <1>1, <1>2, <1>3
  <2> QED
    BY <1>4, <2>1, <2>2, GrowBalanced
<1> QED
  BY <1>1, <1>3, <1>5

(* The statements of a block all begin at the height of its frame; one     *)
(* that ends in a `ret` is the last and leaves its value.                  *)
LEMMA StatementsBalanced ==
    ASSUME BodiesReturn, NEW fs, NEW t \in Seq(TodoItem), NEW n \in Node, NEW d \in Nat,
           n.kind \in {"top", "brace"}, NEW v \in Int, Base(fs, d) = v,
           Balanced(fs, PostOn(n, d, t), IF n \in Returning THEN v + 1 ELSE v)
    PROVE  Balanced(fs, Visits(n, d) \o t, v)
<1> DEFINE c == Children(n)
           w == ChildWalks(n, d)
           s == PostOn(n, d, t)
           end == IF n \in Returning THEN v + 1 ELSE v
           h == [i \in 1 .. Len(c) + 1 |-> IF i = Len(c) + 1 THEN end ELSE v]
<1>1. /\ c \in Seq(Node) /\ Len(c) \in Nat
      /\ w \in Seq(TodoItem) /\ Len(w) = Len(c)
      /\ \A i \in 1 .. Len(c) : w[i].op = "walk" /\ w[i].node = c[i] /\ w[i].d = d
      /\ s \in Seq(TodoItem)
      /\ At(s, 1).op = "post" /\ At(s, 1).d = d /\ At(s, 1).node = n
      /\ Visits(n, d) \o t = w \o s
  <2>1. /\ c \in Seq(Node) /\ Len(c) \in Nat
        /\ w \in Seq(TodoItem) /\ Len(w) = Len(c)
        /\ \A i \in 1 .. Len(c) : w[i].op = "walk" /\ w[i].node = c[i] /\ w[i].d = d
    BY ChildWalksAre
  <2>2. /\ s \in Seq(TodoItem)
        /\ At(s, 1).op = "post" /\ At(s, 1).d = d /\ At(s, 1).node = n
    BY PostOnIs
  <2>3. Visits(n, d) \o t = w \o s
    BY VisitsSplit
  <2> HIDE DEF c, w, s
  <2> QED
    BY <2>1, <2>2, <2>3
<1>2. Balanced(fs, s, end) /\ end \in Int
  OBVIOUS
<1>3. c = n.stmts
  BY DEF Children
<1>4. /\ n \in Returning => n.kind = "brace" /\ Len(c) > 0
      /\ \A i \in 1 .. Len(c) : c[i] \in Returning <=> n \in Returning /\ i = Len(c)
      /\ \A i \in 1 .. Len(c) : ~IsExpr(c[i])
  BY <1>3, ReturningIs, GrammarAssumption DEF ReturnsIn
<1> HIDE DEF c, w, s
<1>5. /\ h \in [1 .. Len(c) + 1 -> Int]
      /\ \A i \in 1 .. Len(c) : h[i] = v /\ h[i + 1] = IF i = Len(c) THEN end ELSE v
      /\ h[Len(c) + 1] = end
  BY <1>1, <1>2
<1>6. h[1] = v
  BY <1>1, <1>4, <1>5
<1> HIDE DEF h
<1>7. ASSUME NEW i \in 1 .. Len(w)
      PROVE  Step(fs, w[i], h[i], IF i = Len(w) THEN At(s, 1) ELSE w[i + 1], h[i + 1])
  <2> DEFINE x == w[i]
             y == IF i = Len(w) THEN At(s, 1) ELSE w[i + 1]
  <2>1. /\ x.op = "walk" /\ ~IsExpr(x.node) /\ x.d = d
        /\ x.node \in Returning <=> n \in Returning /\ i = Len(w)
    BY <1>1, <1>4
  <2>2. i # Len(w) => /\ i + 1 \in 1 .. Len(c) /\ w[i + 1].op = "walk"
                      /\ ~IsExpr(w[i + 1].node) /\ w[i + 1].d = d
    <3>1. i # Len(w) => i + 1 \in 1 .. Len(c)
      BY <1>1
    <3> QED
      BY <1>1, <1>4, <3>1
  <2>3. y.d = d /\ y.op # "return"
    BY <1>1, <2>2
  <2>4. ~Takes(y)
    <3>1. CASE i = Len(w)
      BY <1>1, <3>1 DEF Takes, Tight, Discards, IsExpr, ExprKinds
    <3>2. CASE i # Len(w)
      BY <2>2, <3>2 DEF Takes, Tight, Discards
    <3> QED
      BY <3>1, <3>2
  <2>5. x.node \in Returning => Closes(y)
    BY <1>1, <1>4, <2>1 DEF Closes, Through
  <2>6. After(fs, x, v) = IF x.node \in Returning THEN v + 1 ELSE v
    <3>1. v + 0 = v
      OBVIOUS
    <3> QED
      BY <2>1, <3>1 DEF After, Discards, Effect
  <2>7. h[i] = v /\ h[i + 1] = After(fs, x, v)
    BY <1>1, <1>5, <2>1, <2>6
  <2> HIDE DEF x, y
  <2>8. Own(fs, x, v)
    BY <2>1 DEF Own
  <2>9. Link(x, y)
    <3>1. ~Pops(x) /\ x.op # "assigned"
      BY <2>1 DEF Pops
    <3>2. y.d = x.d - 0 - 0
      BY <2>1, <2>3
    <3> QED
      BY <2>3, <2>4, <2>5, <3>1, <3>2 DEF Link, Ends
  <2> QED
    BY <2>7, <2>8, <2>9 DEF Step, x, y
<1>8. Balanced(fs, w \o s, h[1])
  <2>1. w \in Seq(TodoItem) /\ s \in Seq(TodoItem) /\ h \in [1 .. Len(w) + 1 -> Int]
    BY <1>1, <1>5
  <2>2. Balanced(fs, s, h[Len(w) + 1])
    BY <1>1, <1>2, <1>5
  <2> QED
    BY <1>7, <2>1, <2>2, GrowBalanced
<1> QED
  BY <1>1, <1>6, <1>8

---------------------------------------------------------------------------
(* The steps that go on.                                                   *)

(* What the first item tells of the stack and of what is under it.         *)
LEMMA TopFacts ==
    ASSUME IInv, Accounted, outcome = "run", todo # <<>>
    PROVE  /\ vi \in Int /\ After(frames, Head(todo), vi) \in Int
           /\ Balanced(frames, Rest, After(frames, Head(todo), vi))
           /\ Own(frames, Head(todo), vi)
           /\ Link(Head(todo), At(Rest, 1))
           /\ Head(todo).op # "loop_body" /\ ~Closes(Head(todo)) => Head(todo).d = Depth
<1>1. /\ todo \in Seq(TodoItem) /\ Head(todo) = todo[1] /\ Rest = Tail(todo)
      /\ frames \in Seq(EvalFrame) /\ Len(frames) = Depth /\ Depth \in Nat
      /\ todo[1].d \in Nat /\ todo[1].d <= Depth
  BY ListFacts
<1>2. Head(todo) \in TodoItem
  BY HeadItem
<1>3. vi \in Int
  BY DEF IInv, StackGood
<1>4. Base(frames, Head(todo).d) \in Int
  <2>1. Head(todo).d \in 0 .. Len(frames)
    BY <1>1
  <2> QED
    BY <1>1, <2>1, BaseIsInt
<1>5. After(frames, Head(todo), vi) \in Int
  <2>1. Effect(Head(todo)) \in Int
    BY <1>2, EffectIsInt
  <2>2. vi + Effect(Head(todo)) \in Int
    BY <1>3, <2>1
  <2> QED
    BY <1>4, <2>2 DEF After
<1>6. Balanced(frames, todo, vi) /\ Footing(todo, Depth)
  BY DEF Accounted
<1>7. At(todo, 1) = Head(todo)
  <2>1. Len(todo) \in Nat /\ Len(todo) # 0
    BY <1>1, LenProperties, EmptySeq
  <2>2. 1 # Len(todo) + 1
    BY <2>1
  <2> QED
    BY <1>1, <2>2 DEF At
<1>8. /\ Balanced(frames, Rest, After(frames, Head(todo), vi))
      /\ Own(frames, Head(todo), vi)
      /\ Link(Head(todo), At(Rest, 1))
  BY <1>1, <1>3, <1>5, <1>6, TailBalanced
<1> QED
  BY <1>3, <1>5, <1>6, <1>7, <1>8 DEF Footing

(* What is under the first item, and the frames it counts on.              *)
LEMMA UnderFacts ==
    ASSUME IInv, outcome = "run", todo # <<>>
    PROVE  /\ Rest \in Seq(TodoItem)
           /\ At(Rest, 1).d \in Nat
           /\ \A i \in 1 .. Len(Rest) : /\ Rest[i].d \in Nat /\ Rest[i].d <= Head(todo).d
                                        /\ Pops(Head(todo)) => Rest[i].d + 1 <= Head(todo).d
<1>1. /\ todo \in Seq(TodoItem) /\ Head(todo) = todo[1] /\ Rest = Tail(todo)
      /\ \A i \in 2 .. Len(todo) : todo[i].d \in Nat /\ todo[i].d <= todo[1].d
      /\ Pops(todo[1]) => \A i \in 2 .. Len(todo) : todo[i].d + 1 <= todo[1].d
  BY ListFacts
<1>2. /\ Rest \in Seq(TodoItem)
      /\ \A i \in 1 .. Len(Rest) : i + 1 \in 2 .. Len(todo) /\ Rest[i] = todo[i + 1]
  BY <1>1, TailItems
<1>3. At(Rest, 1).d \in Nat
  <2>1. CASE Len(Rest) = 0
    BY <2>1, EndItemIs DEF At
  <2>2. CASE Len(Rest) # 0
    <3>1. Len(Rest) \in Nat
      BY <1>2, LenProperties
    <3>2. 1 \in 1 .. Len(Rest) /\ 1 # Len(Rest) + 1
      BY <2>2, <3>1
    <3>3. Rest[1].d \in Nat
      BY <1>2, <3>2, ItemFields
    <3> QED
      BY <3>2, <3>3 DEF At
  <2> QED
    BY <2>1, <2>2
<1> QED
  BY <1>1, <1>2, <1>3

(* A visit that is over: the height is that of what is under it.           *)
LEMMA OverBalanced ==
    ASSUME IInv, IInv', Accounted, outcome = "run", todo # <<>>,
           frames' = frames, todo' = Rest, ~Pops(Head(todo)),
           Head(todo).op \notin {"return", "loop_body"},
           vi' = After(frames, Head(todo), vi) \/ Discards(At(Rest, 1))
    PROVE  Accounted'
<1> DEFINE a == Head(todo)
           b == At(Rest, 1)
<1>1. /\ Balanced(frames, Rest, After(frames, a, vi)) /\ Link(a, b)
      /\ a.op # "loop_body" /\ ~Closes(a) => a.d = Depth
  BY TopFacts
<1>2. Rest \in Seq(TodoItem) /\ vi' \in Int /\ a.d \in Nat /\ Depth \in Nat
  BY UnderFacts, HeadItem DEF IInv, StackGood
<1>3. Balanced(frames, Rest, vi')
  BY <1>1, <1>2, FreeTop
<1>4. Footing(Rest, Depth)
  <2> SUFFICES ASSUME ~Closes(b)
               PROVE  Depth = b.d
    BY DEF Footing
  <2>1. ~Ends(a) /\ b.op # "return"
    BY <1>1 DEF Link, Closes
  <2>2. ~Closes(a)
    BY <2>1 DEF Closes, Through, Ends
  <2>3. b.d = a.d - 0 - 0
    BY <1>1, <2>1 DEF Link
  <2> QED
    BY <1>1, <1>2, <2>2, <2>3
<1>5. Depth' = Depth /\ todo' = Rest /\ frames' = frames
  BY DEF Depth
<1> QED
  BY <1>3, <1>4, <1>5 DEF Accounted

(* The effects of the items that are not parts of an expression.           *)
LEMMA NoEffect ==
    ASSUME BodiesReturn, NEW fs, NEW a, NEW v \in Int,
           \/ a.op \in {"branch", "loop_body", "lazy", "decl"}
           \/ a.op = "walk" /\ ~IsExpr(a.node) /\ a.node.kind \notin {"ret", "brace", "if"}
           \/ a.op = "post" /\ a.node.kind \in {"top", "brace", "unary", "paren", "brk", "nxt", "ret"}
           \/ a.op = "post" /\ a.node.kind = "var" /\ a.node.init = None
    PROVE  After(fs, a, v) = v
<1>1. ~Discards(a) /\ v + 0 = v
  BY DEF Discards
<1>2. CASE a.op \in {"branch", "loop_body", "lazy", "decl"}
  BY <1>1, <1>2 DEF After, Effect
<1>3. CASE a.op = "walk"
  BY <1>1, <1>3, NotReturning DEF After, Effect
<1>4. CASE a.op = "post"
  BY <1>1, <1>4 DEF After, Effect, PostEffect
<1> QED
  BY <1>2, <1>3, <1>4

(* The visits of statements that are over at once.                         *)
LEMMA StatementBalanced ==
    ASSUME BodiesReturn, IInv, IInv', Accounted, Goes,
           DeclareFun \/ DeclareVar \/ Assigned \/ BranchDone \/ ExprStmt \/ EndTop
    PROVE  Accounted'
<1> DEFINE a == Head(todo)
<1>1. outcome = "run" /\ todo # <<>> /\ frames' = frames /\ todo' = Rest
  BY StatementIsOver DEF VisitOver
<1>2. vi \in Int /\ (a.op # "loop_body" /\ ~Closes(a) => a.d = Depth)
  BY <1>1, TopFacts
<1>3. a.node = Here
  BY DEF Here
<1>4. CASE DeclareFun
  <2>1. a.op = "walk" /\ Here.kind = "fun"
    BY <1>4 DEF DeclareFun, Visit, Turn
  <2>2. vi' = vi
    BY <1>4, StopsNot DEF DeclareFun
  <2>3. ~IsExpr(Here)
    BY <2>1 DEF IsExpr, ExprKinds
  <2>4. After(frames, a, vi) = vi
    BY <1>2, <1>3, <2>1, <2>3, NoEffect
  <2> QED
    BY <1>1, <2>1, <2>2, <2>4, OverBalanced DEF Pops
<1>5. CASE DeclareVar
  <2>1. a.op = "post" /\ Here.kind = "var"
    BY <1>5 DEF DeclareVar, Visit, Turn
  <2>2. vi' = IF Here.init = None THEN vi ELSE vi - 1
    BY <1>5, StopsNot DEF DeclareVar, DropTo
  <2>3. After(frames, a, vi) = vi'
    <3>1. CASE Here.init = None
      BY <1>2, <1>3, <2>1, <2>2, <3>1, NoEffect
    <3>2. CASE Here.init # None
      BY <1>2, <1>3, <2>1, <2>2, <3>2 DEF After, Discards, Effect, PostEffect
    <3> QED
      BY <3>1, <3>2
  <2>4. ~Pops(a)
    BY <1>3, <2>1 DEF Pops
  <2> QED
    BY <1>1, <2>1, <2>3, <2>4, OverBalanced
<1>6. CASE Assigned
  <2>1. a.op = "assigned" /\ vi' = vi - 1
    BY <1>6, StopsNot DEF Assigned, Turn, DropTo
  <2>2. After(frames, a, vi) = vi'
    BY <1>2, <2>1 DEF After, Discards, Effect
  <2> QED
    BY <1>1, <2>1, <2>2, OverBalanced DEF Pops
<1>7. CASE BranchDone
  <2>1. a.op = "branch" /\ vi' = vi
    BY <1>7 DEF BranchDone, Turn
  <2>2. After(frames, a, vi) = vi'
    BY <1>2, <2>1, NoEffect
  <2> QED
    BY <1>1, <2>1, <2>2, OverBalanced DEF Pops
<1>8. CASE ExprStmt
  <2>1. a.op = "post" /\ Here.kind = "expr_stmt"
    BY <1>8 DEF ExprStmt, Visit, Turn
  <2>2. vi' = IF frames = <<>> THEN 0 ELSE frames[Depth].base
    BY <1>8, StopsNot DEF ExprStmt, DropTo
  <2>3. Discards(a) /\ ~Pops(a) /\ ~Closes(a)
    BY <1>3, <2>1 DEF Discards, Pops, Closes, Through
  <2>4. Base(frames, a.d) = vi'
    <3>1. frames \in Seq(EvalFrame)
      BY DEF IInv, ScopeGood
    <3>2. frames = <<>> <=> Depth = 0
      BY <3>1, EmptySeq DEF Depth
    <3> QED
      BY <1>2, <2>1, <2>2, <2>3, <3>2 DEF Base
  <2>5. After(frames, a, vi) = vi'
    BY <2>3, <2>4 DEF After
  <2> QED
    BY <1>1, <2>1, <2>3, <2>5, OverBalanced
<1>9. CASE EndTop
  <2>1. a.op = "post" /\ Here.kind = "top" /\ vi' = vi
    BY <1>9, StopsNot DEF EndTop, Visit, Turn
  <2>2. After(frames, a, vi) = vi'
    BY <1>2, <1>3, <2>1, NoEffect
  <2>3. ~Pops(a)
    BY <1>3, <2>1 DEF Pops
  <2> QED
    BY <1>1, <2>1, <2>2, <2>3, OverBalanced
<1> QED
  BY <1>4, <1>5, <1>6, <1>7, <1>8, <1>9

(* What leaves no value is under an end that drops what it finds.          *)
LEMMA DiscardsNext ==
    ASSUME IInv, VoidsAreStatements, LeavesNoValue, status = "OK", outcome = "run", todo # <<>>
    PROVE  Discards(At(Rest, 1))
<1>1. Rest # <<>> /\ Head(Rest).op = "post" /\ Head(Rest).node.kind = "expr_stmt"
  BY DEF VoidsAreStatements
<1>2. Rest \in Seq(TodoItem)
  BY UnderFacts
<1>3. Len(Rest) \in Nat /\ Len(Rest) # 0 /\ Head(Rest) = Rest[1]
  BY <1>1, <1>2, LenProperties, EmptySeq, HeadTailProperties
<1>4. 1 # Len(Rest) + 1
  BY <1>3
<1> QED
  BY <1>1, <1>3, <1>4 DEF At, Discards

(* A value that is pushed.                                                 *)
LEMMA PushBalanced ==
    ASSUME BodiesReturn, IInv, IInv', Accounted, Goes, outcome = "run", todo # <<>>,
           Head(todo).op = "post", Here.kind \in {"bool", "integer", "ref"}, NEW v, Push(v)
    PROVE  Accounted'
<1> DEFINE a == Head(todo)
<1>1. vi \in Int /\ a.node = Here
  BY TopFacts DEF Here
<1>2. frames' = frames /\ todo' = Rest /\ vi' = vi + 1
  BY PushIsOver, StopsNot DEF Push
<1>3. After(frames, a, vi) = vi'
  BY <1>1, <1>2 DEF After, Discards, Effect, PostEffect
<1>4. ~Pops(a)
  BY <1>1 DEF Pops
<1> QED
  BY <1>2, <1>3, <1>4, OverBalanced

(* The visits of expressions that are over at once.                        *)
LEMMA ExpressionBalanced ==
    ASSUME BodiesReturn, IInv, IInv', Accounted, Goes, VoidsAreStatements, status = "OK",
           Literal \/ UnaryOp \/ BinaryOp \/ Paren \/ CallPrint
    PROVE  Accounted'
<1> DEFINE a == Head(todo)
<1>1. outcome = "run" /\ todo # <<>> /\ frames' = frames /\ todo' = Rest
  BY ExpressionIsOver DEF VisitOver
<1>2. vi \in Int /\ a.node = Here
  BY <1>1, TopFacts DEF Here
<1>3. CASE Literal
  <2>1. a.op = "post" /\ Here.kind \in {"bool", "integer"} /\ Push(Here)
    BY <1>3 DEF Literal, Visit, Turn
  <2> QED
    BY <1>1, <2>1, PushBalanced
<1>4. CASE UnaryOp
  <2>1. a.op = "post" /\ Here.kind = "unary" /\ vi' = vi
    BY <1>4, StopsNot DEF UnaryOp, Visit, Turn
  <2>2. After(frames, a, vi) = vi'
    BY <1>2, <2>1, NoEffect
  <2>3. ~Pops(a)
    BY <1>2, <2>1 DEF Pops
  <2> QED
    BY <1>1, <2>1, <2>2, <2>3, OverBalanced
<1>5. CASE BinaryOp
  <2>1. a.op = "post" /\ Here.kind = "binary"
    BY <1>5 DEF BinaryOp, Visit, Turn
  <2>2. vi' = vi - 1
    BY <1>5, StopsNot DEF BinaryOp, FailPost, Goes
  <2>3. After(frames, a, vi) = vi'
    BY <1>2, <2>1, <2>2 DEF After, Discards, Effect, PostEffect
  <2>4. ~Pops(a)
    BY <1>2, <2>1 DEF Pops
  <2> QED
    BY <1>1, <2>1, <2>3, <2>4, OverBalanced
<1>6. CASE Paren
  <2>1. a.op = "post" /\ Here.kind = "paren" /\ vi' = vi
    BY <1>6 DEF Paren, Visit, Turn
  <2>2. After(frames, a, vi) = vi'
    BY <1>2, <2>1, NoEffect
  <2>3. ~Pops(a)
    BY <1>2, <2>1 DEF Pops
  <2> QED
    BY <1>1, <2>1, <2>2, <2>3, OverBalanced
<1>7. CASE CallPrint
  <2>1. a.op = "post" /\ Here.kind = "apply" /\ LeavesNoValue
    BY <1>7 DEF CallPrint, Visit, Turn, LeavesNoValue, Is
  <2>2. Discards(At(Rest, 1))
    BY <1>1, <2>1, DiscardsNext
  <2>3. ~Pops(a)
    BY <1>2, <2>1 DEF Pops
  <2> QED
    BY <1>1, <2>1, <2>2, <2>3, OverBalanced
<1> QED
  BY <1>3, <1>4, <1>5, <1>6, <1>7

(* Something that takes the place of an item, and counts on what is left   *)
(* of its frames as well.                                                  *)
LEMMA LinkFrom ==
    ASSUME NEW a, NEW b, Link(a, b), NEW z, z.op # "assigned",
           z.d - (IF Pops(z) THEN 1 ELSE 0) = a.d - (IF Pops(a) THEN 1 ELSE 0),
           Tight(a) \/ a.op = "return" => Tight(z) \/ z.op = "return",
           Ends(z) => Ends(a)
    PROVE  Link(z, b)
  BY DEF Link

(* Two items take the place of the first one.                              *)
LEMMA PairAccounted ==
    ASSUME IInv, IInv', outcome = "run", todo # <<>>,
           NEW x \in TodoItem, NEW y \in TodoItem, todo' = <<x, y>> \o Rest, x.d = Depth',
           NEW w \in Int, NEW z \in Int, Balanced(frames', Rest, z),
           Step(frames', x, vi', y, w), Step(frames', y, w, At(Rest, 1), z)
    PROVE  Accounted'
<1> DEFINE t == <<x, y>> \o Rest
<1>1. Rest \in Seq(TodoItem) /\ vi' \in Int
  BY UnderFacts DEF IInv, StackGood
<1>2. Balanced(frames', t, vi')
  BY <1>1, PairBalanced
<1>3. At(t, 1) = x
  <2> DEFINE p == <<x, y>>
  <2>1. p \in Seq(TodoItem) /\ Len(p) = 2 /\ p[1] = x
    BY TwoItems
  <2>2. t = p \o Rest
    OBVIOUS
  <2> HIDE DEF p
  <2>3. p \in Seq(TodoItem) /\ Rest \in Seq(TodoItem)
    BY <1>1, <2>1
  <2>4. /\ Len(p \o Rest) = Len(p) + Len(Rest)
        /\ \A i \in 1 .. Len(p) + Len(Rest) :
             (p \o Rest)[i] = IF i <= Len(p) THEN p[i] ELSE Rest[i - Len(p)]
    BY ONLY <2>3, ConcatProperties, SMTT(30)
  <2>5. Len(Rest) \in Nat
    BY <1>1, LenProperties
  <2>6. (p \o Rest)[1] = x /\ 1 # Len(p \o Rest) + 1
    BY <2>1, <2>4, <2>5
  <2> QED
    BY <2>2, <2>6 DEF At
<1> HIDE DEF t
<1>4. todo' = t
  BY DEF t
<1>5. Footing(t, Depth')
  BY <1>3 DEF Footing
<1> QED
  BY <1>2, <1>4, <1>5 DEF Accounted

(* An assignment evaluates its right-hand side, under the end of a         *)
(* statement.                                                              *)
LEMMA AssignBalanced ==
    ASSUME BodiesReturn, IInv, IInv', Accounted, Goes, VoidsAreStatements, status = "OK", Assign
    PROVE  Accounted'
<1> DEFINE a == Head(todo)
           b == At(Rest, 1)
           x == Item("walk", Here.rhs, Depth, 0)
           y == Item("assigned", Here, Depth, Where(Here.lhs.name))
<1>1. /\ outcome = "run" /\ todo # <<>> /\ a.op = "walk" /\ Here.kind = "binary"
      /\ IsAssignment(Here) /\ a.node = Here
      /\ frames' = frames /\ vi' = vi /\ Depth' = Depth
  BY DEF Assign, Visit, Turn, scope, Here, Depth
<1>2. todo' = <<x, y>> \o Rest
  BY DEF Assign, Pre, FailPre, Goes
<1>3. /\ Here \in Node /\ Here.rhs \in Node /\ IsExpr(Here.rhs) /\ Depth \in Nat
      /\ "walk" \in Ops /\ "assigned" \in Ops /\ 0 \in Nat
  BY <1>1, ListFacts, TreeAssumption, GrammarAssumption DEF Ops, Waiting
<1>4. x \in TodoItem /\ x.op = "walk" /\ x.d = Depth /\ x.node = Here.rhs
  BY <1>3, OneItem
<1>5. y \in TodoItem /\ y.op = "assigned" /\ y.d = Depth
  <2>1. PICK k \in Nat : k = Where(Here.lhs.name)
    BY FoundAboveCallers
  <2>2. Item("assigned", Here, Depth, k) \in TodoItem
        /\ Item("assigned", Here, Depth, k).op = "assigned"
        /\ Item("assigned", Here, Depth, k).d = Depth
    BY <1>3, OneItem
  <2> QED
    BY <2>1, <2>2
<1>6. Discards(b)
  BY <1>1, DiscardsNext DEF LeavesNoValue, Is
<1>7. /\ vi \in Int /\ Link(a, b) /\ a.d = Depth
      /\ Balanced(frames, Rest, After(frames, a, vi)) /\ After(frames, a, vi) \in Int
  BY <1>1, TopFacts DEF Closes, Through
<1> HIDE DEF a, b, x, y
<1>8. Step(frames, x, vi, y, vi + 1)
  BY <1>3, <1>4, <1>5, <1>7, ExpressionStep
<1>9. Link(y, b)
  <2>1. ~Pops(a) /\ ~Pops(y) /\ Tight(y) /\ ~Ends(y)
    BY <1>1, <1>5 DEF Pops, Tight, Ends
  <2>2. b.d = y.d - 0 - (IF b.op = "return" THEN 1 ELSE 0)
    BY <1>5, <1>7, <2>1 DEF Link
  <2> QED
    BY <1>6, <2>1, <2>2 DEF Link
<1>10. Step(frames, y, vi + 1, b, After(frames, a, vi))
  <2>1. Own(frames, y, vi + 1)
    BY <1>5 DEF Own
  <2> QED
    BY <1>6, <1>9, <2>1 DEF Step
<1>11. vi + 1 \in Int
  BY <1>7
<1> QED
  BY <1>1, <1>2, <1>4, <1>5, <1>7, <1>8, <1>10, <1>11, PairAccounted DEF b

(* Conditionals and loops begin with their condition.                      *)
LEMMA EnterBalanced ==
    ASSUME BodiesReturn, IInv, IInv', Accounted, EnterIf \/ EnterWhile
    PROVE  Accounted'
<1> DEFINE a == Head(todo)
           b == At(Rest, 1)
           x == Item("walk", Here.cond, Depth, 0)
<1>1. /\ outcome = "run" /\ todo # <<>> /\ a.op = "walk" /\ a.node = Here
      /\ frames' = frames /\ vi' = vi /\ Depth' = Depth
  BY DEF EnterIf, EnterWhile, Visit, Turn, scope, Here, Depth
<1>2. PICK op : /\ \/ op = "condition" /\ Here.kind = "if"
                   \/ op = "loop_condition" /\ Here.kind = "while"
                /\ todo' = <<x, Item(op, Here, Depth, 0)>> \o Rest
  BY DEF EnterIf, EnterWhile, LoopHead, Visit, Pre
<1> DEFINE y == Item(op, Here, Depth, 0)
<1>3. /\ Here \in Node /\ Here.cond \in Node /\ IsExpr(Here.cond) /\ Depth \in Nat
      /\ "walk" \in Ops /\ op \in Ops /\ 0 \in Nat /\ ~IsExpr(Here)
  BY <1>1, <1>2, ListFacts, TreeAssumption, GrammarAssumption
     DEF Ops, Waiting, IsExpr, ExprKinds
<1>4. x \in TodoItem /\ x.op = "walk" /\ x.d = Depth /\ x.node = Here.cond
  BY <1>3, OneItem
<1>5. y \in TodoItem /\ y.op = op /\ y.d = Depth /\ y.node = Here
  BY <1>3, OneItem
<1>6. /\ vi \in Int /\ Link(a, b) /\ a.d = Depth /\ Own(frames, a, vi)
      /\ Balanced(frames, Rest, After(frames, a, vi)) /\ After(frames, a, vi) \in Int
  BY <1>1, TopFacts DEF Closes, Through
<1>7. todo' = <<x, y>> \o Rest
  BY <1>2
<1> HIDE DEF a, b, x, y
<1>8. Step(frames, x, vi, y, vi + 1)
  <2>1. y.op # "return" /\ y.d = x.d
    BY <1>2, <1>4, <1>5
  <2> QED
    BY <1>3, <1>4, <1>6, <2>1, ExpressionStep
<1>9. Link(y, b)
  <2>1. ~Pops(a) /\ ~Pops(y) /\ ~Tight(a) /\ a.op # "return" /\ y.op # "assigned"
    BY <1>1, <1>2, <1>3, <1>5 DEF Pops, Tight
  <2>2. Ends(y) => Ends(a)
    BY <1>1, <1>5 DEF Ends
  <2> QED
    BY <1>5, <1>6, <2>1, <2>2, LinkFrom
<1>10. Own(frames, y, vi + 1)
  <2>1. vi = Base(frames, a.d)
    BY <1>1, <1>2, <1>3, <1>6 DEF Own
  <2> QED
    BY <1>2, <1>5, <1>6, <2>1 DEF Own
<1>11. After(frames, y, vi + 1) = After(frames, a, vi)
  <2>1. Here.kind = "while" => Here \notin Returning
    BY NotReturning
  <2>2. vi + 1 + 0 = vi + 1 /\ vi + 1 + (-1) = vi + 0
    BY <1>6
  <2> QED
    BY <1>1, <1>2, <1>3, <1>5, <2>1, <2>2 DEF After, Discards, Effect
<1>12. Step(frames, y, vi + 1, b, After(frames, a, vi)) /\ vi + 1 \in Int
  BY <1>6, <1>9, <1>10, <1>11 DEF Step
<1> QED
  BY <1>1, <1>4, <1>5, <1>6, <1>7, <1>8, <1>12, PairAccounted DEF b

(* A branch of a conditional, and the item that ends it.                   *)
LEMMA BranchBalanced ==
    ASSUME BodiesReturn, IInv, IInv', Accounted, Condition, vi' = vi - 1, frames' = frames,
           NEW n \in {Here.then, Here.else} \cap Node, todo' = BranchOf(n) \o Rest
    PROVE  Accounted'
<1> DEFINE a == Head(todo)
           b == At(Rest, 1)
           x == Item("walk", n, Depth, 0)
           y == Item("branch", n, Depth, 0)
           e == IF n \in Returning THEN 1 ELSE 0
<1>1. /\ outcome = "run" /\ todo # <<>> /\ a.op = "condition" /\ a.node = Here /\ Depth' = Depth
  BY DEF Condition, Turn, Here, Depth
<1>2. /\ Here \in Node /\ Here.kind = "if" /\ Depth \in Nat
      /\ "walk" \in Ops /\ "branch" \in Ops /\ 0 \in Nat
  BY <1>1, HeadItem, ListFacts DEF AliveItem, Here, Ops, Waiting
<1>3. ~IsExpr(n) /\ (n \in Returning <=> Here \in Returning)
  BY <1>2, GrammarAssumption, ReturningIs DEF ReturnsIn
<1>4. /\ x \in TodoItem /\ x.op = "walk" /\ x.d = Depth /\ x.node = n
      /\ y \in TodoItem /\ y.op = "branch" /\ y.d = Depth /\ y.node = n
  <2>1. \A m \in Node : \A op \in {"walk", "branch"} :
          /\ Item(op, m, Depth, 0) \in TodoItem /\ Item(op, m, Depth, 0).op = op
          /\ Item(op, m, Depth, 0).d = Depth /\ Item(op, m, Depth, 0).node = m
    BY <1>2, OneItem
  <2>2. n \in Node
    OBVIOUS
  <2> QED
    BY <2>1, <2>2
<1>6. /\ vi \in Int /\ Link(a, b) /\ a.d = Depth /\ Own(frames, a, vi)
      /\ Balanced(frames, Rest, After(frames, a, vi)) /\ After(frames, a, vi) \in Int
  BY <1>1, TopFacts DEF Closes, Through
<1>7. todo' = <<x, y>> \o Rest
  BY DEF BranchOf
<1>8. e \in Int /\ vi - 1 \in Int /\ vi - 1 + e \in Int
  BY <1>6
<1> HIDE DEF a, b, x, y
<1>9. After(frames, a, vi) = vi - 1 + e
  <2>1. vi + 0 = vi - 1 + 1 /\ vi + (-1) = vi - 1 + 0
    BY <1>6
  <2> QED
    BY <1>1, <1>3, <2>1 DEF After, Discards, Effect
<1>10. Step(frames, x, vi - 1, y, vi - 1 + e)
  <2>1. Own(frames, x, vi - 1)
    <3>1. vi = Base(frames, Depth) + 1
      BY <1>1, <1>6 DEF Own
    <3>2. Base(frames, Depth) \in Int
      BY <1>2, BaseIsInt DEF IInv, ScopeGood, Depth
    <3>3. vi - 1 = Base(frames, Depth)
      BY <3>1, <3>2
    <3> QED
      BY <1>4, <3>3 DEF Own
  <2>2. Link(x, y)
    <3>1. ~Pops(x) /\ ~Takes(y)
      BY <1>4 DEF Pops, Takes, Tight, Discards
    <3>2. Ends(x) => Closes(y)
      BY <1>4 DEF Ends, Closes
    <3>3. y.d = x.d - 0 - 0
      BY <1>2, <1>4
    <3> QED
      BY <1>4, <3>1, <3>2, <3>3 DEF Link
  <2>3. After(frames, x, vi - 1) = vi - 1 + e
    BY <1>3, <1>4 DEF After, Discards, Effect
  <2> QED
    BY <2>1, <2>2, <2>3 DEF Step
<1>11. Step(frames, y, vi - 1 + e, b, vi - 1 + e)
  <2>1. Link(y, b)
    <3>1. ~Pops(a) /\ ~Pops(y) /\ ~Tight(a) /\ a.op # "return" /\ y.op # "assigned"
      BY <1>1, <1>4 DEF Pops, Tight
    <3>2. Ends(y) => Ends(a)
      BY <1>1, <1>3, <1>4 DEF Ends
    <3> QED
      BY <1>4, <1>6, <3>1, <3>2, LinkFrom
  <2>2. Own(frames, y, vi - 1 + e)
    BY <1>4 DEF Own
  <2>3. After(frames, y, vi - 1 + e) = vi - 1 + e
    BY <1>4, <1>8, NoEffect
  <2> QED
    BY <2>1, <2>2, <2>3 DEF Step
<1> HIDE DEF e
<1> QED
  BY <1>1, <1>4, <1>6, <1>7, <1>8, <1>9, <1>10, <1>11, PairAccounted DEF b

(* The body of a loop, and the item that ends it.                          *)
LEMMA TurnBalanced ==
    ASSUME BodiesReturn, IInv, IInv', Accounted, LoopCondition, vi' = vi - 1, frames' = frames,
           todo' = <<Item("walk", Here.body, Depth, 0), Item("loop_body", Here, Depth, 0)>> \o Rest
    PROVE  Accounted'
<1> DEFINE a == Head(todo)
           b == At(Rest, 1)
           x == Item("walk", Here.body, Depth, 0)
           y == Item("loop_body", Here, Depth, 0)
<1>1. /\ outcome = "run" /\ todo # <<>> /\ a.op = "loop_condition" /\ a.node = Here
      /\ Depth' = Depth
  BY DEF LoopCondition, Turn, Here, Depth
<1>2. /\ Here \in Node /\ Here.kind = "while" /\ Depth \in Nat /\ Here.body \in Node
      /\ "walk" \in Ops /\ "loop_body" \in Ops /\ 0 \in Nat
  BY <1>1, HeadItem, ListFacts, TreeAssumption DEF AliveItem, Here, Ops, Waiting
<1>3. ~IsExpr(Here.body) /\ Here.body \notin Returning
  BY <1>2, GrammarAssumption, ReturningIs DEF ReturnsIn
<1>4. x \in TodoItem /\ x.op = "walk" /\ x.d = Depth /\ x.node = Here.body
  BY <1>2, OneItem
<1>5. y \in TodoItem /\ y.op = "loop_body" /\ y.d = Depth /\ y.node = Here
  BY <1>2, OneItem
<1>6. /\ vi \in Int /\ Link(a, b) /\ a.d = Depth /\ Own(frames, a, vi)
      /\ Balanced(frames, Rest, After(frames, a, vi)) /\ After(frames, a, vi) \in Int
  BY <1>1, TopFacts DEF Closes, Through
<1>7. todo' = <<x, y>> \o Rest
  OBVIOUS
<1>8. vi - 1 \in Int /\ vi - 1 + 0 = vi - 1 /\ vi + (-1) = vi - 1
  BY <1>6
<1> HIDE DEF a, b, x, y
<1>9. After(frames, a, vi) = vi - 1
  BY <1>1, <1>8 DEF After, Discards, Effect
<1>10. vi - 1 = Base(frames, Depth)
  <2>1. vi = Base(frames, Depth) + 1
    BY <1>1, <1>6 DEF Own
  <2>2. Base(frames, Depth) \in Int
    BY <1>2, BaseIsInt DEF IInv, ScopeGood, Depth
  <2> QED
    BY <2>1, <2>2
<1>11. Step(frames, x, vi - 1, y, vi - 1)
  <2>1. Own(frames, x, vi - 1)
    BY <1>4, <1>10 DEF Own
  <2>2. Link(x, y)
    <3>1. ~Pops(x) /\ ~Takes(y) /\ ~Ends(x)
      BY <1>3, <1>4, <1>5 DEF Pops, Takes, Tight, Discards, Ends
    <3>2. y.d = x.d - 0 - 0
      BY <1>2, <1>4, <1>5
    <3> QED
      BY <1>4, <1>5, <3>1, <3>2 DEF Link
  <2>3. After(frames, x, vi - 1) = vi - 1
    BY <1>3, <1>4, <1>8 DEF After, Discards, Effect
  <2> QED
    BY <2>1, <2>2, <2>3 DEF Step
<1>12. Step(frames, y, vi - 1, b, vi - 1)
  <2>1. Link(y, b)
    <3>1. ~Pops(a) /\ ~Pops(y) /\ ~Tight(a) /\ a.op # "return" /\ y.op # "assigned" /\ ~Ends(y)
      BY <1>1, <1>5 DEF Pops, Tight, Ends
    <3> QED
      BY <1>5, <1>6, <3>1, LinkFrom
  <2>2. Own(frames, y, vi - 1)
    BY <1>5, <1>10 DEF Own
  <2>3. After(frames, y, vi - 1) = vi - 1
    BY <1>5, <1>8, NoEffect
  <2> QED
    BY <2>1, <2>2, <2>3 DEF Step
<1> QED
  BY <1>1, <1>4, <1>5, <1>6, <1>7, <1>8, <1>9, <1>11, <1>12, PairAccounted DEF b

(* A condition is followed by a branch or a body, or by nothing.           *)
LEMMA DecideBalanced ==
    ASSUME BodiesReturn, IInv, IInv', Accounted, Goes, Condition \/ LoopCondition
    PROVE  Accounted'
<1> DEFINE a == Head(todo)
<1>1. /\ outcome = "run" /\ todo # <<>> /\ a.op \in {"condition", "loop_condition"}
      /\ a.node = Here
  BY DEF Condition, LoopCondition, Turn, Here
<1>2. Rest \in Seq(TodoItem) /\ vi \in Int /\ Here \in Node
  BY <1>1, TopFacts, UnderFacts, HeadItem
<1>3. <<>> \o Rest = Rest
  BY <1>2, ConcatEmptySeq
<1>4. ASSUME NEW T, NEW F, Decide(T, F)
      PROVE  frames' = frames /\ vi' = vi - 1 /\ (todo' = T \o Rest \/ todo' = F \o Rest)
  BY <1>4 DEF Decide, DropTo, FailPre, Goes, scope
<1>5. ASSUME frames' = frames, vi' = vi - 1, todo' = Rest,
             a.op = "condition" => Here \notin Returning
      PROVE  Accounted'
  <2>1. After(frames, a, vi) = vi'
    BY <1>1, <1>2, <1>5 DEF After, Discards, Effect
  <2>2. ~Pops(a)
    BY <1>1 DEF Pops
  <2> QED
    BY <1>1, <1>5, <2>1, <2>2, OverBalanced
<1>6. CASE Condition
  <2> DEFINE F == IF Here.else = None THEN <<>> ELSE BranchOf(Here.else)
  <2>1. Decide(BranchOf(Here.then), F) /\ a.op = "condition"
    BY <1>6 DEF Condition, Turn
  <2>2. Here.kind = "if"
    BY <1>1, <2>1, HeadItem DEF AliveItem, Here
  <2>3. Here.then \in Node /\ Here.else \in Node \cup {None}
    BY <1>2, <2>2, TreeAssumption
  <2>4. Here.else = None => Here \notin Returning
    <3>1. None \notin Returning
      BY NotReturning DEF None
    <3> QED
      BY <1>2, <2>2, <3>1, ReturningIs DEF ReturnsIn
  <2> HIDE DEF F
  <2>5. frames' = frames /\ vi' = vi - 1 /\ (todo' = BranchOf(Here.then) \o Rest \/ todo' = F \o Rest)
    BY <1>4, <2>1
  <2>6. CASE todo' = BranchOf(Here.then) \o Rest
    BY <1>6, <2>3, <2>5, <2>6, BranchBalanced
  <2>7. CASE todo' = F \o Rest /\ Here.else # None
    <3>1. todo' = BranchOf(Here.else) \o Rest /\ Here.else \in {Here.then, Here.else} \cap Node
      BY <2>3, <2>7 DEF F
    <3> QED
      BY <1>6, <2>5, <3>1, BranchBalanced
  <2>8. CASE todo' = F \o Rest /\ Here.else = None
    <3>1. todo' = Rest
      BY <1>3, <2>8 DEF F
    <3> QED
      BY <1>5, <2>4, <2>5, <2>8, <3>1
  <2> QED
    BY <2>5, <2>6, <2>7, <2>8
<1>7. CASE LoopCondition
  <2> DEFINE T == <<Item("walk", Here.body, Depth, 0), Item("loop_body", Here, Depth, 0)>>
  <2>1. Decide(T, <<>>) /\ a.op = "loop_condition"
    BY <1>7 DEF LoopCondition, Turn
  <2> HIDE DEF T
  <2>2. frames' = frames /\ vi' = vi - 1 /\ (todo' = T \o Rest \/ todo' = <<>> \o Rest)
    BY <1>4, <2>1
  <2>3. CASE todo' = T \o Rest
    BY <1>7, <2>2, <2>3, TurnBalanced DEF T
  <2>4. CASE todo' = <<>> \o Rest
    BY <1>3, <1>5, <2>1, <2>2, <2>4
  <2> QED
    BY <2>2, <2>3, <2>4
<1> QED
  BY <1>6, <1>7

(* Frames that nothing under the first item counts on are popped.          *)
LEMMA FewerFrames ==
    ASSUME IInv, outcome = "run", todo # <<>>, NEW m \in 0 .. Depth,
           frames' = SubSeq(frames, 1, m), \A i \in 1 .. Len(Rest) : Rest[i].d <= m,
           NEW z, Balanced(frames, Rest, z)
    PROVE  /\ Balanced(frames', Rest, z)
           /\ Depth' = m /\ \A k \in 1 .. m : frames'[k] = frames[k]
<1>1. frames \in Seq(EvalFrame) /\ Depth = Len(frames) /\ Depth \in Nat /\ Rest \in Seq(TodoItem)
  BY ListFacts, UnderFacts
<1>2. Len(frames') = m /\ \A k \in 1 .. m : frames'[k] = frames[k]
  BY <1>1, SeqIsSequence, Shortened
<1>3. m \in Nat
  BY <1>1
<1>4. Balanced(frames', Rest, z)
  BY <1>1, <1>2, <1>3, FramesBalanced
<1> QED
  BY <1>2, <1>4 DEF Depth

(* A frame is pushed.                                                      *)
LEMMA MoreFrames ==
    ASSUME IInv, outcome = "run", todo # <<>>, NEW kind, frames' = Append(frames, Frame(kind)),
           NEW z, Balanced(frames, Rest, z)
    PROVE  /\ Balanced(frames', Rest, z)
           /\ Depth' = Depth + 1 /\ Base(frames', Depth + 1) = vi
<1>1. /\ frames \in Seq(EvalFrame) /\ Depth = Len(frames) /\ Depth \in Nat
      /\ Head(todo) = todo[1] /\ todo[1].d \in Nat /\ todo[1].d <= Depth
  BY ListFacts
<1>2. /\ Len(frames') = Depth + 1 /\ frames'[Depth + 1] = Frame(kind)
      /\ \A k \in 1 .. Depth : frames'[k] = frames[k]
  BY <1>1, SeqIsSequence, Appended
<1>3. Rest \in Seq(TodoItem) /\ \A i \in 1 .. Len(Rest) : Rest[i].d <= Depth
  <2>1. Rest \in Seq(TodoItem)
        /\ \A i \in 1 .. Len(Rest) : Rest[i].d \in Nat /\ Rest[i].d <= Head(todo).d
    BY UnderFacts
  <2>2. \A i \in 1 .. Len(Rest) : Rest[i].d <= Depth
    BY <1>1, <2>1
  <2> QED
    BY <2>1, <2>2
<1>4. Balanced(frames', Rest, z)
  BY <1>1, <1>2, <1>3, FramesBalanced
<1>5. Depth + 1 # 0
  BY <1>1
<1> QED
  BY <1>2, <1>4, <1>5 DEF Depth, Base, Frame

(* The end of a block, and of the value of a global: one frame goes.       *)
LEMMA PopOneBalanced ==
    ASSUME BodiesReturn, IInv, IInv', Accounted, Goes, LeaveBrace \/ LazyDone
    PROVE  Accounted'
<1> DEFINE a == Head(todo)
           b == At(Rest, 1)
<1>1. /\ outcome = "run" /\ todo # <<>> /\ a.node = Here /\ PopOne
      /\ a.op = "lazy" \/ (a.op = "post" /\ Here.kind = "brace")
  BY DEF LeaveBrace, LazyDone, Visit, Turn, Here
<1>2. Pops(a) /\ Depth \in Nat /\ a.d \in Nat /\ a.d <= Depth
  BY <1>1, ListFacts, HeadItem DEF Pops
<1>3. /\ vi \in Int /\ Link(a, b) /\ (~Closes(a) => a.d = Depth)
      /\ Balanced(frames, Rest, After(frames, a, vi))
  BY <1>1, TopFacts
<1>4. After(frames, a, vi) = vi
  BY <1>1, <1>3, NoEffect
<1>5. b.d \in Nat /\ b.d = a.d - 1 - (IF b.op = "return" THEN 1 ELSE 0)
  BY <1>1, <1>2, <1>3, UnderFacts DEF Link
<1>6. Depth # 0 /\ Depth - 1 \in 0 .. Depth
  <2>1. a.d >= 1
    BY <1>2, <1>5
  <2> QED
    BY <1>2, <2>1
<1>7. frames' = SubSeq(frames, 1, Depth - 1) /\ todo' = Rest /\ vi' = vi
  BY <1>1, <1>6, StopsNot DEF PopOne, PopTo, Done
<1>8. \A i \in 1 .. Len(Rest) : Rest[i].d <= Depth - 1
  <2>1. \A i \in 1 .. Len(Rest) : Rest[i].d \in Nat /\ Rest[i].d + 1 <= a.d
    BY <1>1, <1>2, UnderFacts
  <2> HIDE DEF a
  <2> QED
    BY <1>2, <2>1
<1>9. Balanced(frames', Rest, vi) /\ Depth' = Depth - 1
  BY <1>1, <1>3, <1>4, <1>6, <1>7, <1>8, FewerFrames
<1>10. Footing(Rest, Depth - 1)
  <2> SUFFICES ASSUME ~Closes(b)
               PROVE  Depth - 1 = b.d
    BY DEF Footing
  <2>1. ~Ends(a) /\ b.op # "return"
    BY <1>3 DEF Link, Closes
  <2>2. ~Closes(a)
    BY <1>1, <2>1 DEF Closes, Through, Ends
  <2>3. b.d = a.d - 1 - 0
    BY <1>5, <2>1
  <2> QED
    BY <1>2, <1>3, <2>2, <2>3
<1> QED
  BY <1>7, <1>9, <1>10 DEF Accounted

(* The end of a call: its frames go, and the result takes the place of the *)
(* callee.                                                                 *)
LEMMA ReturnBalanced ==
    ASSUME BodiesReturn, IInv, IInv', Accounted, Goes, Return
    PROVE  Accounted'
<1> DEFINE a == Head(todo)
           b == At(Rest, 1)
<1>1. outcome = "run" /\ todo # <<>> /\ a.op = "return"
  BY DEF Return, Turn
<1>2. frames' = SubSeq(frames, 1, a.d) /\ todo' = Rest /\ vi' = vi - 1
  BY StopsNot DEF Return, PopTo, Done
<1>3. a.d \in 0 .. Depth /\ a.d \in Nat /\ \A i \in 1 .. Len(Rest) : Rest[i].d <= a.d
  <2>1. a.d \in Nat /\ a.d <= Depth /\ Depth \in Nat
    BY <1>1, HeadItem
  <2> QED
    BY <1>1, <2>1, UnderFacts
<1>4. /\ vi \in Int /\ Link(a, b) /\ Balanced(frames, Rest, After(frames, a, vi))
  BY <1>1, TopFacts
<1>5. After(frames, a, vi) = vi'
  BY <1>1, <1>2, <1>4 DEF After, Discards, Effect
<1>6. Balanced(frames', Rest, vi') /\ Depth' = a.d
  BY <1>1, <1>2, <1>3, <1>4, <1>5, FewerFrames
<1>7. Footing(Rest, a.d)
  <2> SUFFICES ASSUME ~Closes(b)
               PROVE  a.d = b.d
    BY DEF Footing
  <2>1. b.op # "return" /\ ~Pops(a)
    BY <1>1 DEF Closes, Pops
  <2>2. b.d = a.d - 0 - 0
    BY <1>4, <2>1 DEF Link
  <2> QED
    BY <1>3, <2>2
<1> QED
  BY <1>2, <1>6, <1>7 DEF Accounted

(* After the body of a loop: its frames go, and its condition is next when *)
(* there was no `brk`.                                                     *)
LEMMA LoopBodyBalanced ==
    ASSUME BodiesReturn, IInv, IInv', Accounted, Goes, LoopBody
    PROVE  Accounted'
<1> DEFINE a == Head(todo)
           b == At(Rest, 1)
           d == a.d
           x == Item("walk", Here.cond, d, 0)
           y == Item("loop_condition", Here, d, 0)
<1>1. outcome = "run" /\ todo # <<>> /\ a.op = "loop_body" /\ a.node = Here
  BY DEF LoopBody, Turn, Here
<1>2. /\ frames' = SubSeq(frames, 1, d) /\ vi' = vi
      /\ todo' = Rest \/ todo' = <<x, y>> \o Rest
  BY StopsNot DEF LoopBody, PopTo, Done
<1>3. d \in 0 .. Depth /\ d \in Nat /\ \A i \in 1 .. Len(Rest) : Rest[i].d <= d
  <2>1. a.d \in Nat /\ a.d <= Depth /\ Depth \in Nat
    BY <1>1, HeadItem
  <2> QED
    BY <1>1, <2>1, UnderFacts
<1>4. /\ vi \in Int /\ Link(a, b) /\ Own(frames, a, vi)
      /\ Balanced(frames, Rest, After(frames, a, vi))
  BY <1>1, TopFacts
<1>5. After(frames, a, vi) = vi
  BY <1>1, <1>4, NoEffect
<1>6. Balanced(frames', Rest, vi) /\ Depth' = d /\ \A k \in 1 .. d : frames'[k] = frames[k]
  BY <1>1, <1>2, <1>3, <1>4, <1>5, FewerFrames
<1>7. Here \in Node /\ Here.cond \in Node /\ IsExpr(Here.cond)
      /\ "walk" \in Ops /\ "loop_condition" \in Ops /\ 0 \in Nat
  <2>1. Here \in Node /\ Here.kind = "while"
    BY <1>1, HeadItem DEF AliveItem, Here
  <2> QED
    BY <2>1, TreeAssumption, GrammarAssumption DEF Ops, Waiting
<1>8. x \in TodoItem /\ x.op = "walk" /\ x.d = d /\ x.node = Here.cond
  <2> HIDE DEF d
  <2> QED
    BY <1>3, <1>7, OneItem
<1>9. y \in TodoItem /\ y.op = "loop_condition" /\ y.d = d /\ y.node = Here
  <2> HIDE DEF d
  <2> QED
    BY <1>3, <1>7, OneItem
<1>10. CASE todo' = Rest
  <2>1. Footing(Rest, d)
    <3> SUFFICES ASSUME ~Closes(b)
                 PROVE  d = b.d
      BY DEF Footing
    <3>1. b.op # "return" /\ ~Pops(a)
      BY <1>1 DEF Closes, Pops
    <3>2. b.d = d - 0 - 0
      BY <1>4, <3>1 DEF Link
    <3> QED
      BY <1>3, <3>2
  <2> QED
    BY <1>2, <1>6, <1>10, <2>1 DEF Accounted
<1>11. CASE todo' = <<x, y>> \o Rest
  <2>1. d = a.d
    OBVIOUS
  <2> HIDE DEF a, b, d, x, y
  <2>2. vi + 1 \in Int /\ vi + 1 + (-1) = vi
    BY <1>4
  <2>3. Step(frames', x, vi, y, vi + 1)
    <3>1. y.op # "return" /\ y.d = x.d
      BY <1>8, <1>9
    <3> QED
      BY <1>4, <1>7, <1>8, <3>1, ExpressionStep
  <2>4. Step(frames', y, vi + 1, b, vi)
    <3>1. Link(y, b)
      <4>1. ~Pops(a) /\ ~Pops(y) /\ ~Tight(a) /\ a.op # "return" /\ y.op # "assigned" /\ ~Ends(y)
        BY <1>1, <1>9 DEF Pops, Tight, Ends
      <4> QED
        BY <1>4, <1>9, <2>1, <4>1, LinkFrom
    <3>2. Own(frames', y, vi + 1)
      <4>1. vi = Base(frames, d)
        BY <1>1, <1>4, <2>1 DEF Own
      <4>2. Base(frames', d) = Base(frames, d)
        BY <1>3, <1>6 DEF Base
      <4> QED
        BY <1>9, <4>1, <4>2 DEF Own
    <3>3. After(frames', y, vi + 1) = vi
      BY <1>9, <2>2 DEF After, Discards, Effect
    <3> QED
      BY <3>1, <3>2, <3>3 DEF Step
  <2> QED
    BY <1>1, <1>2, <1>4, <1>6, <1>8, <1>9, <1>11, <2>2, <2>3, <2>4, PairAccounted DEF b
<1> QED
  BY <1>2, <1>10, <1>11

(* A name: its value, or the evaluation of a global.                       *)
LEMMA ReferenceBalanced ==
    ASSUME BodiesReturn, IInv, IInv', Accounted, Goes, Reference
    PROVE  Accounted'
<1> DEFINE a == Head(todo)
           b == At(Rest, 1)
           n == ValueOf(Here.name).expr
           x == Item("walk", n, Depth + 1, 0)
           y == Item("lazy", Here, Depth + 1, 0)
<1>1. outcome = "run" /\ todo # <<>> /\ a.op = "post" /\ Here.kind = "ref" /\ a.node = Here
  BY DEF Reference, Visit, Turn, Here
<1>2. CASE \E v : Push(v)
  BY <1>1, <1>2, PushBalanced
<1>3. CASE ~\E v : Push(v)
  <2>1. Found(Here.name) /\ ValueOf(Here.name).kind = "lazy"
    BY <1>3 DEF Reference, FailPost, Goes
  <2>2. /\ frames' = Append(frames, Frame("function")) /\ vi' = vi
        /\ todo' = <<x, y>> \o Rest
    BY <1>3, <2>1 DEF Reference, Pre, PushFrame
  <2>3. n \in Node /\ IsExpr(n)
    BY <2>1, ValueGood, GoodParts
  <2>4. Here \in Node /\ Depth + 1 \in Nat /\ 0 \in Nat /\ "walk" \in Ops /\ "lazy" \in Ops
        /\ Depth \in Nat
    BY <1>1, ListFacts DEF Ops, Waiting
  <2> HIDE DEF n
  <2>5. x \in TodoItem /\ x.op = "walk" /\ x.d = Depth + 1 /\ x.node = n
    BY <2>3, <2>4, OneItem
  <2>6. y \in TodoItem /\ y.op = "lazy" /\ y.d = Depth + 1 /\ y.node = Here
    BY <2>4, OneItem
  <2>7. /\ vi \in Int /\ Link(a, b) /\ a.d = Depth
        /\ Balanced(frames, Rest, After(frames, a, vi))
    BY <1>1, TopFacts DEF Closes, Through
  <2> HIDE DEF a, b, x, y
  <2>8. After(frames, a, vi) = vi + 1 /\ vi + 1 \in Int
    BY <1>1, <2>7 DEF After, Discards, Effect, PostEffect
  <2>9. Balanced(frames', Rest, vi + 1) /\ Depth' = Depth + 1
    BY <1>1, <2>2, <2>7, <2>8, MoreFrames
  <2>10. Step(frames', x, vi, y, vi + 1)
    <3>1. y.op # "return" /\ y.d = x.d
      BY <2>5, <2>6
    <3> QED
      BY <2>3, <2>5, <2>7, <3>1, ExpressionStep
  <2>11. Step(frames', y, vi + 1, b, vi + 1)
    <3>1. Link(y, b)
      <4>1. ~Pops(a) /\ Pops(y) /\ Tight(y) /\ y.op # "assigned" /\ ~Ends(y)
        BY <1>1, <2>6 DEF Pops, Tight, Ends
      <4>2. y.d - 1 = a.d - 0
        BY <2>4, <2>6, <2>7
      <4> QED
        BY <2>7, <4>1, <4>2, LinkFrom
    <3>2. Own(frames', y, vi + 1)
      BY <2>6 DEF Own
    <3>3. After(frames', y, vi + 1) = vi + 1
      BY <2>6, <2>8, NoEffect
    <3> QED
      BY <3>1, <3>2, <3>3 DEF Step
  <2> QED
    BY <1>1, <2>2, <2>5, <2>6, <2>7, <2>8, <2>9, <2>10, <2>11, PairAccounted DEF b
<1> QED
  BY <1>2, <1>3

(* A call: the body of a function ends in a `ret`, and is above the item   *)
(* that waits for it.                                                      *)
LEMMA CallFunctionBalanced ==
    ASSUME BodiesReturn, IInv, IInv', Accounted, Goes, CallFunction
    PROVE  Accounted'
<1> DEFINE a == Head(todo)
           b == At(Rest, 1)
           c == CalleeSlot
           k == Len(Here.args)
           n == stack[c].decl.body
           x == Item("walk", n, Depth + 1, 0)
           y == Item("return", Here, Depth, c)
<1>1. /\ outcome = "run" /\ todo # <<>> /\ a.op = "post" /\ Here.kind = "apply"
      /\ KindAt(c) = "function" /\ a.node = Here
  BY DEF CallFunction, Visit, Turn, Here
<1>2. /\ frames' = Append(frames, Frame("function")) /\ vi' = vi - k
      /\ todo' = <<x, y>> \o Rest
  BY StopsNot DEF CallFunction, FailPost, Pre, PushFrame, Goes
<1>3. Here \in Node /\ Depth \in Nat /\ Depth + 1 \in Nat /\ 0 \in Nat
      /\ "walk" \in Ops /\ "return" \in Ops
  BY <1>1, ListFacts DEF Ops, Waiting
<1>4. k \in Nat
  <2>1. Here.args \in Seq(Node)
    BY <1>1, <1>3, TreeAssumption
  <2> QED
    BY <2>1, LenProperties
<1>5. c \in 0 .. StackSize - 1 /\ stack[c].kind = "function"
  <2>1. c \in Int
    BY <1>4 DEF CalleeSlot, IInv, StackGood
  <2>2. c \in 0 .. StackSize - 1
    BY <1>1, <2>1, SlotInside
  <2> QED
    BY <1>1, <2>2, StackAssumption DEF KindAt
<1>6. n \in Node /\ n \in Returning /\ n.kind = "brace" /\ ~IsExpr(n)
  <2>1. Good(stack[c])
    BY <1>5 DEF IInv, StackGood
  <2>2. stack[c].decl \in Node /\ stack[c].decl.kind = "fun"
    BY <1>5, <2>1, GoodParts
  <2> QED
    BY <2>2, TreeAssumption, ReturningIs DEF ReturnsIn, IsExpr, ExprKinds
<1>7. /\ vi \in Int /\ Link(a, b) /\ a.d = Depth
      /\ Balanced(frames, Rest, After(frames, a, vi))
  BY <1>1, TopFacts DEF Closes, Through
<1>8. c = vi - 1 - k /\ c \in Nat
  BY <1>5, StackAssumption DEF CalleeSlot
<1> HIDE DEF n, c, k
<1>9. x \in TodoItem /\ x.op = "walk" /\ x.d = Depth + 1 /\ x.node = n
  BY <1>3, <1>6, OneItem
<1>10. y \in TodoItem /\ y.op = "return" /\ y.d = Depth /\ y.at = c
  BY <1>3, <1>8, OneItem
<1> HIDE DEF a, b, x, y
<1>11. /\ vi - k \in Int /\ vi - k + 1 \in Int /\ vi - k + 1 = c + 2
       /\ vi - k + 1 + (-1) = vi - k /\ vi + (-k) = vi - k
  BY <1>4, <1>7, <1>8
<1>12. After(frames, a, vi) = vi - k
  BY <1>1, <1>11 DEF After, Discards, Effect, PostEffect, k
<1>13. Balanced(frames', Rest, vi - k) /\ Depth' = Depth + 1
  BY <1>1, <1>2, <1>7, <1>12, MoreFrames
<1>14. Step(frames', x, vi - k, y, vi - k + 1)
  <2>1. Own(frames', x, vi - k)
    BY <1>6, <1>9 DEF Own
  <2>2. Link(x, y)
    <3>1. ~Pops(x) /\ ~Takes(y) /\ Closes(y)
      BY <1>9, <1>10 DEF Pops, Takes, Tight, Discards, Closes
    <3>2. y.d = x.d - 0 - 1
      BY <1>3, <1>9, <1>10
    <3> QED
      BY <1>9, <1>10, <3>1, <3>2 DEF Link
  <2>3. After(frames', x, vi - k) = vi - k + 1
    BY <1>6, <1>9 DEF After, Discards, Effect
  <2> QED
    BY <2>1, <2>2, <2>3 DEF Step
<1>15. Step(frames', y, vi - k + 1, b, vi - k)
  <2>1. Link(y, b)
    <3>1. ~Pops(a) /\ ~Pops(y) /\ y.op # "assigned" /\ ~Ends(y)
      BY <1>1, <1>10 DEF Pops, Ends
    <3> QED
      BY <1>7, <1>10, <3>1, LinkFrom
  <2>2. Own(frames', y, vi - k + 1)
    BY <1>10, <1>11 DEF Own
  <2>3. After(frames', y, vi - k + 1) = vi - k
    BY <1>10, <1>11 DEF After, Discards, Effect
  <2> QED
    BY <2>1, <2>2, <2>3 DEF Step
<1> QED
  BY <1>1, <1>2, <1>9, <1>10, <1>11, <1>13, <1>14, <1>15, PairAccounted DEF b

(* The values that the visit after the children of a node finds.           *)
Operands(n) == IF n.kind \in {"unary", "paren", "expr_stmt", "ret"} THEN 1
               ELSE IF n.kind = "binary" THEN 2
               ELSE IF n.kind = "apply" THEN 1 + Len(n.args)
               ELSE IF n.kind = "var" /\ n.init # None THEN 1
               ELSE 0

(* They are those of expressions, one for each child.                      *)
LEMMA ChildrenCount ==
    ASSUME NEW n \in Node, n.kind \notin {"top", "brace"}
    PROVE  /\ Len(Children(n)) = Operands(n) /\ Operands(n) \in Nat
           /\ \A i \in 1 .. Len(Children(n)) : IsExpr(Children(n)[i])
<1>1. ASSUME NEW e, Children(n) = <<e>>, IsExpr(e), Operands(n) = 1
      PROVE  /\ Len(Children(n)) = Operands(n) /\ Operands(n) \in Nat
             /\ \A i \in 1 .. Len(Children(n)) : IsExpr(Children(n)[i])
  <2>1. Len(<<e>>) = 1 /\ \A i \in 1 .. Len(<<e>>) : <<e>>[i] = e
    OBVIOUS
  <2> QED
    BY <1>1, <2>1
<1>2. CASE n.kind \in {"unary", "paren"}
  BY <1>1, <1>2, GrammarAssumption DEF Children, Operands
<1>3. CASE n.kind \in {"expr_stmt", "ret"}
  BY <1>1, <1>3, GrammarAssumption DEF Children, Operands
<1>4. CASE n.kind = "var" /\ n.init # None
  BY <1>1, <1>4, GrammarAssumption DEF Children, Operands
<1>5. CASE n.kind = "binary"
  <2>1. Children(n) = <<n.lhs, n.rhs>> /\ IsExpr(n)
    BY <1>5 DEF Children, IsExpr, ExprKinds
  <2>2. Len(<<n.lhs, n.rhs>>) = 2
    OBVIOUS
  <2> QED
    BY <1>5, <2>1, <2>2, ChildrenKinds DEF Operands
<1>6. CASE n.kind = "apply"
  <2>1. /\ Children(n) = <<n.callee>> \o n.args /\ IsExpr(n)
        /\ n.args \in Seq(Node) /\ n.callee \in Node
    BY <1>6, TreeAssumption DEF Children, IsExpr, ExprKinds
  <2> DEFINE c == <<n.callee>>
             s == n.args
  <2>2. c \in Seq(Node) /\ Len(c) = 1 /\ s \in Seq(Node) /\ Len(s) \in Nat
    BY <2>1, LenProperties
  <2> HIDE DEF c, s
  <2>3. Len(c \o s) = Len(c) + Len(s)
    BY ONLY <2>2, ConcatProperties, SMTT(30)
  <2>4. Len(Children(n)) = 1 + Len(n.args) /\ Len(n.args) \in Nat
    BY <2>1, <2>2, <2>3 DEF c, s
  <2>5. Operands(n) = 1 + Len(n.args) /\ 1 + Len(n.args) \in Nat
    BY <1>6, <2>4 DEF Operands
  <2>6. \A i \in 1 .. Len(Children(n)) : IsExpr(Children(n)[i])
    BY <2>1, ChildrenKinds
  <2> QED
    BY <2>4, <2>5, <2>6
<1>7. CASE ~(\/ n.kind \in {"unary", "paren", "expr_stmt", "ret", "binary", "apply"}
             \/ n.kind = "var" /\ n.init # None)
  <2>1. Children(n) = <<>> /\ Operands(n) = 0
    BY <1>7 DEF Children, Operands
  <2>2. Len(<<>>) = 0
    OBVIOUS
  <2> QED
    BY <2>1, <2>2
<1> QED
  BY <1>2, <1>3, <1>4, <1>5, <1>6, <1>7

(* The visits of the children begin in their own frame.                    *)
LEMMA VisitsTop ==
    ASSUME NEW n \in Node, NEW d \in Nat, NEW t \in Seq(TodoItem)
    PROVE  At(Visits(n, d) \o t, 1).d = d
<1> DEFINE w == ChildWalks(n, d)
           s == PostOn(n, d, t)
<1>1. /\ w \in Seq(TodoItem) /\ s \in Seq(TodoItem) /\ At(s, 1).d = d
      /\ Visits(n, d) \o t = w \o s
  BY ChildWalksAre, PostOnIs, VisitsSplit
<1>2. Len(w) \in Nat /\ \A i \in 1 .. Len(w) : w[i].d = d
  BY ChildWalksAre
<1> HIDE DEF w, s
<1>3. /\ Len(w \o s) = Len(w) + Len(s)
      /\ \A i \in 1 .. Len(w) + Len(s) :
           (w \o s)[i] = IF i <= Len(w) THEN w[i] ELSE s[i - Len(w)]
  <2>1. w \in Seq(TodoItem) /\ s \in Seq(TodoItem)
    BY <1>1
  <2> QED
    BY ONLY <2>1, ConcatProperties, SMTT(30)
<1>4. Len(s) \in Nat
  BY <1>1, LenProperties
<1>5. CASE Len(w) = 0
  <2>1. At(w \o s, 1) = At(s, 1)
    <3>1. CASE Len(s) = 0
      BY <1>3, <1>5, <3>1 DEF At
    <3>2. CASE Len(s) # 0
      <4>1. 1 \in 1 .. Len(w) + Len(s) /\ ~(1 <= Len(w)) /\ 1 - Len(w) = 1
        BY <1>4, <1>5, <3>2
      <4>2. (w \o s)[1] = s[1]
        BY <1>3, <4>1
      <4> QED
        BY <1>3, <1>5, <4>2 DEF At
    <3> QED
      BY <3>1, <3>2
  <2> QED
    BY <1>1, <2>1
<1>6. CASE Len(w) # 0
  <2>1. 1 \in 1 .. Len(w) /\ 1 \in 1 .. Len(w) + Len(s) /\ 1 <= Len(w)
        /\ 1 # Len(w) + Len(s) + 1
    BY <1>2, <1>4, <1>6
  <2>2. (w \o s)[1] = w[1]
    BY <1>3, <2>1
  <2> QED
    BY <1>1, <1>2, <1>3, <2>1, <2>2 DEF At
<1> QED
  BY <1>5, <1>6

(* The visit after the children does what the walk was to do.              *)
LEMMA PostBalanced ==
    ASSUME IInv, Accounted, outcome = "run", todo # <<>>, Head(todo).op = "walk",
           NEW d \in Nat, d - (IF Here.kind = "brace" THEN 1 ELSE 0) = Depth,
           Balanced(frames', Rest, After(frames, Head(todo), vi)), NEW w \in Int,
           After(frames', Item("post", Here, d, 0), w) = After(frames, Head(todo), vi)
    PROVE  Balanced(frames', PostOn(Here, d, Rest), w)
<1> DEFINE a == Head(todo)
           b == At(Rest, 1)
           z == Item("post", Here, d, 0)
<1>1. /\ Link(a, b) /\ a.d = Depth /\ After(frames, a, vi) \in Int
  BY TopFacts DEF Closes, Through
<1>2. z \in TodoItem /\ z.op = "post" /\ z.d = d /\ z.node = Here /\ a.node = Here
  <2>1. Here \in Node /\ "post" \in Ops /\ 0 \in Nat
    BY HeadItem DEF Ops
  <2> QED
    BY <2>1, OneItem DEF Here
<1>3. Rest \in Seq(TodoItem)
  BY UnderFacts
<1>4. a.op = "walk" /\ Balanced(frames', Rest, After(frames, a, vi))
      /\ After(frames', z, w) = After(frames, a, vi)
  OBVIOUS
<1> HIDE DEF a, b, z
<1>5. Link(z, b)
  <2>1. ~Pops(a) /\ (Pops(z) <=> Here.kind = "brace")
    BY <1>2, <1>4 DEF Pops
  <2>2. z.d - (IF Pops(z) THEN 1 ELSE 0) = a.d - 0
    <3>1. Depth \in Nat /\ Depth - 0 = Depth
      BY HeadItem
    <3> QED
      BY <1>1, <1>2, <2>1, <3>1
  <2>3. (Tight(a) => Tight(z)) /\ (Ends(z) => Ends(a))
    BY <1>2, <1>4 DEF Tight, Ends
  <2> QED
    BY <1>1, <1>2, <1>4, <2>1, <2>2, <2>3, LinkFrom
<1>6. Own(frames', z, w)
  BY <1>2 DEF Own
<1>7. Step(frames', z, w, b, After(frames, a, vi))
  BY <1>4, <1>5, <1>6 DEF Step
<1>8. Balanced(frames', <<z>> \o Rest, w)
  BY <1>1, <1>2, <1>3, <1>4, <1>7, ItemBalanced DEF b
<1> QED
  BY <1>8 DEF PostOn, z

(* The visits of a node are on the list.                                   *)
LEMMA VisitsAccounted ==
    ASSUME IInv, outcome = "run", todo # <<>>, NEW n \in Node, NEW d \in Nat, d = Depth',
           todo' = Visits(n, d) \o Rest, Balanced(frames', Visits(n, d) \o Rest, vi')
    PROVE  Accounted'
<1>1. At(Visits(n, d) \o Rest, 1).d = d
  BY UnderFacts, VisitsTop
<1>2. Footing(Visits(n, d) \o Rest, Depth')
  BY <1>1 DEF Footing
<1> QED
  BY <1>2 DEF Accounted

(* A block: its statements begin at the height of its frame.               *)
LEMMA EnterBraceBalanced ==
    ASSUME BodiesReturn, IInv, IInv', Accounted, EnterBrace
    PROVE  Accounted'
<1> DEFINE a == Head(todo)
           d == Depth + 1
           w == IF Here \in Returning THEN vi + 1 ELSE vi
           z == Item("post", Here, d, 0)
<1>1. /\ outcome = "run" /\ todo # <<>> /\ a.op = "walk" /\ a.node = Here /\ Here.kind = "brace"
      /\ frames' = Append(frames, Frame("anonymous")) /\ vi' = vi
      /\ todo' = Visits(Here, d) \o Rest
  BY DEF EnterBrace, Visit, Turn, Pre, PushFrame, Here
<1>2. Here \in Node /\ Depth \in Nat /\ d \in Nat /\ d - 1 = Depth /\ Rest \in Seq(TodoItem)
  BY <1>1, ListFacts, UnderFacts
<1>3. vi \in Int /\ Balanced(frames, Rest, After(frames, a, vi)) /\ w \in Int
  BY <1>1, TopFacts
<1>4. /\ Balanced(frames', Rest, After(frames, a, vi))
      /\ Depth' = d /\ Base(frames', d) = vi
  BY <1>1, <1>3, MoreFrames
<1>5. After(frames, a, vi) = w
  <2>1. ~IsExpr(Here) /\ vi + 0 = vi
    BY <1>1, <1>3 DEF IsExpr, ExprKinds
  <2> QED
    BY <1>1, <2>1 DEF After, Discards, Effect
<1>6. After(frames', z, w) = w
  <2>1. z.op = "post" /\ z.node = Here
    BY DEF Item
  <2> HIDE DEF z, w
  <2> QED
    BY <1>1, <1>3, <2>1, NoEffect
<1>7. Balanced(frames', PostOn(Here, d, Rest), w)
  <2> HIDE DEF w, d
  <2> QED
    BY <1>1, <1>2, <1>3, <1>4, <1>5, <1>6, PostBalanced
<1>8. Balanced(frames', Visits(Here, d) \o Rest, vi)
  <2>1. Here.kind \in {"top", "brace"}
    BY <1>1
  <2> HIDE DEF d
  <2> QED
    BY <1>2, <1>3, <1>4, <1>7, <2>1, StatementsBalanced
<1> HIDE DEF d
<1> QED
  BY <1>1, <1>2, <1>4, <1>8, VisitsAccounted

(* The nodes that are visited after their children.                        *)
LEMMA DescendBalanced ==
    ASSUME BodiesReturn, IInv, IInv', Accounted, Descend
    PROVE  Accounted'
<1> DEFINE a == Head(todo)
           n == Here
           z == Item("post", n, Depth, 0)
<1>1. /\ outcome = "run" /\ todo # <<>> /\ a.op = "walk" /\ a.node = n
      /\ n.kind \notin {"fun", "brace", "if", "while"}
      /\ frames' = frames /\ vi' = vi /\ Depth' = Depth /\ todo' = Visits(n, Depth) \o Rest
  BY DEF Descend, Turn, Pre, scope, Here, Depth
<1>2. n \in Node /\ Depth \in Nat /\ Depth - 0 = Depth /\ Rest \in Seq(TodoItem)
  BY <1>1, ListFacts, UnderFacts
<1>3. /\ vi \in Int /\ Balanced(frames', Rest, After(frames, a, vi)) /\ Own(frames, a, vi)
      /\ a.d = Depth
  BY <1>1, TopFacts DEF Closes, Through
<1>4. z.op = "post" /\ z.node = n /\ z.d = Depth
  BY DEF Item
<1>5. n \in Returning <=> n.kind = "ret"
  BY <1>1, <1>2, ReturningIs DEF ReturnsIn
<1>6. ~IsExpr(n) => vi = Base(frames', Depth)
  BY <1>1, <1>3 DEF Own
<1> HIDE DEF a, n, z
<1>7. ASSUME NEW w \in Int, After(frames', z, w) = After(frames, a, vi)
      PROVE  Balanced(frames', PostOn(n, Depth, Rest), w)
  BY <1>1, <1>2, <1>3, <1>7, PostBalanced DEF a, n, z
<1>8. CASE n.kind = "top"
  <2>1. ~IsExpr(n)
    BY <1>8 DEF IsExpr, ExprKinds
  <2>2. After(frames, a, vi) = vi
    BY <1>1, <1>3, <1>8, <2>1, NoEffect
  <2>3. After(frames', z, vi) = vi
    BY <1>3, <1>4, <1>8, NoEffect
  <2>4. Balanced(frames', PostOn(n, Depth, Rest), vi)
    BY <1>3, <1>7, <2>2, <2>3
  <2>5. n.kind \in {"top", "brace"} /\ n \notin Returning /\ Base(frames', Depth) = vi
    BY <1>5, <1>6, <1>8, <2>1
  <2>6. Balanced(frames', Visits(n, Depth) \o Rest, vi)
    BY <1>2, <1>3, <2>4, <2>5, StatementsBalanced
  <2> QED
    BY <1>1, <1>2, <2>6, VisitsAccounted
<1>9. CASE n.kind # "top"
  <2> DEFINE k == Len(Children(n))
  <2>1. /\ n.kind \notin {"top", "brace"} /\ k = Operands(n) /\ k \in Nat
        /\ \A i \in 1 .. k : IsExpr(Children(n)[i])
    BY <1>1, <1>2, <1>9, ChildrenCount
  <2>2. After(frames, a, vi) = IF IsExpr(n) \/ n.kind = "ret" THEN vi + 1 ELSE vi
    <3>1. vi + 0 = vi
      BY <1>3
    <3> QED
      BY <1>1, <1>5, <3>1 DEF After, Discards, Effect
  <2>3. n.kind = "apply" => Len(n.args) \in Nat
    BY <1>2, TreeAssumption, LenProperties
  <2> HIDE DEF k
  <2>4. vi + k \in Int
    BY <1>3, <2>1
  <2>5. After(frames', z, vi + k) = After(frames, a, vi)
    <3>1. CASE n.kind = "expr_stmt"
      <4>1. Discards(z) /\ ~IsExpr(n)
        BY <1>4, <3>1 DEF Discards, IsExpr, ExprKinds
      <4> QED
        BY <1>4, <1>6, <2>2, <3>1, <4>1 DEF After
    <3>2. CASE n.kind # "expr_stmt"
      <4>1. After(frames', z, vi + k) = vi + k + PostEffect(n)
        BY <1>4, <3>2 DEF After, Discards, Effect
      <4>2. k + PostEffect(n) = IF IsExpr(n) \/ n.kind = "ret" THEN 1 ELSE 0
        <5>1. CASE n.kind = "apply"
          <6>1. k = 1 + Len(n.args) /\ PostEffect(n) = -Len(n.args)
            BY <2>1, <5>1 DEF Operands, PostEffect
          <6>2. IsExpr(n)
            BY <5>1 DEF IsExpr, ExprKinds
          <6>3. 1 + Len(n.args) + (-Len(n.args)) = 1
            BY <2>3, <5>1
          <6> QED
            BY <6>1, <6>2, <6>3
        <5>2. CASE n.kind \in {"bool", "integer", "ref", "unary", "paren", "binary", "ret"}
          <6>1. k + PostEffect(n) = 1
            <7>1. \/ Operands(n) = 0 /\ PostEffect(n) = 1
                  \/ Operands(n) = 1 /\ PostEffect(n) = 0
                  \/ Operands(n) = 2 /\ PostEffect(n) = -1
              BY <5>2 DEF Operands, PostEffect
            <7> QED
              BY <2>1, <7>1
          <6> QED
            BY <5>2, <6>1 DEF IsExpr, ExprKinds
        <5>3. CASE n.kind \notin {"apply", "bool", "integer", "ref", "unary", "paren", "binary", "ret"}
          <6>1. k + PostEffect(n) = 0
            <7>1. \/ Operands(n) = 0 /\ PostEffect(n) = 0
                  \/ Operands(n) = 1 /\ PostEffect(n) = -1
              BY <3>2, <5>3 DEF Operands, PostEffect
            <7> QED
              BY <2>1, <7>1
          <6> QED
            BY <5>3, <6>1 DEF IsExpr, ExprKinds
        <5> QED
          BY <5>1, <5>2, <5>3
      <4>3. PostEffect(n) \in Int
        BY <2>3 DEF PostEffect
      <4>4. vi + k + PostEffect(n) = vi + (k + PostEffect(n)) /\ vi + 0 = vi
        BY <1>3, <2>1, <4>3
      <4> QED
        BY <2>2, <4>1, <4>2, <4>4
    <3> QED
      BY <3>1, <3>2
  <2>6. Balanced(frames', PostOn(n, Depth, Rest), vi + k)
    BY <1>7, <2>4, <2>5
  <2>7. Balanced(frames', Visits(n, Depth) \o Rest, vi)
    BY <1>2, <1>3, <2>1, <2>6, ExpressionsBalanced DEF k
  <2> QED
    BY <1>1, <1>2, <2>7, VisitsAccounted
<1> QED
  BY <1>8, <1>9

(* The loop of eval_program.                                               *)
LEMMA TopDeclBalanced ==
    ASSUME BodiesReturn, IInv, IInv', Accounted, TopDecl
    PROVE  Accounted'
<1> DEFINE a == Head(todo)
           b == At(Rest, 1)
           x == Item("walk", Here, a.d, 0)
<1>1. /\ outcome = "run" /\ todo # <<>> /\ a.op = "decl" /\ a.node = Here
      /\ frames' = frames /\ vi' = vi /\ Depth' = Depth
  BY DEF TopDecl, Turn, scope, Here, Depth
<1>2. /\ vi \in Int /\ Balanced(frames, Rest, After(frames, a, vi)) /\ Own(frames, a, vi)
      /\ Link(a, b) /\ a.d = Depth
  BY <1>1, TopFacts DEF Closes, Through
<1>3. After(frames, a, vi) = vi
  BY <1>1, <1>2, NoEffect
<1>4. CASE Here.kind # "top"
  <2>1. todo' = Rest
    BY <1>4 DEF TopDecl, Done
  <2>2. ~Pops(a)
    BY <1>1 DEF Pops
  <2> QED
    BY <1>1, <1>3, <2>1, <2>2, OverBalanced
<1>5. CASE Here.kind = "top"
  <2>1. todo' = Walks(<<Here>>, a.d) \o Rest
    BY <1>5 DEF TopDecl, Pre
  <2>2. Walks(<<Here>>, a.d) = <<x>>
    BY DEF Walks
  <2>3. Here \in Node /\ a.d \in Nat /\ "walk" \in Ops /\ 0 \in Nat /\ Rest \in Seq(TodoItem)
    BY <1>1, HeadItem DEF Ops
  <2>4. x \in TodoItem /\ x.op = "walk" /\ x.d = a.d /\ x.node = Here
    <3> HIDE DEF a
    <3> QED
      BY <2>3, OneItem
  <2> HIDE DEF a, b, x
  <2>5. ~IsExpr(Here) /\ Here.kind \notin {"ret", "brace", "if"} /\ Here \notin Returning
    BY <1>5, NotReturning DEF IsExpr, ExprKinds
  <2>6. Step(frames, x, vi, b, vi)
    <3>1. Own(frames, x, vi)
      BY <1>1, <1>2, <2>4 DEF Own
    <3>2. Link(x, b)
      <4>1. ~Pops(a) /\ ~Pops(x) /\ ~Tight(a) /\ a.op # "return" /\ x.op # "assigned" /\ ~Ends(x)
        BY <1>1, <2>4, <2>5 DEF Pops, Tight, Ends
      <4> QED
        BY <1>2, <2>4, <4>1, LinkFrom
    <3>3. After(frames, x, vi) = vi
      BY <1>2, <2>4, <2>5, NoEffect
    <3> QED
      BY <3>1, <3>2, <3>3 DEF Step
  <2>7. Balanced(frames, <<x>> \o Rest, vi)
    BY <1>2, <1>3, <2>3, <2>4, <2>6, ItemBalanced DEF b
  <2>8. At(<<x>> \o Rest, 1) = x
    <3> DEFINE one == <<x>>
    <3>1. one \in Seq(TodoItem) /\ Len(one) = 1 /\ one[1] = x
      BY <2>4
    <3> HIDE DEF one
    <3>2. one \in Seq(TodoItem) /\ Rest \in Seq(TodoItem)
      BY <2>3, <3>1
    <3>3. /\ Len(one \o Rest) = Len(one) + Len(Rest)
          /\ \A i \in 1 .. Len(one) + Len(Rest) :
               (one \o Rest)[i] = IF i <= Len(one) THEN one[i] ELSE Rest[i - Len(one)]
      BY ONLY <3>2, ConcatProperties, SMTT(30)
    <3>4. Len(Rest) \in Nat
      BY <2>3, LenProperties
    <3>5. (one \o Rest)[1] = x /\ 1 # Len(one \o Rest) + 1
      BY <3>1, <3>3, <3>4
    <3> QED
      BY <3>5 DEF At, one
  <2>9. Footing(<<x>> \o Rest, Depth)
    BY <1>2, <2>4, <2>8 DEF Footing
  <2> QED
    BY <1>1, <2>1, <2>2, <2>7, <2>9 DEF Accounted
<1> QED
  BY <1>4, <1>5

(* `brk` and `nxt` go to the end of a loop's body, `ret` to the call or    *)
(* the branch that waits.                                                  *)
LEMMA JumpBalanced ==
    ASSUME JumpsInLoops, BodiesReturn, IInv, IInv', BreakInv, Accounted, Break \/ NextOrReturn
    PROVE  Accounted'
<1> DEFINE a == Head(todo)
           b == At(Rest, 1)
<1>1. /\ outcome = "run" /\ todo # <<>> /\ a.op = "post" /\ a.node = Here
      /\ Here.kind \in {"brk", "nxt", "ret"} /\ frames' = frames /\ vi' = vi
      /\ todo' = Unwind(Rest)
  BY DEF Break, NextOrReturn, Visit, Turn, scope, Here
<1>2. vi \in Int /\ Balanced(frames, Rest, After(frames, a, vi)) /\ Link(a, b)
  BY <1>1, TopFacts
<1>3. After(frames, a, vi) = vi
  BY <1>1, <1>2, NoEffect
<1>4. Here \in Node /\ Rest \in Seq(TodoItem) /\ todo \in Seq(TodoItem)
  BY <1>1, HeadItem DEF IInv, WalkGood
<1>5. CASE Here.kind = "ret"
  <2>1. Ends(a)
    BY <1>1, <1>4, <1>5, ReturningIs DEF ReturnsIn, Ends
  <2>2. Closes(b)
    BY <1>2, <2>1 DEF Link
  <2>3. Balanced(frames, Unwind(Rest), vi) /\ Closes(At(Unwind(Rest), 1))
    BY <1>2, <1>3, <1>4, <2>2, UnwindReturn
  <2> QED
    BY <1>1, <2>3 DEF Accounted, Footing
<1>6. CASE Here.kind # "ret"
  <2>1. MayBreak(a)
    BY <1>1, <1>4, <1>6, JumpingIs DEF LeftBy, MayBreak
  <2>2. CaughtBehind(Rest, 0)
    BY <1>1, <1>4, <2>1, TailCaught DEF BreakInv, Rest
  <2>3. ~Takes(b)
    BY <1>1, <1>2 DEF Link, Tight, IsExpr, ExprKinds
  <2>4. Balanced(frames, Unwind(Rest), vi) /\ At(Unwind(Rest), 1).op = "loop_body"
    BY <1>2, <1>3, <1>4, <2>2, <2>3, UnwindJump
  <2> QED
    BY <1>1, <2>4 DEF Accounted, Footing
<1> QED
  BY <1>5, <1>6

(* A step that goes on, not after an error.                                *)
LEMMA GoingBalanced ==
    ASSUME JumpsInLoops, BodiesReturn, VoidsAreStatements, IInv, IInv', BreakInv, Accounted,
           status # "ERR", Goes, Next
    PROVE  Accounted'
<1>1. ~(SkipAfterError \/ UnwindAfterError \/ StatusAssertFails \/ CallBad \/ Finish)
  BY StopsNot DEF SkipAfterError, UnwindAfterError, StatusAssertFails, CallBad, FailPost,
                  Finish, Goes
<1>2. CASE TopDecl \/ Descend
  BY <1>2, TopDeclBalanced, DescendBalanced
<1>3. CASE Statement
  <2>1. CASE DeclareFun \/ DeclareVar \/ Assigned \/ BranchDone \/ ExprStmt \/ EndTop
    BY <2>1, StatementBalanced
  <2>2. CASE Assign
    <3>1. status = "OK"
      BY <2>2 DEF Assign, Visit
    <3> QED
      BY <2>2, <3>1, AssignBalanced
  <2>3. CASE EnterBrace \/ LeaveBrace
    BY <2>3, EnterBraceBalanced, PopOneBalanced
  <2>4. CASE EnterIf \/ Condition \/ EnterWhile \/ LoopCondition
    BY <2>4, EnterBalanced, DecideBalanced
  <2>5. CASE LoopBody
    BY <2>5, LoopBodyBalanced
  <2>6. CASE Break \/ NextOrReturn
    BY <2>6, JumpBalanced
  <2> QED
    BY <1>3, <2>1, <2>2, <2>3, <2>4, <2>5, <2>6 DEF Statement
<1>4. CASE Expression
  <2>1. CASE Literal \/ UnaryOp \/ BinaryOp \/ Paren \/ CallPrint
    <3>1. status = "OK"
      BY <2>1 DEF Literal, UnaryOp, BinaryOp, Paren, CallPrint, Visit
    <3> QED
      BY <2>1, <3>1, ExpressionBalanced
  <2>2. CASE Reference \/ CallFunction \/ Return \/ LazyDone
    BY <2>2, ReferenceBalanced, CallFunctionBalanced, ReturnBalanced, PopOneBalanced
  <2> QED
    BY <1>1, <1>4, <2>1, <2>2 DEF Expression
<1> QED
  BY <1>1, <1>2, <1>3, <1>4 DEF Next

---------------------------------------------------------------------------
(* The theorems.                                                           *)
StackInv == IInv /\ BreakInv /\ BalanceInv

(* At first every item begins and ends at an empty stack.                  *)
LEMMA StackInit == Init => StackInv
<1> SUFFICES ASSUME Init PROVE Accounted
  BY InitGood, BreakInit DEF StackInv, BalanceInv
<1> DEFINE t == todo
           h == [i \in 1 .. Len(t) + 1 |-> 0]
<1>1. /\ frames = <<>> /\ vi = 0 /\ t = [i \in 1 .. Len(prog) |-> Item("decl", prog[i], 0, 0)]
      /\ t \in Seq(TodoItem)
  BY InitGood DEF Init, IInv, WalkGood
<1>2. Len(t) \in Nat /\ \A i \in 1 .. Len(t) : t[i].op = "decl" /\ t[i].d = 0
  <2>1. DOMAIN t = 1 .. Len(prog) /\ DOMAIN t = 1 .. Len(t) /\ Len(t) \in Nat
    BY <1>1, LenProperties
  <2>2. \A i \in 1 .. Len(prog) : t[i].op = "decl" /\ t[i].d = 0
    BY <1>1 DEF Item
  <2> QED
    BY <2>1, <2>2
<1> HIDE DEF t
<1>3. ASSUME NEW i \in 1 .. Len(t)
      PROVE  Step(frames, t[i], 0, At(t, i + 1), 0)
  <2> DEFINE a == t[i]
             b == At(t, i + 1)
  <2>1. a.op = "decl" /\ a.d = 0
    BY <1>2
  <2>2. b.d = 0 /\ ~Takes(b) /\ b.op # "return"
    <3>1. CASE i = Len(t)
      BY <3>1, EndItemIs DEF At, EndItem
    <3>2. CASE i # Len(t)
      <4>1. i + 1 \in 1 .. Len(t) /\ i + 1 # Len(t) + 1
        BY <1>2, <3>2
      <4> QED
        BY <1>2, <4>1 DEF At, Takes, Tight, Discards
    <3> QED
      BY <3>1, <3>2
  <2> HIDE DEF a, b
  <2>3. Own(frames, a, 0)
    BY <2>1 DEF Own, Base
  <2>4. Link(a, b)
    <3>1. ~Pops(a) /\ ~Ends(a)
      BY <2>1 DEF Pops, Ends
    <3>2. b.d = a.d - 0 - 0
      BY <2>1, <2>2
    <3> QED
      BY <2>1, <2>2, <3>1, <3>2 DEF Link
  <2>5. After(frames, a, 0) = 0
    BY <2>1 DEF After, Discards, Effect
  <2> QED
    BY <2>3, <2>4, <2>5 DEF Step, a, b
<1>4. Labels(frames, t, h)
  <2>1. h \in [1 .. Len(t) + 1 -> Int] /\ Len(t) + 1 \in 1 .. Len(t) + 1
        /\ \A i \in 1 .. Len(t) : i \in 1 .. Len(t) + 1 /\ i + 1 \in 1 .. Len(t) + 1
    BY <1>2
  <2> QED
    BY <1>3, <2>1 DEF Labels
<1>5. h[1] = 0
  BY <1>2
<1>6. Balanced(frames, t, 0)
  <2> HIDE DEF h
  <2> QED
    BY <1>4, <1>5 DEF Balanced
<1>7. Footing(t, Depth)
  <2>1. Depth = 0
    BY <1>1, EmptySeq DEF Depth
  <2>2. At(t, 1).d = 0
    <3>1. CASE Len(t) = 0
      BY <3>1, EndItemIs DEF At
    <3>2. CASE Len(t) # 0
      <4>1. 1 \in 1 .. Len(t) /\ 1 # Len(t) + 1
        BY <1>2, <3>2
      <4> QED
        BY <1>2, <4>1 DEF At
    <3> QED
      BY <3>1, <3>2
  <2> QED
    BY <2>1, <2>2 DEF Footing
<1> QED
  BY <1>1, <1>6, <1>7 DEF Accounted, t

(* Every step keeps the account.                                           *)
LEMMA StackStep ==
    JumpsInLoops /\ BodiesReturn =>
      (StackInv /\ VoidsAreStatements /\ [Next]_vars => StackInv')
<1> SUFFICES ASSUME JumpsInLoops, BodiesReturn, StackInv, VoidsAreStatements, [Next]_vars
             PROVE  StackInv'
  OBVIOUS
<1>1. IInv' /\ BreakInv'
  BY StepGood, BreakStep, JumpingIs DEF StackInv
<1>2. BalanceInv'
  <2> SUFFICES ASSUME outcome' = "run", status' # "ERR"
               PROVE  Accounted'
    BY DEF BalanceInv
  <2>1. CASE UNCHANGED vars
    <3>1. Accounted
      BY <2>1 DEF StackInv, BalanceInv, vars
    <3> QED
      BY <2>1, <3>1 DEF Accounted, Depth, vars
  <2>2. CASE Next
    <3>1. outcome = "run" /\ status # "ERR"
      BY <2>2, ActsRun, SilentStep DEF StackInv, Silent
    <3>2. Accounted
      BY <3>1 DEF StackInv, BalanceInv
    <3> QED
      BY <1>1, <2>2, <3>1, <3>2, GoingBalanced DEF StackInv, Goes
  <2> QED
    BY <2>1, <2>2
<1> QED
  BY <1>1, <1>2 DEF StackInv

(* What a call leaves, from the height its item begins with.               *)
LEMMA AccountedCall == StackInv => CallLeavesResult
<1> SUFFICES ASSUME StackInv, Is("return"), status = "OK"
             PROVE  vi = Head(todo).at + 2
  BY DEF CallLeavesResult
<1>1. IInv /\ Accounted /\ outcome = "run" /\ todo # <<>> /\ Head(todo).op = "return"
  BY DEF StackInv, BalanceInv, Is
<1>2. Own(frames, Head(todo), vi)
  BY <1>1, TopFacts
<1> QED
  BY <1>1, <1>2 DEF Own

(* What a program leaves, when there is no item any more.                  *)
LEMMA AccountedEnd == StackInv /\ status # "ERR" => CleanEnd
<1> SUFFICES ASSUME StackInv, status # "ERR", outcome = "run", todo = <<>>
             PROVE  vi = 0 /\ frames = <<>>
  BY DEF CleanEnd
<1>1. Balanced(frames, todo, vi) /\ Footing(todo, Depth) /\ frames \in Seq(EvalFrame)
  BY DEF StackInv, BalanceInv, Accounted, IInv, ScopeGood
<1>2. Len(todo) = 0 /\ Len(todo) + 1 = 1
  OBVIOUS
<1>3. vi = 0
  BY <1>1, <1>2 DEF Balanced, Labels
<1>4. Depth = 0
  BY <1>1, <1>2, EndItemIs DEF Footing, At
<1> QED
  BY <1>1, <1>3, <1>4, EmptySeq DEF Depth

(* In every program whose functions end in a `ret`, on every path, whose   *)
(* `brk` and `nxt` leave blocks of a loop's body only, and that uses what  *)
(* has no value as a statement: when a call comes back without an error    *)
(* its callee and its result are on top of the stack, however many values  *)
(* the callers had put there, and wherever in its loops, blocks and        *)
(* branches the function returned.                                         *)
THEOREM CallsLeaveResults ==
    JumpsInLoops /\ BodiesReturn =>
      (Spec /\ []VoidsAreStatements => []CallLeavesResult)
<1> SUFFICES ASSUME JumpsInLoops, BodiesReturn
             PROVE  Spec /\ []VoidsAreStatements => []CallLeavesResult
  OBVIOUS
<1>1. StackInv /\ VoidsAreStatements /\ [Next]_vars => StackInv'
  BY StackStep
<1> QED
  BY <1>1, StackInit, AccountedCall, PTL DEF Spec

(* And when such a program comes to its end without an error it has left   *)
(* no value on the stack and no frame.                                     *)
THEOREM ProgramsEndClean ==
    JumpsInLoops /\ BodiesReturn =>
      (Spec /\ []VoidsAreStatements => [](status # "ERR" => CleanEnd))
<1> SUFFICES ASSUME JumpsInLoops, BodiesReturn
             PROVE  Spec /\ []VoidsAreStatements => [](status # "ERR" => CleanEnd)
  OBVIOUS
<1>1. StackInv /\ VoidsAreStatements /\ [Next]_vars => StackInv'
  BY StackStep
<1>2. StackInv => (status # "ERR" => CleanEnd)
  BY AccountedEnd
<1> QED
  BY <1>1, <1>2, StackInit, PTL DEF Spec

=============================================================================
