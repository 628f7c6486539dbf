---------------------------- MODULE SubTrieProofs ----------------------------
(***************************************************************************)
(* Proofs about the cut, for any keys of any number of bits, any node and  *)
(* any buffer that holds two hashes.                                       *)
(***************************************************************************)
EXTENDS SubTrieCall, FiniteSetTheorems, WellFoundedInduction, SequenceTheorems, TLAPS

-----------------------------------------------------------------------------
(* Induction over the natural numbers, about a set.                        *)

LEMMA SmallestOf ==
  ASSUME NEW T, T \subseteq Nat, T # {}
  PROVE  \E x \in T : \A y \in T : x <= y
<1> DEFINE R == OpToRel(<, Nat)
<1>1. IsWellFoundedOn(R, Nat)
  BY NatLessThanWellFounded
<1>2. \A x, y \in Nat : x < y <=> <<x, y>> \in R
  BY DEF OpToRel
<1> HIDE DEF R
<1>3. PICK x \in T : \A y \in T : ~ (<<y, x>> \in R)
  BY <1>1, WFMin
<1>4. \A y \in T : ~ (y < x)
  BY <1>2, <1>3
<1> QED
  BY <1>4

(* Whatever holds for a number if it holds for all smaller ones. *)
LEMMA CourseOfValues ==
  ASSUME NEW S, \A n \in Nat : (\A m \in Nat : m < n => m \in S) => n \in S
  PROVE  Nat \subseteq S
<1> SUFFICES ASSUME Nat \ S # {} PROVE FALSE
  OBVIOUS
<1>1. PICK x \in Nat \ S : \A y \in Nat \ S : x <= y
  BY SmallestOf
<1>2. \A m \in Nat : m < x => m \in S
  BY <1>1
<1> QED
  BY <1>1, <1>2

-----------------------------------------------------------------------------
(* The children of a node.                                                 *)

(* The nodes below top: its keys with a common prefix. *)
NodesOf(top) == {b \cap top : b \in PrefixBlocks} \ {{}}

LEMMA CommonBitsExist ==
  ASSUME NEW h \in Node, HasChildren(h)
  PROVE  /\ CommonBits(h) \in 0 .. Depth - 1
         /\ \A j, k \in h : Similar(j, k, CommonBits(h))
         /\ \E j, k \in h : Bit(j, CommonBits(h)) # Bit(k, CommonBits(h))
<1> DEFINE T == {i \in 0 .. Depth - 1 : \E j, k \in h : Bit(j, i) # Bit(k, i)}
<1>1. T # {}
  BY BitsAssumption DEF HasChildren, Node
<1>2. T \subseteq Nat
  BY BitsAssumption
<1>3. PICK d \in T : \A y \in T : d <= y
  BY <1>1, <1>2, SmallestOf
<1>4. \A j, k \in h : Similar(j, k, d)
  BY <1>3, BitsAssumption DEF Similar
<1> QED
  BY <1>3, <1>4 DEF CommonBits

(* The two children are nodes below the same top, and share out the keys. *)
LEMMA ChildrenSplit ==
  ASSUME NEW h \in Node, HasChildren(h)
  PROVE  /\ SmallerChild(h) # {} /\ LargerChild(h) # {}
         /\ SmallerChild(h) \cap LargerChild(h) = {}
         /\ SmallerChild(h) \cup LargerChild(h) = h
<1>1. \A k \in h : Bit(k, CommonBits(h)) \in {0, 1}
  BY CommonBitsExist, BitsAssumption DEF Node
<1>2. \E j, k \in h : Bit(j, CommonBits(h)) # Bit(k, CommonBits(h))
  BY CommonBitsExist
<1> QED
  BY <1>1, <1>2 DEF SmallerChild, LargerChild

LEMMA BitChildBelow ==
  ASSUME NEW top \in Node, NEW h \in NodesOf(top), HasChildren(h), NEW b,
         NEW s \in h, Bit(s, CommonBits(h)) = b
  PROVE  {k \in h : Bit(k, CommonBits(h)) = b} \in NodesOf(top)
<1> DEFINE c == CommonBits(h)
           part == {k \in h : Bit(k, c) = b}
<1>1. PICK k0 \in BitKeys, d0 \in 0 .. Depth : h = Prefix(k0, d0) \cap top
  BY DEF NodesOf, PrefixBlocks
<1>2. h \in Node /\ s \in BitKeys /\ top \subseteq BitKeys
  BY DEF NodesOf, Node
<1>3. /\ c \in 0 .. Depth - 1
      /\ \A j, k \in h : Similar(j, k, c)
      /\ \E j, k \in h : Bit(j, c) # Bit(k, c)
  BY <1>2, CommonBitsExist
<1>4. \A k \in h : Similar(k, k0, d0)
  BY <1>1 DEF Prefix
<1> HIDE DEF c
<1>5. d0 <= c
  <2> SUFFICES ASSUME c < d0 PROVE FALSE
    BY <1>3, BitsAssumption
  <2>1. \A k \in h : Bit(k, c) = Bit(k0, c)
    BY <1>3, <1>4, BitsAssumption DEF Similar
  <2> QED
    BY <1>3, <2>1
<1>6. part \subseteq Prefix(s, c + 1) \cap top
  <2> SUFFICES ASSUME NEW x \in part PROVE x \in Prefix(s, c + 1) /\ x \in top
    OBVIOUS
  <2>1. x \in top /\ x \in BitKeys /\ x \in h /\ Bit(x, c) = Bit(s, c)
    BY <1>1, <1>2 DEF c
  <2>2. \A i \in 0 .. c - 1 : Bit(x, i) = Bit(s, i)
    BY <1>3, <2>1 DEF Similar
  <2>3. \A i \in 0 .. (c + 1) - 1 : Bit(x, i) = Bit(s, i)
    BY <1>3, <2>1, <2>2, BitsAssumption
  <2> QED
    BY <2>1, <2>3 DEF Prefix, Similar
<1>7. Prefix(s, c + 1) \cap top \subseteq part
  <2> SUFFICES ASSUME NEW x \in Prefix(s, c + 1), x \in top PROVE x \in part
    OBVIOUS
  <2>1. \A i \in 0 .. c : Bit(x, i) = Bit(s, i)
    BY <1>3, BitsAssumption DEF Prefix, Similar
  <2>2. \A i \in 0 .. d0 - 1 : Bit(x, i) = Bit(k0, i)
    BY <1>3, <1>4, <1>5, <2>1, BitsAssumption DEF Similar
  <2>3. x \in h
    BY <1>1, <2>2 DEF Prefix, Similar
  <2>4. Bit(x, c) = b
    BY <1>3, <2>1, BitsAssumption DEF c
  <2> QED
    BY <2>3, <2>4
<1>8. Prefix(s, c + 1) \in PrefixBlocks
  BY <1>2, <1>3, BitsAssumption DEF PrefixBlocks
<1>9. part # {}
  BY DEF c
<1> QED
  BY <1>6, <1>7, <1>8, <1>9 DEF NodesOf, c

LEMMA ChildrenBelow ==
  ASSUME NEW top \in Node, NEW h \in NodesOf(top), HasChildren(h)
  PROVE  SmallerChild(h) \in NodesOf(top) /\ LargerChild(h) \in NodesOf(top)
<1>1. h \in Node
  BY DEF NodesOf, Node
<1>2. PICK s \in SmallerChild(h), t \in LargerChild(h) : TRUE
  BY <1>1, ChildrenSplit
<1>3. s \in h /\ Bit(s, CommonBits(h)) = 0 /\ t \in h /\ Bit(t, CommonBits(h)) = 1
  BY <1>2 DEF SmallerChild, LargerChild
<1> QED
  BY <1>3, BitChildBelow DEF SmallerChild, LargerChild

LEMMA TopBelowItself ==
  ASSUME NEW top \in Node
  PROVE  top \in NodesOf(top)
<1>1. PICK k \in top : TRUE
  BY DEF Node
<1>2. Prefix(k, 0) = BitKeys
  BY DEF Prefix, Similar
<1> QED
  BY <1>1, <1>2, BitsAssumption DEF NodesOf, PrefixBlocks, Node

-----------------------------------------------------------------------------
(* The two vectors.                                                        *)

InnersOf(top) == {h \in NodesOf(top) : HasChildren(h)}
LeavesOf(top) == {h \in NodesOf(top) : ~HasChildren(h)}

Disjoint(s) == \A i, j \in 1 .. Len(s) : i # j => s[i] \cap s[j] = {}
KeysIn(s) == UNION {s[i] : i \in 1 .. Len(s)}

(* Inner nodes in the one, leaves in the other, and no key twice. *)
Vectors(top, inner, child) ==
  /\ inner \in Seq(InnersOf(top)) /\ Disjoint(inner)
  /\ child \in Seq(LeavesOf(top)) /\ Disjoint(child)
  /\ KeysIn(inner) \cap KeysIn(child) = {}

Held(inner, child) == KeysIn(inner) \cup KeysIn(child)

LEMMA BelowAreNodes ==
  ASSUME NEW top
  PROVE  InnersOf(top) \subseteq NodesOf(top) /\ LeavesOf(top) \subseteq NodesOf(top)
BY DEF InnersOf, LeavesOf

LEMMA BelowIsNode ==
  ASSUME NEW top \in Node
  PROVE  NodesOf(top) \subseteq Node
BY DEF NodesOf, Node

LEMMA VectorsAreNodes ==
  ASSUME NEW top \in Node, NEW inner, NEW child, Vectors(top, inner, child)
  PROVE  inner \in Seq(Node) /\ child \in Seq(Node)
<1>1. InnersOf(top) \subseteq Node /\ LeavesOf(top) \subseteq Node
  BY BelowAreNodes, BelowIsNode
<1> QED
  BY <1>1, SeqMonotonic DEF Vectors

LEMMA AppendKeys ==
  ASSUME NEW S, NEW s \in Seq(S), NEW h \in S, Disjoint(s), h \cap KeysIn(s) = {}
  PROVE  /\ Append(s, h) \in Seq(S)
         /\ Len(Append(s, h)) = Len(s) + 1
         /\ Disjoint(Append(s, h))
         /\ KeysIn(Append(s, h)) = KeysIn(s) \cup h
<1> DEFINE t == Append(s, h)
<1>1. /\ t \in Seq(S) /\ Len(t) = Len(s) + 1 /\ Len(s) \in Nat
      /\ t[Len(s) + 1] = h
      /\ \A i \in 1 .. Len(s) : t[i] = s[i]
  OBVIOUS
<1> HIDE DEF t
<1>2. \A i \in 1 .. Len(s) : s[i] \cap h = {}
  BY DEF KeysIn
<1>3. Disjoint(t)
  BY <1>1, <1>2 DEF Disjoint
<1>4. KeysIn(t) = KeysIn(s) \cup h
  <2>1. KeysIn(t) \subseteq KeysIn(s) \cup h
    BY <1>1 DEF KeysIn
  <2>2. KeysIn(s) \subseteq KeysIn(t)
    BY <1>1 DEF KeysIn
  <2>3. h \subseteq KeysIn(t)
    BY <1>1 DEF KeysIn
  <2> QED
    BY <2>1, <2>2, <2>3
<1> QED
  BY <1>1, <1>3, <1>4 DEF t

LEMMA PopKeys ==
  ASSUME NEW S, NEW s \in Seq(S), s # <<>>, Disjoint(s)
  PROVE  /\ Front(s) \in Seq(S) /\ Last(s) \in S
         /\ Len(Front(s)) = Len(s) - 1
         /\ Disjoint(Front(s))
         /\ Last(s) \cap KeysIn(Front(s)) = {}
         /\ KeysIn(s) = KeysIn(Front(s)) \cup Last(s)
<1> DEFINE t == Front(s)
           n == Len(s)
<1>1. n \in Nat \ {0} /\ Last(s) = s[n]
  BY DEF Last
<1>2. /\ t \in Seq(S) /\ Len(t) = n - 1
      /\ \A i \in 1 .. n - 1 : t[i] = s[i]
  <2>1. \A i \in 1 .. n - 1 : s[i] \in S
    BY <1>1
  <2>2. t = SubSeq(s, 1, n - 1)
    BY DEF Front
  <2>3. n - 1 \in Int /\ 1 \in Int
    BY <1>1
  <2>4. /\ t \in Seq(S) /\ Len(t) = IF 1 <= n - 1 THEN (n - 1) - 1 + 1 ELSE 0
        /\ \A i \in 1 .. (n - 1) - 1 + 1 : t[i] = s[1 + i - 1]
    BY <2>1, <2>2, <2>3, SubSeqProperties
  <2> HIDE DEF t, n
  <2>5. \A i \in 1 .. n - 1 : i \in 1 .. (n - 1) - 1 + 1 /\ 1 + i - 1 = i
    BY <1>1
  <2>6. Len(t) = n - 1
    BY <1>1, <2>4
  <2> QED
    BY <2>4, <2>5, <2>6
<1> HIDE DEF t, n
<1>3. s[n] \in S
  BY <1>1 DEF n
<1>4. Disjoint(t)
  BY <1>1, <1>2 DEF Disjoint, n
<1>5. \A i \in 1 .. n - 1 : s[n] \cap s[i] = {}
  BY <1>1 DEF Disjoint, n
<1>6. s[n] \cap KeysIn(t) = {}
  BY <1>2, <1>5 DEF KeysIn
<1>7. KeysIn(s) = KeysIn(t) \cup s[n]
  <2>1. \A i \in 1 .. n : i = n \/ i \in 1 .. n - 1
    BY <1>1
  <2>2. KeysIn(s) \subseteq KeysIn(t) \cup s[n]
    BY <2>1, <1>2 DEF KeysIn, n
  <2>3. KeysIn(t) \subseteq KeysIn(s)
    BY <1>1, <1>2 DEF KeysIn, n
  <2>4. s[n] \subseteq KeysIn(s)
    BY <1>1 DEF KeysIn, n
  <2> QED
    BY <2>2, <2>3, <2>4
<1> QED
  BY <1>1, <1>2, <1>3, <1>4, <1>6, <1>7 DEF t, n

LEMMA PutInner ==
  ASSUME NEW top \in Node, NEW inner, NEW child, Vectors(top, inner, child),
         NEW h \in InnersOf(top), h \cap Held(inner, child) = {}
  PROVE  /\ Vectors(top, Append(inner, h), child)
         /\ Held(Append(inner, h), child) = Held(inner, child) \cup h
         /\ Len(Append(inner, h)) = Len(inner) + 1
<1>1. h \cap KeysIn(inner) = {} /\ h \cap KeysIn(child) = {}
  BY DEF Held
<1>2. /\ Append(inner, h) \in Seq(InnersOf(top))
      /\ Len(Append(inner, h)) = Len(inner) + 1
      /\ Disjoint(Append(inner, h))
      /\ KeysIn(Append(inner, h)) = KeysIn(inner) \cup h
  BY <1>1, AppendKeys DEF Vectors
<1> QED
  BY <1>1, <1>2 DEF Vectors, Held

LEMMA PutLeaf ==
  ASSUME NEW top \in Node, NEW inner, NEW child, Vectors(top, inner, child),
         NEW h \in LeavesOf(top), h \cap Held(inner, child) = {}
  PROVE  /\ Vectors(top, inner, Append(child, h))
         /\ Held(inner, Append(child, h)) = Held(inner, child) \cup h
         /\ Len(Append(child, h)) = Len(child) + 1
<1>1. h \cap KeysIn(inner) = {} /\ h \cap KeysIn(child) = {}
  BY DEF Held
<1>2. /\ Append(child, h) \in Seq(LeavesOf(top))
      /\ Len(Append(child, h)) = Len(child) + 1
      /\ Disjoint(Append(child, h))
      /\ KeysIn(Append(child, h)) = KeysIn(child) \cup h
  BY <1>1, AppendKeys DEF Vectors
<1> QED
  BY <1>1, <1>2 DEF Vectors, Held

LEMMA PopInner ==
  ASSUME NEW top \in Node, NEW inner, NEW child, Vectors(top, inner, child), inner # <<>>
  PROVE  /\ Vectors(top, Front(inner), child)
         /\ Last(inner) \in InnersOf(top)
         /\ Last(inner) \cap Held(Front(inner), child) = {}
         /\ Held(inner, child) = Held(Front(inner), child) \cup Last(inner)
         /\ Len(Front(inner)) = Len(inner) - 1
<1>1. /\ Front(inner) \in Seq(InnersOf(top)) /\ Last(inner) \in InnersOf(top)
      /\ Len(Front(inner)) = Len(inner) - 1
      /\ Disjoint(Front(inner))
      /\ Last(inner) \cap KeysIn(Front(inner)) = {}
      /\ KeysIn(inner) = KeysIn(Front(inner)) \cup Last(inner)
  BY PopKeys DEF Vectors
<1> QED
  BY <1>1 DEF Vectors, Held

-----------------------------------------------------------------------------
(* The loop.                                                               *)

(* What a call for n entries below h returns: at most n entries, which     *)
(* bring in the keys of h, and fewer only if there is nothing left to cut. *)
Cuts(top, n, h, inner, child, r) ==
  /\ r.sum \in 1 .. n
  /\ Vectors(top, r.inner, r.child)
  /\ Held(r.inner, r.child) = Held(inner, child) \cup h
  /\ Len(r.inner) + Len(r.child) = Len(inner) + Len(child) + r.sum
  /\ HasChildren(h) /\ n >= 2 => r.sum >= 2
  /\ HasChildren(h) \/ inner = <<>> => r.sum = n \/ r.inner = <<>>

CutsAll(top, n, f) ==
  \A h \in NodesOf(top) : \A inner, child :
    Vectors(top, inner, child) /\ h \cap Held(inner, child) = {} =>
      Cuts(top, n, h, inner, child, f[<<h, inner, child>>])

(* The loop's invariant; base is what the vectors held before the call. *)
Filling(top, n, held, base, found) ==
  /\ found.sum \in 2 .. n
  /\ Vectors(top, found.inner, found.child)
  /\ Held(found.inner, found.child) = held
  /\ Len(found.inner) + Len(found.child) = base + found.sum

Stopped(n, found) == found.sum = n \/ found.inner = <<>>

LEMMA RefillOnceFills ==
  ASSUME NEW top \in Node, NEW n \in Nat, NEW held, NEW base \in Nat, NEW found,
         Filling(top, n, held, base, found),
         NEW cut, \A m \in 1 .. n - 1 : CutsAll(top, m, cut[m])
  PROVE  /\ Filling(top, n, held, base, RefillOnce(cut, n, found))
         /\ Stopped(n, found) => RefillOnce(cut, n, found) = found
         /\ ~Stopped(n, found) => RefillOnce(cut, n, found).sum > found.sum
<1>1. found.sum \in 2 .. n
  BY DEF Filling
<1>2. CASE Stopped(n, found)
  <2>1. ~(found.sum < n /\ found.inner # <<>>)
    BY <1>1, <1>2 DEF Stopped
  <2>2. RefillOnce(cut, n, found) = found
    BY <2>1 DEF RefillOnce
  <2> QED
    BY <1>2, <2>2
<1>3. CASE ~Stopped(n, found)
  <2> DEFINE m == n - (found.sum - 1)
             h == Last(found.inner)
             inner == Front(found.inner)
             child == found.child
             more == cut[m][<<h, inner, child>>]
  <2>1. found.sum < n /\ found.inner # <<>>
    BY <1>1, <1>3 DEF Stopped
  <2>2. m \in 1 .. n - 1 /\ m >= 2 /\ m = n - found.sum + 1
    BY <1>1, <2>1
  <2>3. /\ Vectors(top, inner, child)
        /\ h \in InnersOf(top)
        /\ h \cap Held(inner, child) = {}
        /\ Held(found.inner, child) = Held(inner, child) \cup h
        /\ Len(inner) = Len(found.inner) - 1
    BY <2>1, PopInner DEF Filling
  <2>4. h \in NodesOf(top) /\ HasChildren(h)
    BY <2>3 DEF InnersOf
  <2> HIDE DEF m, h, inner
  <2>5. Cuts(top, m, h, inner, child, more)
    BY <2>2, <2>3, <2>4 DEF CutsAll
  <2>6. RefillOnce(cut, n, found) = Found((found.sum - 1) + more.sum, more.inner, more.child)
    BY <2>1 DEF RefillOnce, m, h, inner
  <2> HIDE DEF more
  <2> DEFINE next == RefillOnce(cut, n, found)
  <2>7. /\ next.sum = (found.sum - 1) + more.sum
        /\ next.inner = more.inner /\ next.child = more.child
    BY <2>6 DEF Found
  <2> HIDE DEF next
  <2>8. more.sum \in 2 .. m
    BY <2>2, <2>4, <2>5 DEF Cuts
  <2>9. next.sum \in 2 .. n /\ next.sum > found.sum
    BY <1>1, <2>2, <2>7, <2>8
  <2>10. Vectors(top, next.inner, next.child)
    BY <2>5, <2>7 DEF Cuts
  <2>11. Held(next.inner, next.child) = held
    BY <2>3, <2>5, <2>7 DEF Cuts, Filling
  <2>12. Len(found.inner) \in Nat /\ Len(child) \in Nat
    BY DEF Filling, Vectors
  <2>13. Len(next.inner) + Len(next.child) = base + next.sum
    <3>1. Len(next.inner) + Len(next.child) = Len(inner) + Len(child) + more.sum
      BY <2>5, <2>7 DEF Cuts
    <3>2. Len(found.inner) + Len(child) = base + found.sum
      BY DEF Filling
    <3>3. ASSUME NEW a \in Nat, NEW b \in Nat, NEW s \in Int, NEW t \in Int, a + b = base + s
          PROVE  (a - 1) + b + t = base + ((s - 1) + t)
      BY <3>3
    <3>4. more.sum \in Int /\ found.sum \in Int
      BY <1>1, <2>2, <2>8
    <3> DEFINE a == Len(found.inner)
               b == Len(child)
    <3>5. a \in Nat /\ b \in Nat /\ a + b = base + found.sum
      BY <2>12, <3>2
    <3> HIDE DEF a, b
    <3>6. (a - 1) + b + more.sum = base + ((found.sum - 1) + more.sum)
      BY <3>3, <3>4, <3>5
    <3>7. Len(inner) = a - 1
      BY <2>3 DEF a
    <3> QED
      BY <2>7, <3>1, <3>6, <3>7 DEF b
  <2> QED
    BY <1>3, <2>9, <2>10, <2>11, <2>13 DEF Filling, next
<1> QED
  BY <1>2, <1>3

(* The loop is a run of its rounds. *)
LEMMA RefillRuns ==
  ASSUME NEW cut, NEW n \in Nat, NEW found
  PROVE  \E after :
           /\ after[0] = found
           /\ \A i \in 1 .. n : after[i] = RefillOnce(cut, n, after[i - 1])
           /\ Refill(cut, n, found) = after[n]
<1> DEFINE Run(f, j) ==
             f = [i \in 0 .. j |-> IF i = 0 THEN found ELSE RefillOnce(cut, n, f[i - 1])]
           S == {j \in Nat : \E f : Run(f, j)}
<1>1. ASSUME NEW j \in Nat, \A m \in Nat : m < j => m \in S
      PROVE  j \in S
  <2>1. CASE j = 0
    <3> DEFINE f == [i \in 0 .. 0 |-> found]
    <3>1. \A i \in 0 .. 0 : f[i] = IF i = 0 THEN found ELSE RefillOnce(cut, n, f[i - 1])
      OBVIOUS
    <3>2. Run(f, 0)
      BY <3>1
    <3> QED
      BY <2>1, <3>2
  <2>2. CASE j # 0
    <3>1. j - 1 \in Nat /\ j - 1 < j
      BY <2>2
    <3>2. j - 1 \in S
      BY <1>1, <3>1
    <3>3. PICK f : Run(f, j - 1)
      BY <3>2
    <3> DEFINE g == [i \in 0 .. j |-> IF i = j THEN RefillOnce(cut, n, f[j - 1]) ELSE f[i]]
    <3>4. \A i \in 0 .. j - 1 : g[i] = f[i]
      BY <3>1
    <3>5. \A i \in 0 .. j :
             g[i] = IF i = 0 THEN found ELSE RefillOnce(cut, n, g[i - 1])
      <4>1. CASE j = 0
        BY <2>2, <4>1
      <4> SUFFICES ASSUME NEW i \in 0 .. j
                   PROVE  g[i] = IF i = 0 THEN found ELSE RefillOnce(cut, n, g[i - 1])
        OBVIOUS
      <4>2. CASE i = j
        BY <2>2, <3>1, <3>4, <4>2
      <4>3. CASE i # j
        <5>1. i \in 0 .. j - 1
          BY <4>3, <3>1
        <5>2. f[i] = IF i = 0 THEN found ELSE RefillOnce(cut, n, f[i - 1])
          BY <3>3, <5>1
        <5>3. i # 0 => i - 1 \in 0 .. j - 1
          BY <5>1
        <5> QED
          BY <3>4, <5>1, <5>2, <5>3
      <4> QED
        BY <4>2, <4>3
    <3>6. Run(g, j)
      BY <3>5
    <3> QED
      BY <3>6
  <2> QED
    BY <2>1, <2>2
<1> HIDE DEF S
<1>2. n \in S
  BY <1>1, CourseOfValues
<1>3. \E f : Run(f, n)
  BY <1>2 DEF S
<1>4. Refill(cut, n, found) = (CHOOSE f : Run(f, n))[n]
  BY DEF Refill
<1> HIDE DEF Run
<1> DEFINE after == CHOOSE f : Run(f, n)
<1>5. Run(after, n)
  BY <1>3
<1> HIDE DEF after
<1>6. \A i \in 0 .. n : after[i] = IF i = 0 THEN found ELSE RefillOnce(cut, n, after[i - 1])
  BY <1>5 DEF Run
<1>7. after[0] = found
  BY <1>6
<1>8. \A i \in 1 .. n : after[i] = RefillOnce(cut, n, after[i - 1])
  BY <1>6
<1> QED
  BY <1>4, <1>7, <1>8 DEF after

LEMMA RefillFills ==
  ASSUME NEW top \in Node, NEW n \in Nat, NEW held, NEW base \in Nat, NEW found,
         Filling(top, n, held, base, found),
         NEW cut, \A m \in 1 .. n - 1 : CutsAll(top, m, cut[m])
  PROVE  /\ Filling(top, n, held, base, Refill(cut, n, found))
         /\ Stopped(n, Refill(cut, n, found))
<1>1. PICK after : /\ after[0] = found
                   /\ \A i \in 1 .. n : after[i] = RefillOnce(cut, n, after[i - 1])
                   /\ Refill(cut, n, found) = after[n]
  BY RefillRuns
<1> DEFINE P(i) == /\ Filling(top, n, held, base, after[i])
                   /\ Stopped(n, after[i]) \/ after[i].sum >= i + 2
           S == {i \in Nat : i <= n => P(i)}
<1>2. ASSUME NEW i \in Nat, \A m \in Nat : m < i => m \in S
      PROVE  i \in S
  <2>1. CASE i = 0
    <3>1. after[i] = found
      BY <1>1, <2>1
    <3>2. found.sum >= i + 2
      BY <2>1 DEF Filling
    <3> QED
      BY <3>1, <3>2
  <2>2. CASE i # 0 /\ i <= n
    <3>1. i - 1 \in Nat /\ i - 1 < i /\ i - 1 <= n /\ i \in 1 .. n
      BY <2>2
    <3>2. P(i - 1)
      BY <1>2, <3>1
    <3>3. after[i] = RefillOnce(cut, n, after[i - 1])
      BY <1>1, <3>1
    <3>4. /\ Filling(top, n, held, base, after[i])
          /\ Stopped(n, after[i - 1]) => after[i] = after[i - 1]
          /\ ~Stopped(n, after[i - 1]) => after[i].sum > after[i - 1].sum
      BY <3>2, <3>3, RefillOnceFills
    <3>5. after[i].sum \in Int /\ after[i - 1].sum \in Int
      BY <3>2, <3>4 DEF Filling
    <3>6. Stopped(n, after[i]) \/ after[i].sum >= i + 2
      BY <3>1, <3>2, <3>4, <3>5
    <3> QED
      BY <3>4, <3>6
  <2>3. CASE ~(i <= n)
    BY <2>3
  <2> QED
    BY <2>1, <2>2, <2>3
<1> HIDE DEF S
<1>3. n \in S
  BY <1>2, CourseOfValues
<1>4. P(n)
  BY <1>3 DEF S
<1>5. after[n].sum \in 2 .. n
  BY <1>4 DEF Filling
<1> QED
  BY <1>1, <1>4, <1>5

-----------------------------------------------------------------------------
(* The recursion.                                                          *)

LEMMA CollectCuts ==
  ASSUME NEW top \in Node, NEW n \in Nat \ {0},
         NEW cut, \A m \in 1 .. n - 1 : CutsAll(top, m, cut[m]),
         NEW h \in NodesOf(top), NEW inner, NEW child,
         Vectors(top, inner, child), h \cap Held(inner, child) = {}
  PROVE  Cuts(top, n, h, inner, child, Collect(cut, n, h, inner, child))
<1> DEFINE r == Collect(cut, n, h, inner, child)
<1>1. Len(inner) \in Nat /\ Len(child) \in Nat
  BY DEF Vectors
<1>2. CASE HasChildren(h) /\ n >= 2
  <2> DEFINE half == n \div 2
             small == SmallerChild(h)
             large == LargerChild(h)
             smaller == cut[half][<<small, inner, child>>]
             rest == n - smaller.sum
             larger == cut[rest][<<large, smaller.inner, smaller.child>>]
             start == Found(smaller.sum + larger.sum, larger.inner, larger.child)
  <2>1. half \in 1 .. n - 1
    BY <1>2
  <2>2. h \in Node
    BY BelowIsNode
  <2>3. /\ small \in NodesOf(top) /\ large \in NodesOf(top)
        /\ small \cap large = {} /\ small \cup large = h
    BY <1>2, <2>2, ChildrenBelow, ChildrenSplit
  <2>4. r = Refill(cut, n, start)
    BY <1>2 DEF Collect
  <2> HIDE DEF half, small, large, r
  <2>5. Cuts(top, half, small, inner, child, smaller)
    BY <2>1, <2>3 DEF CutsAll
  <2> HIDE DEF smaller
  <2>6. smaller.sum \in 1 .. n - 1 /\ rest \in 1 .. n - 1 /\ rest = n - smaller.sum
    BY <2>1, <2>5 DEF Cuts
  <2> HIDE DEF rest
  <2>7. Vectors(top, smaller.inner, smaller.child)
    BY <2>5 DEF Cuts
  <2>8. large \cap Held(smaller.inner, smaller.child) = {}
    BY <2>3, <2>5 DEF Cuts
  <2>9. Cuts(top, rest, large, smaller.inner, smaller.child, larger)
    BY <2>3, <2>6, <2>7, <2>8 DEF CutsAll
  <2> HIDE DEF larger
  <2>10. /\ start.sum = smaller.sum + larger.sum
         /\ start.inner = larger.inner /\ start.child = larger.child
    BY DEF Found
  <2> HIDE DEF start
  <2> DEFINE held == Held(inner, child) \cup h
             base == Len(inner) + Len(child)
  <2>11. larger.sum \in 1 .. rest
    BY <2>9 DEF Cuts
  <2>12. start.sum \in 2 .. n
    BY <2>6, <2>10, <2>11
  <2>13. Held(start.inner, start.child) = held
    BY <2>3, <2>5, <2>9, <2>10 DEF Cuts
  <2>14. Len(start.inner) + Len(start.child) = base + start.sum
    <3>1. Len(smaller.inner) + Len(smaller.child) = base + smaller.sum
      BY <2>5 DEF Cuts
    <3>2. Len(larger.inner) + Len(larger.child)
            = Len(smaller.inner) + Len(smaller.child) + larger.sum
      BY <2>9 DEF Cuts
    <3>3. base \in Nat /\ smaller.sum \in Int /\ larger.sum \in Int
      BY <1>1, <2>6, <2>11
    <3> HIDE DEF base
    <3>4. (base + smaller.sum) + larger.sum = base + (smaller.sum + larger.sum)
      BY <3>3
    <3> QED
      BY <2>10, <3>1, <3>2, <3>4
  <2>15. Vectors(top, start.inner, start.child)
    BY <2>9, <2>10 DEF Cuts
  <2>16. Filling(top, n, held, base, start)
    BY <2>12, <2>13, <2>14, <2>15 DEF Filling
  <2>17. base \in Nat
    BY <1>1
  <2>18. Filling(top, n, held, base, r) /\ Stopped(n, r)
    <3> HIDE DEF held, base
    <3> QED
      BY <2>4, <2>16, <2>17, RefillFills
  <2>19. r.sum \in 2 .. n
    BY <2>18 DEF Filling
  <2>20. r.sum \in 1 .. n /\ r.sum >= 2
    BY <2>19
  <2>21. /\ Vectors(top, r.inner, r.child)
         /\ Held(r.inner, r.child) = held
         /\ Len(r.inner) + Len(r.child) = base + r.sum
         /\ r.sum = n \/ r.inner = <<>>
    BY <2>18 DEF Filling, Stopped
  <2>22. Cuts(top, n, h, inner, child, r)
    BY <2>20, <2>21 DEF Cuts
  <2> QED
    BY <2>22 DEF r
<1>3. CASE HasChildren(h) /\ ~(n >= 2)
  <2>1. r = Found(1, Append(inner, h), child) /\ n = 1
    BY <1>3 DEF Collect
  <2> HIDE DEF r
  <2>2. r.sum = 1 /\ r.inner = Append(inner, h) /\ r.child = child
    BY <2>1 DEF Found
  <2>3. h \in InnersOf(top)
    BY <1>3 DEF InnersOf
  <2>4. /\ Vectors(top, r.inner, r.child)
        /\ Held(r.inner, r.child) = Held(inner, child) \cup h
        /\ Len(r.inner) = Len(inner) + 1
    BY <2>2, <2>3, PutInner
  <2>5. Len(r.inner) + Len(r.child) = Len(inner) + Len(child) + r.sum
    BY <1>1, <2>2, <2>4
  <2>6. r.sum \in 1 .. n /\ r.sum = n
    BY <2>1, <2>2
  <2>7. Cuts(top, n, h, inner, child, r)
    BY <1>3, <2>4, <2>5, <2>6 DEF Cuts
  <2> QED
    BY <2>7 DEF r
<1>4. CASE ~HasChildren(h)
  <2>1. r = Found(1, inner, Append(child, h))
    BY <1>4 DEF Collect
  <2> HIDE DEF r
  <2>2. r.sum = 1 /\ r.inner = inner /\ r.child = Append(child, h)
    BY <2>1 DEF Found
  <2>3. h \in LeavesOf(top)
    BY <1>4 DEF LeavesOf
  <2>4. /\ Vectors(top, r.inner, r.child)
        /\ Held(r.inner, r.child) = Held(inner, child) \cup h
        /\ Len(r.child) = Len(child) + 1
    BY <2>2, <2>3, PutLeaf
  <2>5. Len(r.inner) + Len(r.child) = Len(inner) + Len(child) + r.sum
    BY <1>1, <2>2, <2>4
  <2> QED
    BY <1>4, <2>2, <2>4, <2>5 DEF Cuts, r
<1> QED
  BY <1>2, <1>3, <1>4

(* The calls for n entries, by those for fewer. *)
CallsFor(f, n) ==
  [call \in Calls |-> Collect([m \in 1 .. n - 1 |-> f[m]], n, call[1], call[2], call[3])]

LEMMA CutsRun ==
  ASSUME NEW number \in Nat
  PROVE  \A n \in 1 .. number :
           CutsUpTo(number)[n] = CallsFor(CutsUpTo(number), n)
<1> DEFINE Run(f, j) == f = [n \in 1 .. j |-> CallsFor(f, n)]
           S == {j \in Nat : \E f : Run(f, j)}
<1>1. ASSUME NEW j \in Nat, \A m \in Nat : m < j => m \in S
      PROVE  j \in S
  <2>1. CASE j = 0
    <3> DEFINE f == [n \in 1 .. 0 |-> 0]
    <3>1. f = [n \in 1 .. 0 |-> CallsFor(f, n)]
      <4> DEFINE g == [n \in 1 .. 0 |-> CallsFor(f, n)]
      <4>1. \A n \in 1 .. 0 : f[n] = g[n]
        OBVIOUS
      <4> QED
        BY <4>1
    <3> QED
      BY <2>1, <3>1
  <2>2. CASE j # 0
    <3>1. j - 1 \in Nat /\ j - 1 < j
      BY <2>2
    <3>2. j - 1 \in S
      BY <1>1, <3>1
    <3>3. PICK f : Run(f, j - 1)
      BY <3>2
    <3> DEFINE g == [n \in 1 .. j |-> IF n = j THEN CallsFor(f, j) ELSE f[n]]
    <3>4. \A n \in 1 .. j - 1 : g[n] = f[n]
      BY <3>1
    <3>5. \A n \in 1 .. j : CallsFor(g, n) = CallsFor(f, n)
      <4> SUFFICES ASSUME NEW n \in 1 .. j PROVE CallsFor(g, n) = CallsFor(f, n)
        OBVIOUS
      <4>1. \A m \in 1 .. n - 1 : g[m] = f[m]
        BY <3>1, <3>4
      <4> HIDE DEF g
      <4>2. [m \in 1 .. n - 1 |-> g[m]] = [m \in 1 .. n - 1 |-> f[m]]
        BY <4>1
      <4> QED
        BY <4>2 DEF CallsFor
    <3>6. \A n \in 1 .. j : g[n] = CallsFor(g, n)
      <4> SUFFICES ASSUME NEW n \in 1 .. j PROVE g[n] = CallsFor(f, n)
        BY <3>5
      <4>1. CASE n = j
        BY <4>1
      <4>2. CASE n # j
        <5>1. n \in 1 .. j - 1
          BY <3>1, <4>2
        <5>2. f[n] = CallsFor(f, n)
          BY <3>3, <5>1
        <5> QED
          BY <3>4, <5>1, <5>2
      <4> QED
        BY <4>1, <4>2
    <3>7. Run(g, j)
      <4>1. g = [n \in 1 .. j |-> g[n]]
        OBVIOUS
      <4> HIDE DEF g
      <4> QED
        BY <3>6, <4>1
    <3> QED
      BY <3>7
  <2> QED
    BY <2>1, <2>2
<1> HIDE DEF S
<1>2. number \in S
  BY <1>1, CourseOfValues
<1>3. \E f : Run(f, number)
  BY <1>2 DEF S
<1>4. CutsUpTo(number) = CHOOSE f : Run(f, number)
  BY DEF CutsUpTo, CallsFor
<1> HIDE DEF Run
<1> DEFINE cut == CutsUpTo(number)
<1>5. Run(cut, number)
  BY <1>3, <1>4
<1> HIDE DEF cut
<1>6. \A n \in 1 .. number : cut[n] = CallsFor(cut, n)
  BY <1>5 DEF Run
<1> QED
  BY <1>6 DEF cut

LEMMA CutsUpToCut ==
  ASSUME NEW top \in Node, NEW number \in Nat
  PROVE  \A n \in 1 .. number : CutsAll(top, n, CutsUpTo(number)[n])
<1> DEFINE cut == CutsUpTo(number)
           S == {n \in Nat : n \in 1 .. number => CutsAll(top, n, cut[n])}
<1>1. ASSUME NEW n \in Nat, \A m \in Nat : m < n => m \in S
      PROVE  n \in S
  <2> SUFFICES ASSUME n \in 1 .. number PROVE CutsAll(top, n, cut[n])
    OBVIOUS
  <2> DEFINE below == [m \in 1 .. n - 1 |-> cut[m]]
  <2>1. \A m \in 1 .. n - 1 : CutsAll(top, m, below[m])
    BY <1>1
  <2>2. cut[n] = CallsFor(cut, n)
    BY CutsRun
  <2> HIDE DEF cut
  <2> SUFFICES ASSUME NEW h \in NodesOf(top), NEW inner, NEW child,
                      Vectors(top, inner, child), h \cap Held(inner, child) = {}
               PROVE  Cuts(top, n, h, inner, child, cut[n][<<h, inner, child>>])
    BY DEF CutsAll
  <2>3. <<h, inner, child>> \in Calls
    BY BelowIsNode, VectorsAreNodes DEF Calls
  <2>4. cut[n][<<h, inner, child>>] = Collect(below, n, h, inner, child)
    BY <2>2, <2>3 DEF CallsFor
  <2> HIDE DEF below
  <2> QED
    BY <2>1, <2>4, CollectCuts
<1> HIDE DEF S
<1>2. Nat \subseteq S
  BY <1>1, CourseOfValues
<1> QED
  BY <1>2 DEF S

(* The first call. *)
LEMMA CuttingCuts ==
  ASSUME NEW h \in Node, NEW n \in Nat \ {0}
  PROVE  Cuts(h, n, h, <<>>, <<>>, Cutting(h, n))
<1>1. Len(<<>>) = 0 /\ \A S : <<>> \in Seq(S)
  OBVIOUS
<1>2. KeysIn(<<>>) = {} /\ Disjoint(<<>>)
  BY <1>1 DEF KeysIn, Disjoint
<1>3. Vectors(h, <<>>, <<>>) /\ Held(<<>>, <<>>) = {}
  BY <1>1, <1>2 DEF Vectors, Held
<1>4. CutsAll(h, n, CutsUpTo(n)[n])
  BY CutsUpToCut
<1>5. h \in NodesOf(h)
  BY TopBelowItself
<1> QED
  BY <1>3, <1>4, <1>5 DEF CutsAll, Cutting

-----------------------------------------------------------------------------
(* The buffer.                                                             *)

LEMMA ReverseKeys ==
  ASSUME NEW S, NEW s \in Seq(S), Disjoint(s)
  PROVE  /\ Reverse(s) \in Seq(S)
         /\ Len(Reverse(s)) = Len(s)
         /\ Disjoint(Reverse(s))
         /\ KeysIn(Reverse(s)) = KeysIn(s)
<1> DEFINE t == Reverse(s)
           n == Len(s)
<1>1. n \in Nat
  OBVIOUS
<1>2. t = [i \in 1 .. n |-> s[(n - i) + 1]]
  BY DEF Reverse
<1> HIDE DEF n, t
<1>3. \A i \in 1 .. n : (n - i) + 1 \in 1 .. n /\ t[i] = s[(n - i) + 1]
  BY <1>1, <1>2
<1>4. \A i \in 1 .. n : s[i] \in S
  BY DEF n
<1>5. t \in Seq(S) /\ Len(t) = n
  BY <1>1, <1>2, <1>3, <1>4
<1>6. \A i, j \in 1 .. n : i # j => (n - i) + 1 # (n - j) + 1
  BY <1>1
<1>7. Disjoint(t)
  <2>1. \A i, j \in 1 .. n : i # j => s[i] \cap s[j] = {}
    BY DEF Disjoint, n
  <2>2. \A i, j \in 1 .. n : i # j => t[i] \cap t[j] = {}
    <3> SUFFICES ASSUME NEW i \in 1 .. n, NEW j \in 1 .. n, i # j
                 PROVE  t[i] \cap t[j] = {}
      OBVIOUS
    <3> DEFINE x == (n - i) + 1
               y == (n - j) + 1
    <3>1. x \in 1 .. n /\ y \in 1 .. n /\ x # y /\ t[i] = s[x] /\ t[j] = s[y]
      BY <1>3, <1>6
    <3> HIDE DEF x, y
    <3> QED
      BY <2>1, <3>1
  <2> QED
    BY <1>5, <2>2 DEF Disjoint
<1>8. \A i \in 1 .. n : s[i] = t[(n - i) + 1]
  <2> SUFFICES ASSUME NEW i \in 1 .. n PROVE s[i] = t[(n - i) + 1]
    OBVIOUS
  <2>1. (n - ((n - i) + 1)) + 1 = i
    BY <1>1
  <2> QED
    BY <1>3, <2>1
<1>9. KeysIn(t) = KeysIn(s)
  <2>1. KeysIn(t) \subseteq KeysIn(s)
    BY <1>3, <1>5 DEF KeysIn, n
  <2>2. KeysIn(s) \subseteq KeysIn(t)
    BY <1>3, <1>5, <1>8 DEF KeysIn, n
  <2> QED
    BY <2>1, <2>2
<1> QED
  BY <1>5, <1>7, <1>9 DEF t, n

LEMMA JoinKeys ==
  ASSUME NEW S, NEW s \in Seq(S), NEW t \in Seq(S), Disjoint(s), Disjoint(t),
         KeysIn(s) \cap KeysIn(t) = {}
  PROVE  /\ s \o t \in Seq(S)
         /\ Len(s \o t) = Len(s) + Len(t)
         /\ Disjoint(s \o t)
         /\ KeysIn(s \o t) = KeysIn(s) \cup KeysIn(t)
<1> DEFINE u == s \o t
           m == Len(s)
           n == Len(t)
<1>1. m \in Nat /\ n \in Nat
  OBVIOUS
<1>2. /\ u \in Seq(S) /\ Len(u) = m + n
      /\ \A i \in 1 .. m + n : u[i] = IF i <= m THEN s[i] ELSE t[i - m]
  BY ConcatProperties
<1> HIDE DEF u, m, n
<1>3. \A i \in 1 .. m : s[i] = u[i] /\ i \in 1 .. m + n
  BY <1>1, <1>2
<1>4. \A i \in 1 .. n : t[i] = u[i + m] /\ i + m \in 1 .. m + n
  <2> SUFFICES ASSUME NEW i \in 1 .. n PROVE t[i] = u[i + m] /\ i + m \in 1 .. m + n
    OBVIOUS
  <2>1. i + m \in 1 .. m + n /\ ~(i + m <= m) /\ (i + m) - m = i
    BY <1>1
  <2> QED
    BY <1>2, <2>1
<1>5. \A i \in 1 .. m + n : \/ i \in 1 .. m /\ u[i] = s[i]
                            \/ i - m \in 1 .. n /\ u[i] = t[i - m]
  BY <1>1, <1>2
<1>6. \A i \in 1 .. m : s[i] \subseteq KeysIn(s)
  BY DEF KeysIn, m
<1>7. \A i \in 1 .. n : t[i] \subseteq KeysIn(t)
  BY DEF KeysIn, n
<1>8. Disjoint(u)
  <2> SUFFICES ASSUME NEW i \in 1 .. m + n, NEW j \in 1 .. m + n, i # j
               PROVE  u[i] \cap u[j] = {}
    BY <1>2 DEF Disjoint
  <2>1. CASE i \in 1 .. m /\ j \in 1 .. m
    BY <1>3, <2>1 DEF Disjoint, m
  <2>2. CASE i - m \in 1 .. n /\ j - m \in 1 .. n
    <3>1. i - m # j - m
      BY <1>1
    <3>2. t[i - m] \cap t[j - m] = {}
      BY <2>2, <3>1 DEF Disjoint, n
    <3>3. (i - m) + m = i /\ (j - m) + m = j
      BY <1>1
    <3> QED
      BY <1>4, <2>2, <3>2, <3>3
  <2>3. CASE /\ i \in 1 .. m /\ u[i] = s[i]
             /\ j - m \in 1 .. n /\ u[j] = t[j - m]
    BY <1>6, <1>7, <2>3
  <2>4. CASE /\ j \in 1 .. m /\ u[j] = s[j]
             /\ i - m \in 1 .. n /\ u[i] = t[i - m]
    BY <1>6, <1>7, <2>4
  <2> QED
    BY <1>5, <2>1, <2>2, <2>3, <2>4
<1>9. KeysIn(u) = KeysIn(s) \cup KeysIn(t)
  <2>1. KeysIn(u) \subseteq KeysIn(s) \cup KeysIn(t)
    BY <1>2, <1>5, <1>6, <1>7 DEF KeysIn
  <2>2. KeysIn(s) \subseteq KeysIn(u)
    BY <1>2, <1>3 DEF KeysIn, m
  <2>3. KeysIn(t) \subseteq KeysIn(u)
    BY <1>2, <1>4 DEF KeysIn, n
  <2> QED
    BY <2>1, <2>2, <2>3
<1> QED
  BY <1>2, <1>8, <1>9 DEF u, m, n

(* What the buffer holds after a call for n hashes: nodes that share out   *)
(* the keys of h, as many as there is room for.                            *)
LEMMA CutWritten ==
  ASSUME NEW h \in Node, NEW n \in Nat \ {0}
  PROVE  LET w == Written(Cutting(h, n))
             sum == Cutting(h, n).sum
         IN  /\ w \in Seq(NodesOf(h))
             /\ Len(w) = sum
             /\ Disjoint(w)
             /\ KeysIn(w) = h
             /\ sum \in 1 .. n
             /\ sum = n \/ \A i \in 1 .. sum : ~HasChildren(w[i])
<1> DEFINE r == Cutting(h, n)
           a == Reverse(r.inner)
           b == Reverse(r.child)
           w == Written(r)
<1>1. Cuts(h, n, h, <<>>, <<>>, r)
  BY CuttingCuts
<1> HIDE DEF r
<1>2. /\ r.sum \in 1 .. n
      /\ Vectors(h, r.inner, r.child)
      /\ r.sum = n \/ r.inner = <<>>
  BY <1>1 DEF Cuts
<1>3. Len(<<>>) = 0
  OBVIOUS
<1>4. KeysIn(<<>>) = {}
  BY <1>3 DEF KeysIn
<1>5. /\ Held(r.inner, r.child) = h
      /\ Len(r.inner) + Len(r.child) = r.sum
  <2>1. Held(<<>>, <<>>) = {}
    BY <1>4 DEF Held
  <2>2. Held(r.inner, r.child) = h
    BY <1>1, <2>1 DEF Cuts
  <2>3. Len(r.inner) + Len(r.child) = 0 + 0 + r.sum
    BY <1>1, <1>3 DEF Cuts
  <2>4. r.sum \in Int
    BY <1>2
  <2>5. 0 + 0 + r.sum = r.sum
    BY <2>4
  <2>6. Len(r.inner) + Len(r.child) = r.sum
    BY <2>3, <2>5
  <2> QED
    BY <2>2, <2>6
<1>6. /\ a \in Seq(InnersOf(h)) /\ Len(a) = Len(r.inner)
      /\ Disjoint(a) /\ KeysIn(a) = KeysIn(r.inner)
  BY <1>2, ReverseKeys DEF Vectors
<1>7. /\ b \in Seq(LeavesOf(h)) /\ Len(b) = Len(r.child)
      /\ Disjoint(b) /\ KeysIn(b) = KeysIn(r.child)
  BY <1>2, ReverseKeys DEF Vectors
<1>8. w = a \o b
  BY DEF Written
<1> HIDE DEF a, b, w
<1>9. a \in Seq(NodesOf(h)) /\ b \in Seq(NodesOf(h))
  BY <1>6, <1>7, BelowAreNodes, SeqMonotonic
<1>10. KeysIn(a) \cap KeysIn(b) = {}
  BY <1>2, <1>6, <1>7 DEF Vectors
<1>11. /\ w \in Seq(NodesOf(h))
       /\ Len(w) = Len(a) + Len(b)
       /\ Disjoint(w)
       /\ KeysIn(w) = KeysIn(a) \cup KeysIn(b)
  <2> DEFINE S == NodesOf(h)
  <2>1. a \in Seq(S) /\ b \in Seq(S) /\ Disjoint(a) /\ Disjoint(b)
    BY <1>6, <1>7, <1>9
  <2> HIDE DEF S
  <2>2. /\ a \o b \in Seq(S)
        /\ Len(a \o b) = Len(a) + Len(b)
        /\ Disjoint(a \o b)
        /\ KeysIn(a \o b) = KeysIn(a) \cup KeysIn(b)
    BY <1>10, <2>1, JoinKeys
  <2> QED
    BY <1>8, <2>2 DEF S
<1>12. Len(w) = r.sum /\ KeysIn(w) = h
  BY <1>5, <1>6, <1>7, <1>11 DEF Held
<1>13. r.sum = n \/ \A i \in 1 .. r.sum : ~HasChildren(w[i])
  <2> SUFFICES ASSUME r.inner = <<>>, NEW i \in 1 .. r.sum
               PROVE  ~HasChildren(w[i])
    BY <1>2
  <2>1. a = <<>>
    BY <1>3, <1>6, EmptySeq
  <2>2. w = b
    BY <1>7, <1>8, <2>1, ConcatEmptySeq
  <2>3. w \in Seq(LeavesOf(h)) /\ Len(w) = r.sum
    BY <1>7, <1>12, <2>2
  <2>4. w[i] \in LeavesOf(h)
    BY <2>3, ElementOfSeq
  <2> QED
    BY <2>4 DEF LeavesOf
<1> QED
  BY <1>2, <1>11, <1>12, <1>13 DEF w, r

LEMMA KeyOnce ==
  ASSUME NEW h \in Node, NEW n \in Nat \ {0}, NEW k \in h
  PROVE  LET w == Written(Cutting(h, n))
         IN  Cardinality({i \in DOMAIN w : k \in w[i]}) = 1
<1> DEFINE w == Written(Cutting(h, n))
           m == Cutting(h, n).sum
<1>1. /\ w \in Seq(NodesOf(h)) /\ Len(w) = m
      /\ Disjoint(w) /\ KeysIn(w) = h
  BY CutWritten
<1> HIDE DEF w, m
<1>2. DOMAIN w = 1 .. m
  BY <1>1
<1>3. PICK i \in 1 .. m : k \in w[i]
  BY <1>1 DEF KeysIn
<1>4. \A j \in 1 .. m : j # i => w[i] \cap w[j] = {}
  BY <1>1 DEF Disjoint
<1>5. {j \in DOMAIN w : k \in w[j]} = {i}
  BY <1>2, <1>3, <1>4
<1> QED
  BY <1>5, FS_Singleton DEF w

LEMMA KeysAreFinite ==
  ASSUME NEW h \in Node
  PROVE  IsFiniteSet(h) /\ Cardinality(h) \in Nat
<1>1. IsFiniteSet(BitKeys) /\ h \in SUBSET BitKeys
  BY BitsAssumption DEF Node
<1> QED
  BY <1>1, FS_Subset, FS_CardinalityType

(* As many hashes as there is room for, or as there are keys. *)
LEMMA CutSize ==
  ASSUME NEW h \in Node, NEW n \in Nat \ {0}
  PROVE  Cutting(h, n).sum = IF Cardinality(h) < n THEN Cardinality(h) ELSE n
<1> DEFINE w == Written(Cutting(h, n))
           m == Cutting(h, n).sum
<1>1. /\ w \in Seq(NodesOf(h)) /\ Len(w) = m
      /\ Disjoint(w) /\ KeysIn(w) = h
      /\ m \in 1 .. n
      /\ m = n \/ \A i \in 1 .. m : ~HasChildren(w[i])
  BY CutWritten
<1> HIDE DEF w, m
<1>2. IsFiniteSet(h) /\ Cardinality(h) \in Nat
  BY KeysAreFinite
<1>3. \A i \in 1 .. m : w[i] \in NodesOf(h) /\ w[i] # {} /\ w[i] \subseteq h
  BY <1>1, ElementOfSeq DEF NodesOf
<1> DEFINE f == [i \in 1 .. m |-> CHOOSE k \in w[i] : TRUE]
<1>4. \A i \in 1 .. m : f[i] \in w[i]
  BY <1>3
<1> HIDE DEF f
<1>5. f \in [1 .. m -> h]
  BY <1>3, <1>4 DEF f
<1>6. \A i, j \in 1 .. m : f[i] = f[j] => i = j
  BY <1>1, <1>4 DEF Disjoint
<1>7. f \in Injection(1 .. m, h)
  BY <1>5, <1>6 DEF Injection, IsInjective
<1>8. Cardinality(1 .. m) = m /\ IsFiniteSet(1 .. m)
  BY <1>1, FS_Interval
<1>9. m <= Cardinality(h)
  BY <1>2, <1>7, <1>8, FS_Injection
<1>10. ASSUME \A i \in 1 .. m : ~HasChildren(w[i])
       PROVE  m = Cardinality(h)
  <2>1. \A i \in 1 .. m : w[i] = {f[i]}
    BY <1>4, <1>10 DEF HasChildren
  <2>2. \A k \in h : \E i \in 1 .. m : f[i] = k
    BY <1>1, <2>1 DEF KeysIn
  <2>3. f \in Surjection(1 .. m, h)
    BY <1>5, <2>2 DEF Surjection
  <2>4. Cardinality(h) <= m
    BY <1>8, <2>3, FS_Surjection
  <2> QED
    BY <1>1, <1>2, <1>9, <2>4
<1> QED
  BY <1>1, <1>2, <1>9, <1>10 DEF m

-----------------------------------------------------------------------------
(* What the synchronization relies on (BlocksAssumption and CutAssumption  *)
(* of module TrieSync), for the nodes and the cuts of any set of keys.     *)

(* The prefixes of the keys form a tree with all the keys at its root and  *)
(* a leaf for every key (the trie of KeyValueTrie).                        *)
THEOREM PrefixesAreATree ==
  /\ PrefixBlocks \subseteq SUBSET BitKeys
  /\ BitKeys # {} => BitKeys \in PrefixBlocks
  /\ \A x \in BitKeys : {x} \in PrefixBlocks
  /\ \A b, c \in PrefixBlocks : b \subseteq c \/ c \subseteq b \/ b \cap c = {}
<1>1. PrefixBlocks \subseteq SUBSET BitKeys
  BY DEF PrefixBlocks, Prefix
<1>2. ASSUME NEW k \in BitKeys
      PROVE  BitKeys \in PrefixBlocks /\ {k} \in PrefixBlocks
  <2>1. Prefix(k, 0) = BitKeys
    BY DEF Prefix, Similar
  <2>2. Prefix(k, Depth) = {k}
    BY BitsAssumption DEF Prefix, Similar
  <2> QED
    BY <2>1, <2>2, BitsAssumption DEF PrefixBlocks
<1>3. ASSUME NEW j \in BitKeys, NEW k \in BitKeys, NEW d \in 0 .. Depth, NEW e \in 0 .. Depth,
             d <= e, Prefix(j, d) \cap Prefix(k, e) # {}
      PROVE  Prefix(k, e) \subseteq Prefix(j, d)
  <2>1. PICK x \in BitKeys : Similar(x, j, d) /\ Similar(x, k, e)
    BY <1>3 DEF Prefix
  <2>2. \A i \in 0 .. d - 1 : i \in 0 .. e - 1
    BY <1>3, BitsAssumption
  <2>3. \A y \in BitKeys : Similar(y, k, e) => Similar(y, j, d)
    BY <2>1, <2>2 DEF Similar
  <2> QED
    BY <2>3 DEF Prefix
<1>4. ASSUME NEW b \in PrefixBlocks, NEW c \in PrefixBlocks
      PROVE  b \subseteq c \/ c \subseteq b \/ b \cap c = {}
  <2>1. PICK j \in BitKeys, d \in 0 .. Depth : b = Prefix(j, d)
    BY DEF PrefixBlocks
  <2>2. PICK k \in BitKeys, e \in 0 .. Depth : c = Prefix(k, e)
    BY DEF PrefixBlocks
  <2>3. d <= e \/ e <= d
    BY BitsAssumption
  <2>4. b \cap c = c \cap b
    OBVIOUS
  <2> QED
    BY <1>3, <2>1, <2>2, <2>3, <2>4
<1> QED
  BY <1>1, <1>2, <1>4

(* KeyValueTrie::getSubTrie with room for two hashes or more writes nodes  *)
(* below h that hold all the keys of h, none of them twice.                *)
THEOREM CutKeepsItsContract ==
  \A h \in Node, n \in Nat : n >= 2 =>
    /\ SubTrieCut(h, n) \in Seq({b \cap h : b \in PrefixBlocks} \ {{}})
    /\ \A x \in h : \E i \in DOMAIN SubTrieCut(h, n) : x \in SubTrieCut(h, n)[i]
    /\ \A i, j \in DOMAIN SubTrieCut(h, n) :
         i # j => SubTrieCut(h, n)[i] \cap SubTrieCut(h, n)[j] = {}
<1> SUFFICES ASSUME NEW h \in Node, NEW n \in Nat, n >= 2
             PROVE  /\ SubTrieCut(h, n) \in Seq(NodesOf(h))
                    /\ \A x \in h : \E i \in DOMAIN SubTrieCut(h, n) :
                                      x \in SubTrieCut(h, n)[i]
                    /\ \A i, j \in DOMAIN SubTrieCut(h, n) :
                         i # j => SubTrieCut(h, n)[i] \cap SubTrieCut(h, n)[j] = {}
  BY DEF NodesOf
<1> DEFINE w == SubTrieCut(h, n)
<1>1. w = Written(Cutting(h, n)) /\ n \in Nat \ {0}
  BY DEF SubTrieCut
<1>2. w \in Seq(NodesOf(h)) /\ Disjoint(w) /\ KeysIn(w) = h
  BY <1>1, CutWritten
<1> HIDE DEF w
<1>3. DOMAIN w = 1 .. Len(w)
  BY <1>2
<1>4. \A x \in h : \E i \in DOMAIN w : x \in w[i]
  BY <1>2, <1>3 DEF KeysIn
<1>5. \A i, j \in DOMAIN w : i # j => w[i] \cap w[j] = {}
  BY <1>2, <1>3 DEF Disjoint
<1> QED
  BY <1>2, <1>4, <1>5 DEF w

-----------------------------------------------------------------------------
(* The caller's states: it has asked or it has not.                        *)
IInv ==
  /\ node \in Node
  /\ buffer \in Nat \ {0, 1}
  /\ \/ hashes = <<>> /\ size = 0
     \/ hashes = SubTrieCut(node, buffer) /\ size = Cutting(node, buffer).sum

LEMMA CallInvariant == Spec => []IInv
<1>1. Init => IInv
  <2> SUFFICES ASSUME Init PROVE IInv
    OBVIOUS
  <2>1. Cardinality(BitKeys) \in Nat
    BY BitsAssumption, FS_CardinalityType
  <2>2. buffer \in Nat \ {0, 1}
    BY <2>1 DEF Init
  <2> QED
    BY <2>2 DEF Init, IInv
<1>2. IInv /\ [Next]_vars => IInv'
  <2> SUFFICES ASSUME IInv, [Next]_vars PROVE IInv'
    OBVIOUS
  <2>1. CASE Next
    <3>1. /\ node' = node /\ buffer' = buffer
          /\ hashes' = SubTrieCut(node, buffer) /\ size' = Cutting(node, buffer).sum
      BY <2>1 DEF Next, GetSubTrieBuffer, SubTrieCut
    <3> QED
      BY <3>1 DEF IInv
  <2>2. CASE UNCHANGED vars
    BY <2>2 DEF vars, IInv
  <2> QED
    BY <2>1, <2>2
<1> QED
  BY <1>1, <1>2, PTL DEF Spec

(* The hashes in the buffer are nodes below the node and stand for every   *)
(* key of it once, whatever the recursion and its refill loop pop and put  *)
(* back (KeyValueTrie::getSubTrie).                                        *)
THEOREM CutPartitionsAlways == Spec => []CutPartitions
<1>1. IInv => CutPartitions
  <2> SUFFICES ASSUME IInv, hashes # <<>> PROVE CutPartitions
    BY DEF CutPartitions
  <2>1. /\ hashes = Written(Cutting(node, buffer))
        /\ node \in Node /\ buffer \in Nat \ {0}
    BY DEF IInv, SubTrieCut
  <2>2. hashes \in Seq(NodesOf(node))
    BY <2>1, CutWritten
  <2>3. \A i \in DOMAIN hashes : hashes[i] \in NodesOf(node)
    BY <2>2, ElementOfSeq
  <2>4. \A k \in node : Cardinality({i \in DOMAIN hashes : k \in hashes[i]}) = 1
    BY <2>1, KeyOnce
  <2> QED
    BY <2>3, <2>4 DEF CutPartitions, NodesOf
<1> QED
  BY <1>1, CallInvariant, PTL

(* The recursion never writes past the buffer, fills it if the node has    *)
(* the keys, and counts what it wrote.                                     *)
THEOREM CutFillsBufferAlways == Spec => []CutFillsBuffer
<1>1. IInv => CutFillsBuffer
  <2> SUFFICES ASSUME IInv PROVE CutFillsBuffer
    OBVIOUS
  <2>1. node \in Node /\ buffer \in Nat \ {0}
    BY DEF IInv
  <2>2. CASE hashes = <<>> /\ size = 0
    <3>1. Len(<<>>) = 0
      OBVIOUS
    <3> QED
      BY <2>2, <3>1 DEF CutFillsBuffer
  <2>3. CASE hashes = SubTrieCut(node, buffer) /\ size = Cutting(node, buffer).sum
    <3>1. size = Len(hashes)
      BY <2>1, <2>3, CutWritten DEF SubTrieCut
    <3>2. size = IF Cardinality(node) < buffer THEN Cardinality(node) ELSE buffer
      BY <2>1, <2>3, CutSize
    <3> QED
      BY <3>1, <3>2 DEF CutFillsBuffer
  <2> QED
    BY <2>2, <2>3 DEF IInv
<1> QED
  BY <1>1, CallInvariant, PTL

=============================================================================
