------------------------- MODULE KeyValueTrieProofs -------------------------
(***************************************************************************)
(* Proofs about the trie in its storage, for any finite set of keys of any *)
(* number of bits, and crashes at any write, after which nothing is added  *)
(* or removed any more (LaterOps = 0).                                     *)
(***************************************************************************)
EXTENDS KeyValueTrie, FiniteSetTheorems, WellFoundedInduction, SequenceTheorems, TLAPS

-----------------------------------------------------------------------------
(* Induction over the natural numbers, about a set.                        *)

LEMMA LeastNumber ==
  ASSUME NEW T, T \subseteq Nat, T # {}
  PROVE  \E x \in T : \A y \in T : x <= y
<1> DEFINE R == OpToRel(<, Nat)
<1>1. IsWellFoundedOn(R, Nat)
  BY NatLessThanWellFounded
<1>2. \A x, y \in Nat : x < y <=> <<x, y>> \in R
  BY DEF OpToRel
<1> HIDE DEF R
<1>3. PICK x \in T : \A y \in T : ~ (<<y, x>> \in R)
  BY <1>1, WFMin
<1>4. \A y \in T : ~ (y < x)
  BY <1>2, <1>3
<1> QED
  BY <1>4

LEMMA NumberInduction ==
  ASSUME NEW S, 0 \in S, \A n \in Nat : n \in S => n + 1 \in S
  PROVE  Nat \subseteq S
<1> SUFFICES ASSUME Nat \ S # {} PROVE FALSE
  OBVIOUS
<1>1. PICK x \in Nat \ S : \A y \in Nat \ S : x <= y
  BY LeastNumber
<1>2. x # 0 /\ x - 1 \in Nat
  BY <1>1
<1>3. x - 1 \in S
  BY <1>1, <1>2
<1> QED
  BY <1>1, <1>2, <1>3

-----------------------------------------------------------------------------
(* Keys and their bits.                                                    *)

(* The keys of S that k agrees with on d bits, and those with the bit v    *)
(* behind the first i.                                                     *)
Match(S, k, d) == {j \in S : Agree(j, k, d)}
Side(S, i, v) == {k \in S : Bit(k, i) = v}

(* All keys of S have c bits in common, and the bit behind tells them      *)
(* apart. *)
Splits(S, c) ==
  /\ c \in 0 .. Depth - 1
  /\ \A j, k \in S : Agree(j, k, c)
  /\ Side(S, c, 0) # {} /\ Side(S, c, 1) # {}

LEMMA DepthType == Depth \in Nat /\ Depth >= 1
BY KeysAssumption

LEMMA BitType ==
  ASSUME NEW k \in Keys, NEW i \in 0 .. Depth - 1
  PROVE  Bit(k, i) \in {0, 1}
BY KeysAssumption

LEMMA AgreeFewer ==
  ASSUME NEW j, NEW k, NEW d \in Int, NEW c \in Int, c <= d, Agree(j, k, d)
  PROVE  Agree(j, k, c)
BY DEF Agree

LEMMA AgreeAll ==
  ASSUME NEW j \in Keys, NEW k \in Keys, Agree(j, k, Depth)
  PROVE  j = k
BY KeysAssumption DEF Agree

LEMMA AgreeMore ==
  ASSUME NEW j, NEW k, NEW d \in Nat, Agree(j, k, d), Bit(j, d) = Bit(k, d)
  PROVE  Agree(j, k, d + 1)
BY DEF Agree

(* The first bit in which two keys differ. *)
LEMMA FirstDifference ==
  ASSUME NEW j \in Keys, NEW k \in Keys, j # k
  PROVE  \E d \in 0 .. Depth - 1 : Agree(j, k, d) /\ Bit(j, d) # Bit(k, d)
<1> DEFINE T == {i \in 0 .. Depth - 1 : Bit(j, i) # Bit(k, i)}
<1>1. T # {} /\ T \subseteq Nat
  BY KeysAssumption
<1>2. PICK x \in T : \A y \in T : x <= y
  BY <1>1, LeastNumber
<1>3. \A i \in 0 .. x - 1 : i \notin T /\ i \in 0 .. Depth - 1
  BY <1>2, DepthType
<1> QED
  BY <1>2, <1>3 DEF Agree

LEMMA CommonPrefixIs ==
  ASSUME NEW j \in Keys, NEW k \in Keys, NEW d \in 0 .. Depth - 1,
         Agree(j, k, d), Bit(j, d) # Bit(k, d)
  PROVE  CommonPrefixSize(j, k) = d
<1>1. d \in 0 .. Depth
  BY DepthType
<1>2. ASSUME NEW e \in 0 .. Depth, Agree(j, k, e), e < Depth => Bit(j, e) # Bit(k, e)
      PROVE  e = d
  <2>1. ~ (d < e)
    BY <1>2 DEF Agree
  <2>2. ~ (e < d)
    BY <1>2, DepthType DEF Agree
  <2> QED
    BY <2>1, <2>2, DepthType
<1> QED
  BY <1>1, <1>2 DEF CommonPrefixSize

LEMMA CommonBitsIs ==
  ASSUME NEW S \in SUBSET Keys, NEW c, Splits(S, c)
  PROVE  CommonBits(S) = c
<1>1. c \in 0 .. Depth /\ c \in 0 .. Depth - 1 /\ \A j, k \in S : Agree(j, k, c)
  BY DepthType DEF Splits
<1>2. PICK j \in Side(S, c, 0), k \in Side(S, c, 1) : TRUE
  BY DEF Splits
<1>3. j \in S /\ k \in S /\ Bit(j, c) # Bit(k, c)
  BY <1>2 DEF Side
<1>4. ASSUME NEW e \in 0 .. Depth, \A x, y \in S : Agree(x, y, e),
             e < Depth => \E x, y \in S : Bit(x, e) # Bit(y, e)
      PROVE  e = c
  <2>1. ~ (c < e)
    BY <1>1, <1>3, <1>4 DEF Agree
  <2>2. ~ (e < c)
    BY <1>1, <1>4, DepthType DEF Agree
  <2> QED
    BY <1>1, <2>1, <2>2, DepthType
<1> QED
  BY <1>1, <1>3, <1>4 DEF CommonBits

LEMMA CommonBitsOne ==
  ASSUME NEW k \in Keys
  PROVE  CommonBits({k}) = Depth
<1>1. \A d : \A x, y \in {k} : Agree(x, y, d) /\ Bit(x, d) = Bit(y, d)
  BY DEF Agree
<1>2. Depth \in 0 .. Depth /\ ~ (Depth < Depth)
  BY DepthType
<1>3. \A e \in 0 .. Depth : (e < Depth => \E x, y \in {k} : Bit(x, e) # Bit(y, e)) => e = Depth
  BY <1>1, DepthType
<1> QED
  BY <1>1, <1>2, <1>3 DEF CommonBits

(* A set of keys is empty, a single key, or split by a bit. *)
LEMMA EmptyOneOrSplit ==
  ASSUME NEW S \in SUBSET Keys, S # {}, \A k \in S : S # {k}
  PROVE  \E c : Splits(S, c)
<1> DEFINE T == {i \in 0 .. Depth - 1 : \E x, y \in S : Bit(x, i) # Bit(y, i)}
<1>1. PICK x \in S, y \in S : x # y
  OBVIOUS
<1>2. T # {} /\ T \subseteq Nat
  <2>1. PICK d \in 0 .. Depth - 1 : Bit(x, d) # Bit(y, d)
    BY <1>1, FirstDifference
  <2> QED
    BY <1>1, <2>1
<1>3. PICK c \in T : \A i \in T : c <= i
  BY <1>2, LeastNumber
<1>4. \A i \in 0 .. c - 1 : i \notin T /\ i \in 0 .. Depth - 1
  BY <1>3, DepthType
<1>5. \A j, k \in S : Agree(j, k, c)
  BY <1>4 DEF Agree
<1>6. PICK j \in S, k \in S : Bit(j, c) # Bit(k, c)
  BY <1>3
<1>7. Bit(j, c) \in {0, 1} /\ Bit(k, c) \in {0, 1}
  BY <1>3, BitType
<1>8. \/ j \in Side(S, c, 0) /\ k \in Side(S, c, 1)
      \/ k \in Side(S, c, 0) /\ j \in Side(S, c, 1)
  BY <1>6, <1>7 DEF Side
<1>9. c \in 0 .. Depth - 1 /\ Side(S, c, 0) # {} /\ Side(S, c, 1) # {}
  BY <1>3, <1>8
<1> QED
  BY <1>5, <1>9 DEF Splits

(* Keys of two sides are different, and every key is on one. *)
LEMMA SidesPart ==
  ASSUME NEW S \in SUBSET Keys, NEW c \in 0 .. Depth - 1
  PROVE  /\ S = Side(S, c, 0) \cup Side(S, c, 1)
         /\ Side(S, c, 0) \cap Side(S, c, 1) = {}
         /\ Side(S, c, 0) \in SUBSET Keys /\ Side(S, c, 1) \in SUBSET Keys
BY BitType DEF Side

-----------------------------------------------------------------------------
(* The trie of a set of keys.                                              *)

TrieStep(f, n) ==
  [S \in SUBSET Keys |->
     IF S = {} THEN None
     ELSE IF n = 0 THEN Leaf(CHOOSE k \in S : TRUE)
     ELSE Joined(f[n - 1][Side(S, Depth - n, 0)], f[n - 1][Side(S, Depth - n, 1)])]

LEMMA TriesRun ==
  \A n \in 0 .. Depth : Tries[n] = TrieStep(Tries, n)
<1> DEFINE Run(f, j) == f = [n \in 0 .. j |-> TrieStep(f, n)]
           S == {j \in Nat : \E f : Run(f, j)}
<1>1. 0 \in S
  <2> DEFINE f == [n \in 0 .. 0 |-> TrieStep(<<>>, 0)]
  <2>1. \A n \in 0 .. 0 : TrieStep(f, n) = TrieStep(<<>>, 0)
    BY DEF TrieStep
  <2>2. Run(f, 0)
    BY <2>1
  <2> QED
    BY <2>2
<1>2. ASSUME NEW j \in Nat, j \in S
      PROVE  j + 1 \in S
  <2>1. PICK f : Run(f, j)
    BY <1>2
  <2> DEFINE g == [n \in 0 .. j + 1 |-> IF n = j + 1 THEN TrieStep(f, n) ELSE f[n]]
  <2>2. \A n \in 0 .. j : g[n] = f[n] /\ f[n] = TrieStep(f, n)
    BY <2>1
  <2>3. \A n \in 0 .. j + 1 : TrieStep(g, n) = TrieStep(f, n)
    <3> SUFFICES ASSUME NEW n \in 0 .. j + 1 PROVE TrieStep(g, n) = TrieStep(f, n)
      OBVIOUS
    <3>1. CASE n = 0
      BY <3>1 DEF TrieStep
    <3>2. CASE n # 0
      <4>1. g[n - 1] = f[n - 1]
        BY <2>2, <3>2
      <4> QED
        BY <4>1 DEF TrieStep
    <3> QED
      BY <3>1, <3>2
  <2>4. \A n \in 0 .. j + 1 : g[n] = TrieStep(g, n)
    BY <2>2, <2>3
  <2>5. Run(g, j + 1)
    BY <2>4
  <2> HIDE DEF g
  <2>6. \E h : Run(h, j + 1)
    BY <2>5
  <2> QED
    BY <2>6
<1> HIDE DEF S
<1>3. Depth \in S
  BY <1>1, <1>2, NumberInduction, DepthType
<1>4. \E f : Run(f, Depth)
  BY <1>3 DEF S
<1>5. Tries = CHOOSE f : Run(f, Depth)
  BY DEF Tries, TrieStep, Side
<1>6. Run(Tries, Depth)
  BY <1>4, <1>5
<1> QED
  BY <1>6

LEMMA NoneFields == None.leaves = {} /\ None.below = {}
BY DEF None

LEMMA LeafFields ==
  ASSUME NEW k
  PROVE  Leaf(k).leaves = {k} /\ Leaf(k).below = {} /\ Leaf(k) # None
<1>1. Leaf(k).leaves = {k} /\ Leaf(k).below = {}
  BY DEF Leaf
<1> QED
  BY <1>1, NoneFields

LEMMA InnerFields ==
  ASSUME NEW a, NEW b
  PROVE  /\ Inner(a, b).smaller = a /\ Inner(a, b).larger = b
         /\ Inner(a, b).leaves = a.leaves \cup b.leaves
         /\ Inner(a, b).below = SubtriesOf(a) \cup SubtriesOf(b)
BY DEF Inner, LeavesOf

LEMMA TriesStep ==
  ASSUME NEW n \in 0 .. Depth, NEW S \in SUBSET Keys
  PROVE  /\ S = {} => Tries[n][S] = None
         /\ S # {} /\ n = 0 => Tries[n][S] = Leaf(CHOOSE k \in S : TRUE)
         /\ S # {} /\ n # 0 =>
              Tries[n][S] = Joined(Tries[n - 1][Side(S, Depth - n, 0)],
                                   Tries[n - 1][Side(S, Depth - n, 1)])
<1>1. Tries[n] = TrieStep(Tries, n)
  BY TriesRun
<1> QED
  BY <1>1 DEF TrieStep

LEMMA TriesLeaves ==
  ASSUME NEW n \in 0 .. Depth, NEW S \in SUBSET Keys,
         \A j, k \in S : Agree(j, k, Depth - n)
  PROVE  Tries[n][S].leaves = S
<1> DEFINE Good(m) == m \in 0 .. Depth =>
             \A X \in SUBSET Keys :
               (\A j, k \in X : Agree(j, k, Depth - m)) => Tries[m][X].leaves = X
           N == {m \in Nat : Good(m)}
<1>1. 0 \in N
  <2> SUFFICES ASSUME NEW X \in SUBSET Keys, \A j, k \in X : Agree(j, k, Depth - 0)
               PROVE  Tries[0][X].leaves = X
    OBVIOUS
  <2>1. CASE X = {}
    <3>1. 0 \in 0 .. Depth
      BY DepthType
    <3>2. Tries[0][X] = None
      BY <2>1, <3>1, TriesStep
    <3> QED
      BY <2>1, <3>2, NoneFields
  <2>2. CASE X # {}
    <3> DEFINE k == CHOOSE x \in X : TRUE
    <3>1. k \in X
      BY <2>2
    <3>2. Tries[0][X] = Leaf(k)
      BY <2>2, TriesStep, DepthType
    <3> HIDE DEF k
    <3>3. \A j \in X : j = k
      BY <3>1, AgreeAll, DepthType
    <3>4. X = {k}
      BY <3>1, <3>3
    <3>5. Leaf(k).leaves = {k}
      BY LeafFields
    <3> QED
      BY <3>2, <3>4, <3>5
  <2> QED
    BY <2>1, <2>2
<1>2. ASSUME NEW m \in Nat, m \in N
      PROVE  m + 1 \in N
  <2> SUFFICES ASSUME m + 1 \in 0 .. Depth, NEW X \in SUBSET Keys,
                      \A j, k \in X : Agree(j, k, Depth - (m + 1))
               PROVE  Tries[m + 1][X].leaves = X
    OBVIOUS
  <2> DEFINE i == Depth - (m + 1)
             a == Tries[m][Side(X, i, 0)]
             b == Tries[m][Side(X, i, 1)]
  <2>1. m \in 0 .. Depth /\ i \in 0 .. Depth - 1 /\ Depth - m = i + 1 /\ (m + 1) - 1 = m
    BY DepthType
  <2>2. /\ X = Side(X, i, 0) \cup Side(X, i, 1)
        /\ Side(X, i, 0) \in SUBSET Keys /\ Side(X, i, 1) \in SUBSET Keys
    BY <2>1, SidesPart
  <2>3. \A v : \A j, k \in Side(X, i, v) : Agree(j, k, Depth - m)
    BY <2>1, AgreeMore DEF Side
  <2>4. a.leaves = Side(X, i, 0) /\ b.leaves = Side(X, i, 1)
    BY <1>2, <2>1, <2>2, <2>3
  <2>5. CASE X = {}
    BY <2>5, TriesStep, NoneFields
  <2>6. CASE X # {}
    <3>1. Tries[m + 1][X] = Joined(a, b)
      BY <2>1, <2>6, TriesStep
    <3> HIDE DEF a, b
    <3>2. Joined(a, b).leaves = a.leaves \cup b.leaves
      BY NoneFields, InnerFields DEF Joined
    <3> QED
      BY <2>2, <2>4, <3>1, <3>2
  <2> QED
    BY <2>5, <2>6
<1> HIDE DEF N
<1>3. n \in N
  BY <1>1, <1>2, NumberInduction, DepthType
<1> QED
  BY <1>3 DEF N

(* Keys that have their first bits in common are told apart by the others. *)
LEMMA TriesFewer ==
  ASSUME NEW n \in 1 .. Depth, NEW S \in SUBSET Keys,
         \A j, k \in S : Agree(j, k, Depth - (n - 1))
  PROVE  Tries[n][S] = Tries[n - 1][S]
<1> DEFINE i == Depth - n
           a == Tries[n - 1][Side(S, i, 0)]
           b == Tries[n - 1][Side(S, i, 1)]
<1>1. /\ n \in 0 .. Depth /\ n - 1 \in 0 .. Depth /\ n # 0
      /\ i \in 0 .. Depth - 1 /\ i \in 0 .. (Depth - (n - 1)) - 1
  BY DepthType
<1>2. CASE S = {}
  BY <1>1, <1>2, TriesStep
<1>3. CASE S # {}
  <2>1. \A j, k \in S : Bit(j, i) = Bit(k, i)
    BY <1>1 DEF Agree
  <2>2. \A k \in S : Bit(k, i) \in {0, 1}
    BY <1>1, BitType
  <2>3. \/ Side(S, i, 0) = S /\ Side(S, i, 1) = {}
        \/ Side(S, i, 1) = S /\ Side(S, i, 0) = {}
    BY <2>1, <2>2 DEF Side
  <2>4. Tries[n][S] = Joined(a, b)
    BY <1>1, <1>3, TriesStep
  <2>5. Tries[n - 1][{}] = None
    BY <1>1, TriesStep
  <2> DEFINE c == Tries[n - 1][S]
  <2>6. Joined(c, None) = c /\ Joined(None, c) = c
    BY DEF Joined
  <2> QED
    BY <2>3, <2>4, <2>5, <2>6
<1> QED
  BY <1>2, <1>3

LEMMA TriesWhole ==
  ASSUME NEW n \in 0 .. Depth, NEW S \in SUBSET Keys, \A j, k \in S : Agree(j, k, n)
  PROVE  TrieOf(S) = Tries[Depth - n][S]
<1> DEFINE N == {m \in Nat : m \in 0 .. Depth =>
                   ((\A j, k \in S : Agree(j, k, m)) => TrieOf(S) = Tries[Depth - m][S])}
<1>1. 0 \in N
  <2>1. Depth - 0 = Depth
    BY DepthType
  <2> QED
    BY <2>1 DEF TrieOf
<1>2. ASSUME NEW m \in Nat, m \in N
      PROVE  m + 1 \in N
  <2> SUFFICES ASSUME m + 1 \in 0 .. Depth, \A j, k \in S : Agree(j, k, m + 1)
               PROVE  TrieOf(S) = Tries[Depth - (m + 1)][S]
    OBVIOUS
  <2> DEFINE l == Depth - m
  <2>1. /\ m \in 0 .. Depth /\ l \in 1 .. Depth /\ Depth - (m + 1) = l - 1
        /\ Depth - (l - 1) = m + 1
    BY DepthType
  <2>2. \A j, k \in S : Agree(j, k, m)
    BY AgreeFewer
  <2>3. TrieOf(S) = Tries[l][S]
    BY <1>2, <2>1, <2>2
  <2> HIDE DEF l
  <2>4. Tries[l][S] = Tries[l - 1][S]
    BY <2>1, TriesFewer
  <2> QED
    BY <2>1, <2>3, <2>4
<1> HIDE DEF N
<1>3. n \in N
  BY <1>1, <1>2, NumberInduction, DepthType
<1> QED
  BY <1>3 DEF N

LEMMA TrieLeaves ==
  ASSUME NEW S \in SUBSET Keys
  PROVE  TrieOf(S).leaves = S
<1>1. Depth \in 0 .. Depth /\ Depth - Depth = 0
  BY DepthType
<1>2. \A j, k \in S : Agree(j, k, 0)
  BY DEF Agree
<1> QED
  BY <1>1, <1>2, TriesLeaves DEF TrieOf

LEMMA TrieInjective ==
  ASSUME NEW S \in SUBSET Keys, NEW X \in SUBSET Keys, TrieOf(S) = TrieOf(X)
  PROVE  S = X
BY TrieLeaves

LEMMA TrieOfNone ==
  /\ TrieOf({}) = None
  /\ \A S \in SUBSET Keys : TrieOf(S) = None => S = {}
<1>1. Depth \in 0 .. Depth /\ {} \in SUBSET Keys
  BY DepthType
<1>2. TrieOf({}) = None
  BY <1>1, TriesStep DEF TrieOf
<1> QED
  BY <1>1, <1>2, TrieInjective

LEMMA TrieOfOne ==
  ASSUME NEW k \in Keys
  PROVE  TrieOf({k}) = Leaf(k)
<1>1. Depth \in 0 .. Depth /\ Depth - Depth = 0 /\ 0 \in 0 .. Depth
  BY DepthType
<1>2. \A i, j \in {k} : Agree(i, j, Depth)
  BY DEF Agree
<1>3. TrieOf({k}) = Tries[0][{k}]
  BY <1>1, <1>2, TriesWhole
<1>4. Tries[0][{k}] = Leaf(CHOOSE x \in {k} : TRUE)
  BY <1>1, TriesStep
<1> QED
  BY <1>3, <1>4

LEMMA TrieOfSplit ==
  ASSUME NEW S \in SUBSET Keys, NEW c, Splits(S, c)
  PROVE  TrieOf(S) = Inner(TrieOf(Side(S, c, 0)), TrieOf(Side(S, c, 1)))
<1> DEFINE n == Depth - c
<1>1. /\ c \in 0 .. Depth - 1 /\ c \in 0 .. Depth /\ c + 1 \in 0 .. Depth
      /\ n \in 0 .. Depth /\ n # 0 /\ Depth - n = c /\ n - 1 = Depth - (c + 1)
  BY DepthType DEF Splits
<1>2. /\ Side(S, c, 0) \in SUBSET Keys /\ Side(S, c, 1) \in SUBSET Keys
      /\ Side(S, c, 0) # {} /\ Side(S, c, 1) # {} /\ S # {}
  BY DEF Splits, Side
<1>3. TrieOf(S) = Tries[n][S]
  BY <1>1, TriesWhole DEF Splits
<1>4. \A v : \A j, k \in Side(S, c, v) : Agree(j, k, c + 1)
  BY <1>1, AgreeMore DEF Side, Splits
<1>5. /\ TrieOf(Side(S, c, 0)) = Tries[n - 1][Side(S, c, 0)]
      /\ TrieOf(Side(S, c, 1)) = Tries[n - 1][Side(S, c, 1)]
  BY <1>1, <1>2, <1>4, TriesWhole
<1>6. Tries[n][S] = Joined(TrieOf(Side(S, c, 0)), TrieOf(Side(S, c, 1)))
  BY <1>1, <1>2, <1>5, TriesStep
<1>7. TrieOf(Side(S, c, 0)) # None /\ TrieOf(Side(S, c, 1)) # None
  BY <1>2, TrieOfNone
<1> QED
  BY <1>3, <1>6, <1>7 DEF Joined

-----------------------------------------------------------------------------
(* The sets of keys that are nodes of the trie of S.                       *)
Blocks(S) == {Match(S, k, d) : k \in S, d \in 0 .. Depth}

LEMMA BlockIs ==
  ASSUME NEW S, NEW X \in Blocks(S)
  PROVE  \E k \in S, d \in 0 .. Depth : X = Match(S, k, d) /\ k \in X
BY DEF Blocks, Match, Agree

LEMMA BlockPart ==
  ASSUME NEW S, NEW X \in Blocks(S)
  PROVE  X \subseteq S /\ X # {}
BY BlockIs DEF Match

LEMMA BlockWhole ==
  ASSUME NEW S, S # {}
  PROVE  S \in Blocks(S)
<1>1. PICK k \in S : TRUE
  OBVIOUS
<1>2. Match(S, k, 0) = S /\ 0 \in 0 .. Depth
  BY DepthType DEF Match, Agree
<1> QED
  BY <1>1, <1>2 DEF Blocks

LEMMA BlocksNone == Blocks({}) = {}
BY DEF Blocks

LEMMA BlocksOne ==
  ASSUME NEW k
  PROVE  Blocks({k}) = {{k}}
<1>1. \A d : Match({k}, k, d) = {k}
  BY DEF Match, Agree
<1>2. 0 \in 0 .. Depth
  BY DepthType
<1> QED
  BY <1>1, <1>2 DEF Blocks

LEMMA BlocksSplit ==
  ASSUME NEW S \in SUBSET Keys, NEW c, Splits(S, c)
  PROVE  Blocks(S) = {S} \cup Blocks(Side(S, c, 0)) \cup Blocks(Side(S, c, 1))
<1>1. /\ c \in 0 .. Depth - 1 /\ c \in Int /\ c + 1 \in 0 .. Depth
      /\ \A j, k \in S : Agree(j, k, c)
  BY DepthType DEF Splits
<1>2. \A k \in S, d \in 0 .. Depth : d <= c => Match(S, k, d) = S
  BY <1>1, AgreeFewer DEF Match
<1>3. \A k \in S, d \in 0 .. Depth :
         d > c => Match(S, k, d) = Match(Side(S, c, Bit(k, c)), k, d)
  BY <1>1 DEF Match, Side, Agree
<1>4. \A v, k, d : k \in Side(S, c, v) /\ d \in 0 .. Depth /\ d <= c + 1 =>
         Match(Side(S, c, v), k, d) = Side(S, c, v)
  BY <1>1, AgreeMore, AgreeFewer DEF Match, Side
<1>5. \A v : \A k \in Side(S, c, v) : Side(S, c, v) = Match(S, k, c + 1)
  BY <1>1, AgreeMore DEF Match, Side, Agree
<1>6. S \in Blocks(S)
  BY BlockWhole DEF Splits, Side
<1>7. ASSUME NEW X \in Blocks(S), X # S
      PROVE  X \in Blocks(Side(S, c, 0)) \cup Blocks(Side(S, c, 1))
  <2>1. PICK k \in S, d \in 0 .. Depth : X = Match(S, k, d)
    BY <1>7 DEF Blocks
  <2>2. d > c
    BY <1>1, <1>2, <1>7, <2>1
  <2>3. X = Match(Side(S, c, Bit(k, c)), k, d) /\ k \in Side(S, c, Bit(k, c))
    BY <1>3, <2>1, <2>2 DEF Side
  <2>4. Bit(k, c) \in {0, 1}
    BY <1>1, BitType
  <2> QED
    BY <2>3, <2>4 DEF Blocks
<1>8. ASSUME NEW v, NEW X \in Blocks(Side(S, c, v))
      PROVE  X \in Blocks(S)
  <2>1. PICK k \in Side(S, c, v), d \in 0 .. Depth : X = Match(Side(S, c, v), k, d)
    BY <1>8 DEF Blocks
  <2>2. k \in S /\ Bit(k, c) = v
    BY DEF Side
  <2>3. CASE d <= c + 1
    <3>1. X = Match(S, k, c + 1)
      BY <1>4, <1>5, <2>1, <2>3
    <3> QED
      BY <1>1, <2>2, <3>1 DEF Blocks
  <2>4. CASE d > c + 1
    <3>1. X = Match(S, k, d)
      BY <1>1, <1>3, <2>1, <2>2, <2>4
    <3> QED
      BY <2>2, <3>1 DEF Blocks
  <2> QED
    BY <1>1, <2>3, <2>4
<1> QED
  BY <1>6, <1>7, <1>8

LEMMA BlockBlocks ==
  ASSUME NEW S, NEW X \in Blocks(S)
  PROVE  Blocks(X) \subseteq Blocks(S)
<1>1. PICK k \in S, d \in 0 .. Depth : X = Match(S, k, d) /\ k \in X
  BY BlockIs
<1> SUFFICES ASSUME NEW Y \in Blocks(X) PROVE Y \in Blocks(S)
  OBVIOUS
<1>2. PICK j \in X, e \in 0 .. Depth : Y = Match(X, j, e) /\ j \in Y
  BY BlockIs
<1>3. j \in S /\ Agree(j, k, d)
  BY <1>1 DEF Match
<1>4. CASE e <= d
  <2>1. Y = X
    BY <1>1, <1>2, <1>3, <1>4 DEF Match, Agree
  <2> QED
    BY <2>1
<1>5. CASE d <= e
  <2>1. Y = Match(S, j, e)
    BY <1>1, <1>2, <1>3, <1>5 DEF Match, Agree
  <2> QED
    BY <1>3, <2>1 DEF Blocks
<1> QED
  BY <1>4, <1>5

(* The nodes of the trie of S. *)
NodesOf(S) == {TrieOf(X) : X \in Blocks(S)}

LEMMA SubtriesAreNodes ==
  ASSUME NEW S \in SUBSET Keys
  PROVE  SubtriesOf(TrieOf(S)) = NodesOf(S)
<1> DEFINE Good(n) == \A c \in 0 .. Depth : \A X \in SUBSET Keys :
             c + n >= Depth /\ (\A j, k \in X : Agree(j, k, c)) =>
               SubtriesOf(TrieOf(X)) = NodesOf(X)
           N == {n \in Nat : Good(n)}
<1>1. ASSUME NEW X \in SUBSET Keys, NEW k \in Keys, X = {k}
      PROVE  SubtriesOf(TrieOf(X)) = NodesOf(X)
  <2>0. Blocks(X) = {X}
    BY <1>1, BlocksOne
  <2>1. NodesOf(X) = {Leaf(k)}
    BY <1>1, <2>0, TrieOfOne DEF NodesOf
  <2> QED
    BY <1>1, <2>1, TrieOfOne, LeafFields DEF SubtriesOf
<1>2. NodesOf({}) = {} /\ SubtriesOf(TrieOf({})) = {}
  BY BlocksNone, TrieOfNone DEF NodesOf, SubtriesOf
<1>3. 0 \in N
  <2> SUFFICES ASSUME NEW c \in 0 .. Depth, NEW X \in SUBSET Keys,
                      c + 0 >= Depth, \A j, k \in X : Agree(j, k, c), X # {}
               PROVE  SubtriesOf(TrieOf(X)) = NodesOf(X)
    BY <1>2
  <2>1. c = Depth
    BY DepthType
  <2>2. PICK k \in X : TRUE
    OBVIOUS
  <2>3. \A j \in X : j = k
    BY <2>1, AgreeAll
  <2> QED
    BY <1>1, <2>3
<1>4. ASSUME NEW n \in Nat, n \in N
      PROVE  n + 1 \in N
  <2> SUFFICES ASSUME NEW c \in 0 .. Depth, NEW X \in SUBSET Keys, c + (n + 1) >= Depth,
                      \A j, k \in X : Agree(j, k, c), X # {}, \A k \in X : X # {k}
               PROVE  SubtriesOf(TrieOf(X)) = NodesOf(X)
    <3>1. \A X \in SUBSET Keys : \A k \in X : X = {k} => SubtriesOf(TrieOf(X)) = NodesOf(X)
      BY <1>1
    <3> HIDE DEF N
    <3>2. Good(n + 1) => n + 1 \in N
      BY DEF N
    <3> QED
      BY <1>2, <3>1, <3>2
  <2>1. PICK e : Splits(X, e)
    BY EmptyOneOrSplit
  <2> DEFINE A == Side(X, e, 0)
             B == Side(X, e, 1)
  <2>2. /\ e \in 0 .. Depth - 1 /\ e + 1 \in 0 .. Depth
        /\ A \in SUBSET Keys /\ B \in SUBSET Keys
        /\ \A v : \A j, k \in Side(X, e, v) : Agree(j, k, e + 1)
    BY <2>1, AgreeMore, DepthType DEF Splits, Side
  <2>3. c <= e
    <3>1. PICK j \in A, k \in B : TRUE
      BY <2>1 DEF Splits
    <3>2. Agree(j, k, c) /\ Bit(j, e) # Bit(k, e)
      BY <3>1 DEF Side
    <3> QED
      BY <2>2, <3>2 DEF Agree
  <2>4. (e + 1) + n >= Depth
    BY <2>2, <2>3, DepthType
  <2>5. SubtriesOf(TrieOf(A)) = NodesOf(A) /\ SubtriesOf(TrieOf(B)) = NodesOf(B)
    BY <1>4, <2>2, <2>4
  <2> HIDE DEF A, B
  <2>6. TrieOf(X) = Inner(TrieOf(A), TrieOf(B))
    BY <2>1, TrieOfSplit DEF A, B
  <2>7. TrieOf(X) # None
    BY TrieOfNone
  <2>8. SubtriesOf(TrieOf(X)) = {TrieOf(X)} \cup NodesOf(A) \cup NodesOf(B)
    BY <2>5, <2>6, <2>7, InnerFields DEF SubtriesOf
  <2>9. Blocks(X) = {X} \cup Blocks(A) \cup Blocks(B)
    BY <2>1, BlocksSplit DEF A, B
  <2> QED
    BY <2>8, <2>9 DEF NodesOf
<1> HIDE DEF N
<1>5. Depth \in N
  BY <1>3, <1>4, NumberInduction, DepthType
<1>6. Good(Depth)
  BY <1>5 DEF N
<1>7. 0 \in 0 .. Depth /\ 0 + Depth >= Depth /\ \A j, k \in S : Agree(j, k, 0)
  BY DepthType DEF Agree
<1> QED
  BY <1>6, <1>7

-----------------------------------------------------------------------------
(* The nodes on the way to a key.                                          *)

LEMMA MatchNone ==
  ASSUME NEW S, NEW k
  PROVE  Match(S, k, 0) = S
BY DEF Match, Agree

LEMMA MatchPart ==
  ASSUME NEW S \in SUBSET Keys, NEW k, NEW d
  PROVE  Match(S, k, d) \subseteq S /\ Match(S, k, d) \in SUBSET Keys
BY DEF Match

LEMMA MatchIsBlock ==
  ASSUME NEW S \in SUBSET Keys, NEW k, NEW d \in 0 .. Depth, Match(S, k, d) # {}
  PROVE  Match(S, k, d) \in Blocks(S)
<1>1. PICK j \in Match(S, k, d) : TRUE
  OBVIOUS
<1>2. j \in S /\ Match(S, j, d) = Match(S, k, d)
  BY <1>1 DEF Match, Agree
<1> QED
  BY <1>2 DEF Blocks

LEMMA SideOfMatch ==
  ASSUME NEW S, NEW k, NEW d \in Nat
  PROVE  Side(Match(S, k, d), d, Bit(k, d)) = Match(S, k, d + 1)
BY DEF Match, Side, Agree

(* The node above one on the way to k is on that way as well, and the bit  *)
(* that tells its children apart leads k to the one.                       *)
LEMMA ParentOnTheWay ==
  ASSUME NEW S \in SUBSET Keys, NEW k \in Keys, NEW d \in 0 .. Depth,
         Match(S, k, d) # {}, Match(S, k, d) # S
  PROVE  \E e \in 0 .. d - 1 :
           Match(S, k, e + 1) = Match(S, k, d) /\ Splits(Match(S, k, e), e)
<1> DEFINE B == Match(S, k, d)
           T == {x \in Nat : Match(S, k, x) = B}
<1>1. d \in T /\ T \subseteq Nat /\ d \in Nat
  BY DepthType
<1>2. PICK x \in T : \A y \in T : x <= y
  BY <1>1, LeastNumber
<1>3. x # 0
  BY <1>2, MatchNone
<1> DEFINE e == x - 1
           P == Match(S, k, e)
<1>4. e \in 0 .. d - 1 /\ e \in 0 .. Depth - 1 /\ e \in Nat /\ e + 1 = x
  BY <1>1, <1>2, <1>3, DepthType
<1>5. P # B /\ Match(S, k, e + 1) = B
  BY <1>2, <1>4
<1>6. Side(P, e, Bit(k, e)) = B
  BY <1>4, <1>5, SideOfMatch
<1>7. \A i, j \in P : Agree(i, j, e)
  BY DEF Match, Agree
<1>8. Bit(k, e) \in {0, 1}
  BY <1>4, BitType
<1>9. P = Side(P, e, 0) \cup Side(P, e, 1)
  BY <1>4, MatchPart, SidesPart
<1> HIDE DEF e, P, B
<1>10. Side(P, e, 0) # {} /\ Side(P, e, 1) # {}
  BY <1>5, <1>6, <1>8, <1>9 DEF B
<1>11. Splits(P, e)
  BY <1>4, <1>7, <1>10 DEF Splits
<1> QED
  BY <1>4, <1>5, <1>11 DEF P, B

(* The set with one key more, or one less. *)
Changed(S, k, S2) ==
  \/ k \notin S /\ S2 = S \cup {k}
  \/ k \in S /\ S2 = S \ {k}

LEMMA ChangedKeys ==
  ASSUME NEW S \in SUBSET Keys, NEW k \in Keys, NEW S2, Changed(S, k, S2)
  PROVE  S2 \in SUBSET Keys
BY DEF Changed

LEMMA MatchChanged ==
  ASSUME NEW S, NEW k, NEW S2, Changed(S, k, S2), NEW d
  PROVE  Changed(Match(S, k, d), k, Match(S2, k, d))
<1>1. Agree(k, k, d)
  BY DEF Agree
<1> QED
  BY <1>1 DEF Changed, Match

(* One step up the way to k in both tries: P and P2 are the nodes above B  *)
(* and B2, and O is the other child of both.                               *)
Above(S, k, S2, d, e, P, P2, O) ==
  /\ e \in 0 .. d - 1
  /\ P = Match(S, k, e) /\ P2 = Match(S2, k, e)
  /\ Match(S, k, d) = Side(P, e, Bit(k, e))
  /\ Match(S2, k, d) = Side(P2, e, Bit(k, e))
  /\ O = Side(P, e, 1 - Bit(k, e)) /\ O = Side(P2, e, 1 - Bit(k, e))
  /\ Splits(P, e) /\ Splits(P2, e)

LEMMA OneAbove ==
  ASSUME NEW S \in SUBSET Keys, NEW k \in Keys, NEW S2, Changed(S, k, S2),
         NEW d \in 0 .. Depth,
         Match(S, k, d) # {}, Match(S2, k, d) # {}, Match(S, k, d) # S
  PROVE  \E e, P, P2, O : Above(S, k, S2, d, e, P, P2, O)
<1>1. PICK e \in 0 .. d - 1 :
        Match(S, k, e + 1) = Match(S, k, d) /\ Splits(Match(S, k, e), e)
  BY ParentOnTheWay
<1> DEFINE P == Match(S, k, e)
           P2 == Match(S2, k, e)
           B == Match(S, k, d)
           B2 == Match(S2, k, d)
           v == Bit(k, e)
<1>2. e \in Nat /\ e \in 0 .. Depth - 1 /\ v \in {0, 1} /\ 1 - v \in {0, 1} /\ v # 1 - v
  BY DepthType, BitType
<1>3. /\ Changed(P, k, P2) /\ Changed(B, k, B2)
      /\ Changed(Match(S, k, e + 1), k, Match(S2, k, e + 1))
  BY MatchChanged
<1>4. Match(S2, k, e + 1) = B2
  BY <1>1, <1>3 DEF Changed
<1>5. B = Side(P, e, v) /\ B2 = Side(P2, e, v)
  BY <1>1, <1>2, <1>4, SideOfMatch
<1> HIDE DEF P, P2, B, B2
<1>6. Side(P, e, 1 - v) = Side(P2, e, 1 - v)
  BY <1>2, <1>3 DEF Changed, Side
<1>7. Splits(P, e)
  BY <1>1 DEF P
<1>8. \A i, j \in P2 : Agree(i, j, e)
  BY DEF P2, Match, Agree
<1>9. B2 # {}
  BY DEF B2
<1>10. Side(P, e, 1 - v) # {}
  BY <1>2, <1>7 DEF Splits
<1>11. Side(P2, e, 0) # {} /\ Side(P2, e, 1) # {}
  <2>1. CASE v = 0
    BY <1>5, <1>6, <1>9, <1>10, <2>1
  <2>2. CASE v = 1
    BY <1>5, <1>6, <1>9, <1>10, <2>2
  <2> QED
    BY <1>2, <2>1, <2>2
<1>12. Splits(P2, e)
  BY <1>2, <1>8, <1>11 DEF Splits
<1>13. Above(S, k, S2, d, e, P, P2, Side(P, e, 1 - v))
  BY <1>5, <1>6, <1>7, <1>12 DEF Above, P, P2, B, B2
<1> QED
  BY <1>13

(* What the round of a climb needs of them. *)
LEMMA AboveSets ==
  ASSUME NEW S \in SUBSET Keys, NEW k \in Keys, NEW S2, Changed(S, k, S2),
         NEW d \in 0 .. Depth, Match(S, k, d) # {}, Match(S2, k, d) # {},
         NEW e, NEW P, NEW P2, NEW O, Above(S, k, S2, d, e, P, P2, O)
  PROVE  LET B == Match(S, k, d)
             B2 == Match(S2, k, d)
         IN  /\ e \in 0 .. Depth - 1
             /\ B \in SUBSET Keys /\ B2 \in SUBSET Keys /\ O \in SUBSET Keys
             /\ P \in SUBSET Keys /\ P2 \in SUBSET Keys
             /\ O # {} /\ O \cap B = {} /\ O \cap B2 = {}
             /\ P = B \cup O /\ P2 = B2 \cup O /\ k \notin O
             /\ P # B /\ P2 # B2 /\ P # P2
             /\ P \in Blocks(S) /\ O \in Blocks(S)
             /\ ~ (P \subseteq B) /\ ~ (O \subseteq B)
             /\ Blocks(P) = {P} \cup Blocks(B) \cup Blocks(O)
             /\ Blocks(P2) = {P2} \cup Blocks(B2) \cup Blocks(O)
             /\ CommonBits(P) = e /\ CommonBits(P2) = e
             /\ B2 \in Blocks(S) => B2 \subseteq B
             /\ P2 \in Blocks(S) => P2 \subseteq P
<1> DEFINE B == Match(S, k, d)
           B2 == Match(S2, k, d)
           v == Bit(k, e)
<1>1. /\ e \in 0 .. Depth - 1 /\ e \in 0 .. Depth
      /\ v \in {0, 1} /\ 1 - v \in {0, 1} /\ v # 1 - v
  BY DepthType, BitType DEF Above
<1>2. S2 \in SUBSET Keys
  BY ChangedKeys
<1>3. /\ B \in SUBSET Keys /\ B2 \in SUBSET Keys
      /\ P \in SUBSET Keys /\ P2 \in SUBSET Keys
  BY <1>2, MatchPart DEF Above
<1>4. /\ B = Side(P, e, v) /\ O = Side(P, e, 1 - v) /\ Splits(P, e)
      /\ B2 = Side(P2, e, v) /\ O = Side(P2, e, 1 - v) /\ Splits(P2, e)
      /\ P = Match(S, k, e) /\ P2 = Match(S2, k, e)
  BY DEF Above
<1>5. Changed(P, k, P2)
  BY <1>4, MatchChanged
<1>6. Changed(B, k, B2)
  BY MatchChanged
<1>7. B # {} /\ B2 # {}
  OBVIOUS
<1>16. k \in S => k \in B /\ k \in P
  BY <1>4 DEF Match, Agree
<1> HIDE DEF B, B2
<1>8. /\ O \in SUBSET Keys /\ O # {} /\ O \cap B = {} /\ O \cap B2 = {}
      /\ P = B \cup O /\ P2 = B2 \cup O
  <2>1. O # {}
    BY <1>1, <1>4 DEF Splits
  <2>2. /\ P = Side(P, e, 0) \cup Side(P, e, 1) /\ P2 = Side(P2, e, 0) \cup Side(P2, e, 1)
        /\ Side(P, e, 0) \cap Side(P, e, 1) = {}
        /\ Side(P2, e, 0) \cap Side(P2, e, 1) = {}
    BY <1>1, <1>3, SidesPart
  <2>3. (v = 0 /\ 1 - v = 1) \/ (v = 1 /\ 1 - v = 0)
    BY <1>1
  <2> QED
    BY <1>3, <1>4, <2>1, <2>2, <2>3
<1>9. k \notin O /\ P # P2
  BY <1>1, <1>4, <1>5 DEF Side, Changed
<1>10. /\ Blocks(P) = {P} \cup Blocks(B) \cup Blocks(O)
       /\ Blocks(P2) = {P2} \cup Blocks(B2) \cup Blocks(O)
  <2>1. /\ Blocks(P) = {P} \cup Blocks(Side(P, e, 0)) \cup Blocks(Side(P, e, 1))
        /\ Blocks(P2) = {P2} \cup Blocks(Side(P2, e, 0)) \cup Blocks(Side(P2, e, 1))
    BY <1>3, <1>4, BlocksSplit
  <2>2. (v = 0 /\ 1 - v = 1) \/ (v = 1 /\ 1 - v = 0)
    BY <1>1
  <2> QED
    BY <1>4, <2>1, <2>2
<1>11. P \in Blocks(S)
  BY <1>1, <1>4, <1>7, <1>8, MatchIsBlock
<1>12. O \in Blocks(S)
  <2>1. O \in Blocks(P)
    BY <1>8, <1>10, BlockWhole
  <2> QED
    BY <1>11, <2>1, BlockBlocks
<1>13. CommonBits(P) = e /\ CommonBits(P2) = e
  BY <1>3, <1>4, CommonBitsIs
<1>14. B2 \in Blocks(S) => B2 \subseteq B
  BY <1>6, <1>16, BlockPart DEF Changed
<1>15. P2 \in Blocks(S) => P2 \subseteq P
  BY <1>5, <1>16, BlockPart DEF Changed
<1> QED
  BY <1>1, <1>3, <1>7, <1>8, <1>9, <1>10, <1>11, <1>12, <1>13, <1>14, <1>15 DEF B, B2

-----------------------------------------------------------------------------
(* Records in the storage.                                                 *)

(* A record that can stand for the node X in any trie: its mask and prefix *)
(* are right, whatever node its parent is. *)
Fits(record, X) ==
  /\ record.mask = CommonBits(X)
  /\ record.prefix \in Keys
  /\ \E Z \in SUBSET Keys : record.parent = TrieOf(Z)
  /\ \A k \in X : Similar(record, k)

Fitting(records) ==
  /\ records = [hash \in DOMAIN records |-> records[hash]]
  /\ \A hash \in DOMAIN records :
       \E X \in SUBSET Keys : X # {} /\ hash = TrieOf(X) /\ Fits(records[hash], X)

(* The children of P and of all inner nodes below have their parents. *)
Linked(records, S) ==
  \A P \in Blocks(S), c \in 0 .. Depth - 1, v \in {0, 1} :
    Splits(P, c) => records[TrieOf(Side(P, c, v))].parent = TrieOf(P)

Exact(records, S) ==
  /\ Fitting(records)
  /\ DOMAIN records = NodesOf(S)
  /\ Linked(records, S)
  /\ S # {} => records[TrieOf(S)].parent = None

LEMMA FitsAt ==
  ASSUME NEW records, Fitting(records), NEW X \in SUBSET Keys, TrieOf(X) \in DOMAIN records
  PROVE  X # {} /\ Fits(records[TrieOf(X)], X)
<1>1. PICK Z \in SUBSET Keys : Z # {} /\ TrieOf(X) = TrieOf(Z) /\ Fits(records[TrieOf(X)], Z)
  BY DEF Fitting
<1>2. X = Z
  BY <1>1, TrieInjective
<1> QED
  BY <1>1, <1>2

LEMMA NodeOfBlock ==
  ASSUME NEW S \in SUBSET Keys, NEW X \in SUBSET Keys
  PROVE  TrieOf(X) \in NodesOf(S) <=> X \in Blocks(S)
<1>1. ASSUME TrieOf(X) \in NodesOf(S)
      PROVE  X \in Blocks(S)
  <2>1. PICK Y \in Blocks(S) : TrieOf(X) = TrieOf(Y)
    BY <1>1 DEF NodesOf
  <2>2. Y \in SUBSET Keys
    BY BlockPart
  <2> QED
    BY <2>1, <2>2, TrieInjective
<1> QED
  BY <1>1 DEF NodesOf

LEMMA NoNodeIsNone ==
  ASSUME NEW S \in SUBSET Keys
  PROVE  None \notin NodesOf(S)
<1>1. {} \in SUBSET Keys /\ {} \notin Blocks(S)
  BY BlockPart
<1> QED
  BY <1>1, NodeOfBlock, TrieOfNone

LEMMA CommonBitsType ==
  ASSUME NEW X \in SUBSET Keys, X # {}
  PROVE  /\ CommonBits(X) \in 0 .. Depth
         /\ CommonBits(X) < Depth => Splits(X, CommonBits(X))
         /\ CommonBits(X) = Depth => \E k \in X : X = {k}
         /\ (\A k \in X : X # {k}) => CommonBits(X) \in 0 .. Depth - 1
<1>1. CASE \E k \in X : X = {k}
  <2>1. CommonBits(X) = Depth
    BY <1>1, CommonBitsOne
  <2> QED
    BY <1>1, <2>1, DepthType
<1>2. CASE \A k \in X : X # {k}
  <2>1. PICK c : Splits(X, c)
    BY <1>2, EmptyOneOrSplit
  <2>2. CommonBits(X) = c /\ c \in 0 .. Depth - 1
    BY <2>1, CommonBitsIs DEF Splits
  <2> QED
    BY <2>1, <2>2, DepthType
<1> QED
  BY <1>1, <1>2

(* A record for a larger or smaller set with as many common bits. *)
LEMMA FitsOther ==
  ASSUME NEW X \in SUBSET Keys, NEW Y \in SUBSET Keys, NEW c, Splits(X, c), Splits(Y, c),
         NEW k \in X, k \in Y,
         NEW record, Fits(record, X)
  PROVE  Fits(record, Y)
<1>1. CommonBits(X) = c /\ CommonBits(Y) = c
  BY CommonBitsIs
<1>2. Agree(record.prefix, k, c) /\ \A j \in Y : Agree(k, j, c)
  BY <1>1 DEF Fits, Similar, Splits
<1>3. \A j \in Y : Agree(record.prefix, j, c)
  BY <1>2 DEF Agree
<1> QED
  BY <1>1, <1>3 DEF Fits, Similar

-----------------------------------------------------------------------------
(* What a sequence of writes does, one after the other.                    *)

Moment(records, hash, entry) == [store |-> records, root |-> hash, entry |-> entry]

After(m, write) ==
  Moment(Written(m.store, write),
         CASE write.kind = "root" -> write.hash
           [] write.kind = "clear" -> None
           [] OTHER -> m.root,
         IF write.kind = "clear" THEN 0 ELSE m.entry)

(* The trie that the root entry names can be read. *)
Safe(m) ==
  /\ Fitting(m.store)
  /\ \E S \in SUBSET Keys : m.root = TrieOf(S) /\ NodesOf(S) \subseteq DOMAIN m.store

Foreseen(run, m, writes, G) ==
  /\ run[0] = m /\ Safe(m)
  /\ \A i \in 1 .. Len(writes) :
       /\ run[i] = After(run[i - 1], writes[i])
       /\ Safe(run[i])
       /\ run[i].root \in {run[i - 1].root, TrieOf(G)}

(* The writes lead from m to n: in between every trie can be read, and the *)
(* root entry moves to the trie of G only.                                 *)
Leads(m, writes, n, G) ==
  /\ \E W : writes \in Seq(W)
  /\ \E run : Foreseen(run, m, writes, G) /\ run[Len(writes)] = n

LEMMA MomentFields ==
  ASSUME NEW records, NEW hash, NEW entry
  PROVE  /\ Moment(records, hash, entry).store = records
         /\ Moment(records, hash, entry).root = hash
         /\ Moment(records, hash, entry).entry = entry
BY DEF Moment

LEMMA LeadsNowhere ==
  ASSUME NEW m, Safe(m), NEW G
  PROVE  Leads(m, <<>>, m, G)
<1> DEFINE run == [i \in 0 .. 0 |-> m]
<1>1. run[0] = m /\ Len(<<>>) = 0 /\ <<>> \in Seq({})
  OBVIOUS
<1>2. \A i \in 1 .. Len(<<>>) : FALSE
  BY <1>1
<1> HIDE DEF run
<1>3. Foreseen(run, m, <<>>, G)
  BY <1>1, <1>2 DEF Foreseen
<1> QED
  BY <1>1, <1>3 DEF Leads

LEMMA LeadsSafe ==
  ASSUME NEW m, NEW writes, NEW n, NEW G, Leads(m, writes, n, G)
  PROVE  Safe(n)
<1>1. PICK run : Foreseen(run, m, writes, G) /\ run[Len(writes)] = n
  BY DEF Leads
<1>2. Len(writes) \in Nat
  BY DEF Leads
<1>3. CASE Len(writes) = 0
  BY <1>1, <1>3 DEF Foreseen
<1>4. CASE Len(writes) # 0
  BY <1>1, <1>2, <1>4 DEF Foreseen
<1> QED
  BY <1>3, <1>4

LEMMA LeadsEnd ==
  ASSUME NEW m, NEW n, NEW G, Leads(m, <<>>, n, G)
  PROVE  m = n
BY DEF Leads, Foreseen

LEMMA LeadsOne ==
  ASSUME NEW m, NEW writes, NEW n, NEW G, Leads(m, writes, n, G),
         NEW write, NEW next, next = After(n, write), Safe(next),
         next.root \in {n.root, TrieOf(G)}
  PROVE  Leads(m, Append(writes, write), next, G)
<1>1. PICK run : Foreseen(run, m, writes, G) /\ run[Len(writes)] = n
  BY DEF Leads
<1>2. PICK W : writes \in Seq(W)
  BY DEF Leads
<1> DEFINE l == Len(writes)
           more == Append(writes, write)
           longer == [i \in 0 .. l + 1 |-> IF i = l + 1 THEN next ELSE run[i]]
<1>3. writes \in Seq(W \cup {write})
  BY <1>2
<1>4. /\ more \in Seq(W \cup {write}) /\ Len(more) = l + 1 /\ l \in Nat
      /\ more[l + 1] = write /\ \A i \in 1 .. l : more[i] = writes[i]
  BY <1>3
<1> HIDE DEF more
<1>5. \A i \in 0 .. l : longer[i] = run[i]
  BY <1>4
<1>6. longer[l + 1] = next
  BY <1>4
<1> HIDE DEF longer
<1>7. longer[0] = m /\ Safe(m)
  BY <1>1, <1>4, <1>5 DEF Foreseen
<1>8. ASSUME NEW i \in 1 .. l + 1
      PROVE  /\ longer[i] = After(longer[i - 1], more[i])
             /\ Safe(longer[i])
             /\ longer[i].root \in {longer[i - 1].root, TrieOf(G)}
  <2>1. CASE i = l + 1
    <3>1. longer[i - 1] = n
      BY <1>1, <1>4, <1>5, <2>1
    <3> QED
      BY <1>4, <1>6, <2>1, <3>1
  <2>2. CASE i # l + 1
    <3>1. i \in 1 .. l /\ i \in 0 .. l /\ i - 1 \in 0 .. l
      BY <1>4, <2>2
    <3>2. longer[i] = run[i] /\ longer[i - 1] = run[i - 1] /\ more[i] = writes[i]
      BY <1>4, <1>5, <3>1
    <3> QED
      BY <1>1, <3>1, <3>2 DEF Foreseen
  <2> QED
    BY <2>1, <2>2
<1>9. Foreseen(longer, m, more, G)
  BY <1>4, <1>7, <1>8 DEF Foreseen
<1>10. longer[Len(more)] = next
  BY <1>4, <1>6
<1> QED
  BY <1>4, <1>9, <1>10 DEF Leads, more

(* The first write is made. *)
LEMMA LeadsStep ==
  ASSUME NEW m, NEW writes, NEW n, NEW G, Leads(m, writes, n, G), writes # <<>>
  PROVE  /\ Leads(After(m, Head(writes)), Tail(writes), n, G)
         /\ Safe(After(m, Head(writes)))
         /\ After(m, Head(writes)).root \in {m.root, TrieOf(G)}
<1>1. PICK run : Foreseen(run, m, writes, G) /\ run[Len(writes)] = n
  BY DEF Leads
<1>2. PICK W : writes \in Seq(W)
  BY DEF Leads
<1> DEFINE l == Len(writes)
           rest == Tail(writes)
           shorter == [i \in 0 .. l - 1 |-> run[i + 1]]
<1>3. /\ rest \in Seq(W) /\ Len(rest) = l - 1 /\ l \in Nat \ {0}
      /\ Head(writes) = writes[1] /\ \A i \in 1 .. l - 1 : rest[i] = writes[i + 1]
  BY <1>2
<1> HIDE DEF rest
<1>4. \A i \in 0 .. l - 1 : shorter[i] = run[i + 1]
  OBVIOUS
<1> HIDE DEF shorter
<1>5. /\ run[1] = After(m, writes[1]) /\ Safe(run[1])
      /\ run[1].root \in {m.root, TrieOf(G)}
  <2>1. 1 \in 1 .. l /\ 1 - 1 = 0
    BY <1>3
  <2> QED
    BY <1>1, <2>1 DEF Foreseen
<1>6. shorter[0] = run[1]
  BY <1>3, <1>4
<1>7. ASSUME NEW i \in 1 .. l - 1
      PROVE  /\ shorter[i] = After(shorter[i - 1], rest[i])
             /\ Safe(shorter[i])
             /\ shorter[i].root \in {shorter[i - 1].root, TrieOf(G)}
  <2>1. /\ i \in 0 .. l - 1 /\ i - 1 \in 0 .. l - 1 /\ i + 1 \in 1 .. l
        /\ (i - 1) + 1 = i /\ (i + 1) - 1 = i
    BY <1>3
  <2>2. shorter[i] = run[i + 1] /\ shorter[i - 1] = run[i] /\ rest[i] = writes[i + 1]
    BY <1>3, <1>4, <2>1
  <2> QED
    BY <1>1, <2>1, <2>2 DEF Foreseen
<1>8. Foreseen(shorter, run[1], rest, G)
  BY <1>3, <1>5, <1>6, <1>7 DEF Foreseen
<1>9. shorter[Len(rest)] = n
  BY <1>1, <1>3, <1>4
<1> QED
  BY <1>3, <1>5, <1>8, <1>9 DEF Leads, rest

LEMMA FittingFewer ==
  ASSUME NEW records, Fitting(records), NEW D
  PROVE  Fitting([hash \in DOMAIN records \ D |-> records[hash]])
BY DEF Fitting

LEMMA FittingNothing == Fitting(<<>>)
<1>1. DOMAIN <<>> = {}
  OBVIOUS
<1>2. <<>> = [hash \in {} |-> <<>>[hash]]
  OBVIOUS
<1> QED
  BY <1>1, <1>2 DEF Fitting

LEMMA LeadsDeletes ==
  ASSUME NEW records, NEW hash, NEW entry, NEW m, NEW writes, NEW G,
         Leads(m, writes, Moment(records, hash, entry), G),
         NEW R \in SUBSET Keys, hash = TrieOf(R), NodesOf(R) \subseteq DOMAIN records,
         NEW H, NEW hashes \in Seq(H), Range(hashes) \cap NodesOf(R) = {},
         NEW dels, dels = [i \in DOMAIN hashes |-> DelWrite(hashes[i])],
         NEW left, left = [h \in DOMAIN records \ Range(hashes) |-> records[h]]
  PROVE  Leads(m, writes \o dels, Moment(left, hash, entry), G)
<1>1. PICK run : /\ Foreseen(run, m, writes, G)
                 /\ run[Len(writes)] = Moment(records, hash, entry)
  BY DEF Leads
<1>2. PICK W : writes \in Seq(W)
  BY DEF Leads
<1>3. Fitting(records)
  BY LeadsSafe, MomentFields DEF Safe
<1> DEFINE l == Len(writes)
           p == Len(hashes)
           V == W \cup {DelWrite(h) : h \in H}
           more == writes \o dels
           Left(i) == [h \in DOMAIN records \ {hashes[j] : j \in 1 .. i} |-> records[h]]
           longer == [i \in 0 .. l + p |-> IF i <= l THEN run[i]
                                           ELSE Moment(Left(i - l), hash, entry)]
<1>4. /\ DOMAIN hashes = 1 .. p /\ p \in Nat /\ l \in Nat
      /\ \A i \in 1 .. p : hashes[i] \in H
  BY <1>2
<1>5. dels \in Seq(V) /\ Len(dels) = p /\ \A i \in 1 .. p : dels[i] = DelWrite(hashes[i])
  BY <1>4
<1>6. writes \in Seq(V)
  BY <1>2
<1> HIDE DEF V
<1>7. /\ more \in Seq(V) /\ Len(more) = l + p
      /\ \A i \in 1 .. l : more[i] = writes[i]
      /\ \A i \in 1 .. p : more[l + i] = DelWrite(hashes[i])
  BY <1>4, <1>5, <1>6
<1> HIDE DEF more
<1>8. \A i \in 0 .. l : longer[i] = run[i]
  BY <1>4
<1>9. \A i \in l + 1 .. l + p : longer[i] = Moment(Left(i - l), hash, entry)
  BY <1>4
<1> HIDE DEF longer
<1>10. longer[0] = m /\ Safe(m)
  BY <1>1, <1>4, <1>8 DEF Foreseen
<1>11. ASSUME NEW i \in 1 .. p
       PROVE  /\ Safe(Moment(Left(i), hash, entry))
              /\ Written(Left(i - 1), DelWrite(hashes[i])) = Left(i)
  <2>1. Fitting(Left(i))
    BY <1>3, FittingFewer
  <2>2. \A j \in 1 .. i : hashes[j] \in Range(hashes)
    BY <1>4 DEF Range
  <2>3. NodesOf(R) \subseteq DOMAIN Left(i)
    BY <2>2
  <2>4. DelWrite(hashes[i]).kind = "del" /\ DelWrite(hashes[i]).hash = hashes[i]
    BY DEF DelWrite
  <2>5. Written(Left(i - 1), DelWrite(hashes[i]))
          = [h \in DOMAIN Left(i - 1) \ {hashes[i]} |-> Left(i - 1)[h]]
    BY <2>4 DEF Written
  <2>6. {hashes[j] : j \in 1 .. i} = {hashes[j] : j \in 1 .. i - 1} \cup {hashes[i]}
    OBVIOUS
  <2>7. DOMAIN Left(i - 1) \ {hashes[i]} = DOMAIN Left(i)
    BY <2>6
  <2>8. \A h \in DOMAIN Left(i) : Left(i - 1)[h] = Left(i)[h]
    BY <2>7
  <2>9. Written(Left(i - 1), DelWrite(hashes[i])) = Left(i)
    BY <2>5, <2>7, <2>8
  <2> HIDE DEF Left
  <2> QED
    BY <2>1, <2>3, <2>9, MomentFields DEF Safe
<1>12. Left(0) = records
  <2>1. {hashes[j] : j \in 1 .. 0} = {}
    OBVIOUS
  <2> QED
    BY <1>3, <2>1 DEF Fitting
<1> HIDE DEF Left
<1>13. ASSUME NEW i \in 1 .. l + p
       PROVE  /\ longer[i] = After(longer[i - 1], more[i])
              /\ Safe(longer[i])
              /\ longer[i].root \in {longer[i - 1].root, TrieOf(G)}
  <2>1. CASE i \in 1 .. l
    <3>1. i \in 0 .. l /\ i - 1 \in 0 .. l
      BY <1>4, <2>1
    <3>2. longer[i] = run[i] /\ longer[i - 1] = run[i - 1] /\ more[i] = writes[i]
      BY <1>7, <1>8, <2>1, <3>1
    <3> QED
      BY <1>1, <2>1, <3>2 DEF Foreseen
  <2>2. CASE i \notin 1 .. l
    <3> DEFINE j == i - l
    <3>1. j \in 1 .. p /\ i \in l + 1 .. l + p /\ i = l + j /\ (i - 1) - l = j - 1
      BY <1>4, <2>2
    <3>2. longer[i] = Moment(Left(j), hash, entry) /\ more[i] = DelWrite(hashes[j])
      BY <1>7, <1>9, <3>1
    <3>3. longer[i - 1] = Moment(Left(j - 1), hash, entry)
      <4>1. CASE j = 1
        <5>1. i - 1 = l /\ l \in 0 .. l
          BY <1>4, <3>1, <4>1
        <5> QED
          BY <1>1, <1>8, <1>12, <4>1, <5>1
      <4>2. CASE j # 1
        <5>1. i - 1 \in l + 1 .. l + p
          BY <1>4, <3>1, <4>2
        <5> QED
          BY <1>9, <3>1, <5>1
      <4> QED
        BY <4>1, <4>2
    <3> HIDE DEF j
    <3>4. DelWrite(hashes[j]).kind = "del"
      BY DEF DelWrite
    <3>5. After(longer[i - 1], more[i]) = longer[i]
      BY <1>11, <3>1, <3>2, <3>3, <3>4, MomentFields DEF After
    <3> QED
      BY <1>11, <3>1, <3>2, <3>3, <3>5, MomentFields
  <2> QED
    BY <2>1, <2>2
<1>14. Foreseen(longer, m, more, G)
  BY <1>7, <1>10, <1>13 DEF Foreseen
<1>15. Range(hashes) = {hashes[j] : j \in 1 .. p}
  BY <1>4 DEF Range
<1>16. longer[Len(more)] = Moment(Left(p), hash, entry)
  <2>1. CASE p = 0
    BY <1>1, <1>4, <1>7, <1>8, <1>12, <2>1
  <2>2. CASE p # 0
    <3>1. l + p \in l + 1 .. l + p /\ (l + p) - l = p
      BY <1>4, <2>2
    <3> QED
      BY <1>7, <1>9, <3>1
  <2> QED
    BY <2>1, <2>2
<1>17. left = Left(p)
  BY <1>15 DEF Left
<1> QED
  BY <1>7, <1>14, <1>16, <1>17 DEF Leads, more

-----------------------------------------------------------------------------
(* An operation that has gone well so far: its writes lead from the        *)
(* storage as it is to the storage as the operation sees it.               *)
Here == Moment(store, root, triesize)

Doing(op, hash, G) ==
  /\ op = [store |-> op.store, writes |-> op.writes, end |-> "ok"]
  /\ Leads(Here, op.writes, Moment(op.store, hash, triesize), G)

LEMMA DoingEnd ==
  ASSUME NEW op, NEW hash, NEW G, Doing(op, hash, G)
  PROVE  op.end = "ok" /\ Fitting(op.store)
<1>1. op.end = "ok"
  BY DEF Doing
<1> QED
  BY <1>1, LeadsSafe, MomentFields DEF Doing, Safe

LEMMA DoingStarted ==
  ASSUME Safe(Here), NEW G
  PROVE  Doing(Started, root, G) /\ Started.store = store
BY LeadsNowhere DEF Started, Doing, Here

(* The records with one more, or another one, at hash. *)
Put(records, hash, record, new) ==
  /\ DOMAIN new = DOMAIN records \cup {hash}
  /\ new[hash].parent = record.parent
  /\ \A h \in DOMAIN records : h # hash => new[h] = records[h]

LEMMA DoingPut ==
  ASSUME NEW op, NEW hash, NEW G, Doing(op, hash, G),
         NEW X \in SUBSET Keys, X # {},
         NEW node, node.hash = TrieOf(X), Fits(node, X)
  PROVE  /\ Doing(ToDb(op, node), hash, G)
         /\ Put(op.store, TrieOf(X), node, ToDb(op, node).store)
<1> DEFINE write == PutWrite(node)
           new == Written(op.store, write)
           op2 == ToDb(op, node)
<1>1. /\ write.kind = "put" /\ write.hash = TrieOf(X)
      /\ write.record.mask = node.mask /\ write.record.prefix = node.prefix
      /\ write.record.parent = node.parent
  BY DEF PutWrite
<1>2. Fits(write.record, X)
  BY <1>1 DEF Fits, Similar
<1>3. op2 = [store |-> new, writes |-> Append(op.writes, write), end |-> "ok"]
  <2> DEFINE done == [store |-> op.store, writes |-> Append(op.writes, write), end |-> "ok"]
  <2>1. Does(op, write) = done
    BY DEF Doing, Does
  <2>2. op2 = [done EXCEPT !.store = Written(@, write)]
    BY <2>1 DEF ToDb
  <2> HIDE DEF write
  <2> QED
    BY <2>2
<1> HIDE DEF write, op2
<1>4. new = [h \in DOMAIN op.store \cup {TrieOf(X)} |->
               IF h = TrieOf(X) THEN write.record ELSE op.store[h]]
  BY <1>1 DEF Written
<1>5. Fitting(new)
  <2>1. Fitting(op.store)
    BY DoingEnd
  <2> QED
    BY <1>2, <1>4, <2>1 DEF Fitting
<1>6. Put(op.store, TrieOf(X), node, new)
  BY <1>1, <1>4 DEF Put
<1>7. After(Moment(op.store, hash, triesize), write) = Moment(new, hash, triesize)
  BY <1>1, MomentFields DEF After
<1>8. Safe(Moment(new, hash, triesize))
  <2>1. Safe(Moment(op.store, hash, triesize))
    BY LeadsSafe DEF Doing
  <2>2. DOMAIN op.store \subseteq DOMAIN new
    BY <1>4
  <2> HIDE DEF new
  <2> QED
    BY <1>5, <2>1, <2>2, MomentFields DEF Safe
<1> HIDE DEF new
<1>9. Leads(Here, Append(op.writes, write), Moment(new, hash, triesize), G)
  BY <1>7, <1>8, LeadsOne, MomentFields DEF Doing
<1>10. Doing(op2, hash, G)
  BY <1>3, <1>9 DEF Doing
<1> QED
  BY <1>3, <1>6, <1>10 DEF op2

LEMMA DoingRoot ==
  ASSUME NEW op, NEW hash, NEW G \in SUBSET Keys, Doing(op, hash, G),
         NodesOf(G) \subseteq DOMAIN op.store
  PROVE  /\ Doing(SetRoot(op, TrieOf(G)), TrieOf(G), G)
         /\ SetRoot(op, TrieOf(G)).store = op.store
<1> DEFINE write == RootWrite(TrieOf(G))
           op2 == SetRoot(op, TrieOf(G))
           next == Moment(op.store, TrieOf(G), triesize)
<1>1. write.kind = "root" /\ write.hash = TrieOf(G)
  BY DEF RootWrite
<1>2. op2 = [store |-> op.store, writes |-> Append(op.writes, write), end |-> "ok"]
  BY DEF Doing, SetRoot, Does
<1> HIDE DEF write, op2
<1>3. After(Moment(op.store, hash, triesize), write) = next
  BY <1>1, MomentFields DEF After, Written
<1>4. Safe(next)
  BY DoingEnd, MomentFields DEF Safe
<1>5. next.root = TrieOf(G)
  BY MomentFields
<1> HIDE DEF next
<1>6. Leads(Here, Append(op.writes, write), next, G)
  BY <1>3, <1>4, <1>5, LeadsOne DEF Doing
<1> QED
  BY <1>2, <1>6 DEF Doing, op2, next

LEMMA DoingDelete ==
  ASSUME NEW op, NEW G \in SUBSET Keys, Doing(op, TrieOf(G), G),
         NodesOf(G) \subseteq DOMAIN op.store,
         NEW H, NEW hashes \in Seq(H), Range(hashes) \cap NodesOf(G) = {}
  PROVE  /\ Doing(DeleteFromDb(op, hashes), TrieOf(G), G)
         /\ DOMAIN DeleteFromDb(op, hashes).store = DOMAIN op.store \ Range(hashes)
         /\ \A h \in DOMAIN op.store \ Range(hashes) :
              DeleteFromDb(op, hashes).store[h] = op.store[h]
<1> DEFINE new == [h \in DOMAIN op.store \ Range(hashes) |-> op.store[h]]
           dels == [i \in DOMAIN hashes |-> DelWrite(hashes[i])]
           more == op.writes \o dels
           op2 == DeleteFromDb(op, hashes)
<1>1. op2 = [store |-> new, writes |-> more, end |-> "ok"]
  <2>1. PICK st, wr : op = [store |-> st, writes |-> wr, end |-> "ok"]
    BY DEF Doing
  <2>2. op2 = [op EXCEPT !.store = new, !.writes = more]
    BY DEF DeleteFromDb
  <2> HIDE DEF new, more, op2
  <2> QED
    BY <2>1, <2>2
<1>2. Leads(Here, more, Moment(new, TrieOf(G), triesize), G)
  <2> DEFINE hash == TrieOf(G)
  <2>1. Leads(Here, op.writes, Moment(op.store, hash, triesize), G)
    BY DEF Doing
  <2>2. hash = TrieOf(G)
    OBVIOUS
  <2>3. dels = [i \in DOMAIN hashes |-> DelWrite(hashes[i])]
    OBVIOUS
  <2>4. new = [h \in DOMAIN op.store \ Range(hashes) |-> op.store[h]]
    OBVIOUS
  <2> HIDE DEF hash, new, dels
  <2>5. Leads(Here, more, Moment(new, hash, triesize), G)
    BY <2>1, <2>2, <2>3, <2>4, LeadsDeletes
  <2> QED
    BY <2>5 DEF hash
<1>3. /\ DOMAIN new = DOMAIN op.store \ Range(hashes)
      /\ \A h \in DOMAIN op.store \ Range(hashes) : new[h] = op.store[h]
  OBVIOUS
<1> HIDE DEF new, more, op2
<1> QED
  BY <1>1, <1>2, <1>3 DEF Doing, op2, new

-----------------------------------------------------------------------------
(* Climbing from one node to the next on the way to k: the trie of S is    *)
(* stored as it was, but for the parents below B, and the nodes below B2   *)
(* are stored as they will be in the trie of S2.                           *)

Reached(climb, S, k, S2, d) ==
  LET B == Match(S, k, d)
      B2 == Match(S2, k, d)
      records == climb.op.store
  IN
  /\ d \in 0 .. Depth /\ B # {} /\ B2 # {}
  /\ climb = Climb(climb.op, climb.oldchild, climb.child, climb.replaced)
  /\ climb.child = Node(climb.child.hash, climb.child.mask, climb.child.prefix,
                        climb.child.parent)
  /\ Doing(climb.op, root, S2)
  /\ climb.oldchild.hash = TrieOf(B) /\ climb.oldchild.parent = store[TrieOf(B)].parent
  /\ climb.child.hash = TrieOf(B2) /\ Fits(climb.child, B2)
  /\ B = S => TrieOf(S2) \in DOMAIN records /\ records[TrieOf(S2)].parent = None
  /\ \A X \in Blocks(B2) : X # B2 => TrieOf(X) \in DOMAIN records
  /\ Linked(records, B2)
  /\ \A X \in Blocks(S) : ~ (X \subseteq B) => records[TrieOf(X)] = store[TrieOf(X)]
  /\ NodesOf(S) \subseteq DOMAIN records
  /\ DOMAIN records \subseteq NodesOf(S) \cup NodesOf(B2)
  /\ climb.replaced \in Seq(NodesOf(S))
  /\ Range(climb.replaced) = {TrieOf(X) : X \in Blocks(B) \ Blocks(B2)}

LEMMA SideIsBlock ==
  ASSUME NEW Q \in SUBSET Keys, NEW c \in 0 .. Depth - 1, Splits(Q, c), NEW v \in {0, 1}
  PROVE  /\ Side(Q, c, v) \in Blocks(Q) /\ Side(Q, c, v) # Q
         /\ Side(Q, c, v) \in SUBSET Keys /\ Side(Q, c, v) # {}
<1>1. Side(Q, c, 0) # {} /\ Side(Q, c, 1) # {}
  BY DEF Splits
<1>2. Side(Q, c, v) # {} /\ Side(Q, c, v) # Q /\ Side(Q, c, v) \in SUBSET Keys
  BY <1>1 DEF Side
<1>3. Side(Q, c, v) \in Blocks(Side(Q, c, v))
  BY <1>2, BlockWhole
<1> QED
  BY <1>2, <1>3, BlocksSplit

LEMMA SplitOnce ==
  ASSUME NEW Q \in SUBSET Keys, NEW c, NEW e, Splits(Q, c), Splits(Q, e)
  PROVE  c = e
BY CommonBitsIs

LEMMA AppendRange ==
  ASSUME NEW T, NEW s \in Seq(T), NEW x \in T
  PROVE  Append(s, x) \in Seq(T) /\ Range(Append(s, x)) = Range(s) \cup {x}
<1>1. /\ Append(s, x) \in Seq(T) /\ Len(Append(s, x)) = Len(s) + 1 /\ Len(s) \in Nat
      /\ Append(s, x)[Len(s) + 1] = x /\ \A i \in 1 .. Len(s) : Append(s, x)[i] = s[i]
  OBVIOUS
<1>2. DOMAIN s = 1 .. Len(s) /\ DOMAIN Append(s, x) = 1 .. Len(s) + 1
  BY <1>1
<1> DEFINE more == Append(s, x)
<1> HIDE DEF more
<1>3. \A y \in Range(more) : y \in Range(s) \cup {x}
  <2> SUFFICES ASSUME NEW i \in 1 .. Len(s) + 1 PROVE more[i] \in Range(s) \cup {x}
    BY <1>2 DEF Range, more
  <2>1. CASE i \in 1 .. Len(s)
    BY <1>1, <1>2, <2>1 DEF Range, more
  <2>2. CASE i \notin 1 .. Len(s)
    <3>1. i = Len(s) + 1
      BY <1>1, <2>2
    <3> QED
      BY <1>1, <3>1 DEF more
  <2> QED
    BY <2>1, <2>2
<1>4. Range(s) \subseteq Range(more)
  BY <1>1, <1>2 DEF Range, more
<1>5. x \in Range(more)
  BY <1>1, <1>2 DEF Range, more
<1> QED
  BY <1>1, <1>3, <1>4, <1>5 DEF more

(* What the three records written in a round change. *)
Raised(old, new, O, B2, P2, above) ==
  /\ DOMAIN new = DOMAIN old \cup {TrieOf(O), TrieOf(B2), TrieOf(P2)}
  /\ new[TrieOf(O)].parent = TrieOf(P2)
  /\ new[TrieOf(B2)].parent = TrieOf(P2)
  /\ new[TrieOf(P2)].parent = above
  /\ \A h \in DOMAIN old :
       h # TrieOf(O) /\ h # TrieOf(B2) /\ h # TrieOf(P2) => new[h] = old[h]

LEMMA RoundDone ==
  ASSUME NEW S \in SUBSET Keys, Exact(store, S), NEW k \in Keys, NEW S2, Changed(S, k, S2),
         NEW d \in 0 .. Depth, NEW climb, Reached(climb, S, k, S2, d),
         NEW e, NEW P, NEW P2, NEW O, Above(S, k, S2, d, e, P, P2, O),
         NEW op, Doing(op, root, S2),
         Raised(climb.op.store, op.store, O, Match(S2, k, d), P2, store[TrieOf(P)].parent),
         NEW oldparent, oldparent.hash = TrieOf(P),
         oldparent.parent = store[TrieOf(P)].parent,
         NEW parent, parent.hash = TrieOf(P2), Fits(parent, P2),
         parent = Node(parent.hash, parent.mask, parent.prefix, parent.parent)
  PROVE  Reached(Climb(op, oldparent, parent, Append(climb.replaced, TrieOf(P))),
                 S, k, S2, e)
<1> DEFINE B == Match(S, k, d)
           B2 == Match(S2, k, d)
           v == Bit(k, e)
           old == climb.op.store
           new == op.store
           replaced == Append(climb.replaced, TrieOf(P))
<1>1. B # {} /\ B2 # {}
  BY DEF Reached
<1>2. /\ e \in 0 .. Depth - 1
      /\ B \in SUBSET Keys /\ B2 \in SUBSET Keys /\ O \in SUBSET Keys
      /\ P \in SUBSET Keys /\ P2 \in SUBSET Keys
      /\ O # {} /\ O \cap B = {} /\ O \cap B2 = {}
      /\ P = B \cup O /\ P2 = B2 \cup O /\ k \notin O
      /\ P # B /\ P2 # B2 /\ P # P2
  <2>1. /\ e \in 0 .. Depth - 1
        /\ B \in SUBSET Keys /\ B2 \in SUBSET Keys /\ O \in SUBSET Keys
        /\ P \in SUBSET Keys /\ P2 \in SUBSET Keys
    BY <1>1, AboveSets
  <2>2. /\ O # {} /\ O \cap B = {} /\ O \cap B2 = {}
        /\ P = B \cup O /\ P2 = B2 \cup O /\ k \notin O
    BY <1>1, AboveSets
  <2>3. P # B /\ P2 # B2
    BY <2>2
  <2>4. Changed(P, k, P2)
    BY MatchChanged DEF Above
  <2>5. P # P2
    BY <2>4 DEF Changed
  <2> QED
    BY <2>1, <2>2, <2>3, <2>5
<1>3. /\ P \in Blocks(S) /\ O \in Blocks(S)
      /\ ~ (P \subseteq B) /\ ~ (O \subseteq B)
      /\ Blocks(P) = {P} \cup Blocks(B) \cup Blocks(O)
      /\ Blocks(P2) = {P2} \cup Blocks(B2) \cup Blocks(O)
      /\ B2 \in Blocks(S) => B2 \subseteq B
      /\ P2 \in Blocks(S) => P2 \subseteq P
  BY <1>1, AboveSets
<1>4. /\ P = Match(S, k, e) /\ P2 = Match(S2, k, e) /\ Splits(P2, e)
      /\ B = Side(P, e, v) /\ B2 = Side(P2, e, v) /\ O = Side(P2, e, 1 - v)
  BY DEF Above
<1>5. v \in {0, 1} /\ 1 - v \in {0, 1} /\ \A u \in {0, 1} : u = v \/ u = 1 - v
  BY <1>2, BitType
<1>6. S2 \in SUBSET Keys
  BY ChangedKeys
<1>7. Changed(P, k, P2)
  BY <1>4, MatchChanged
<1>8. /\ \A X \in Blocks(B2) : X # B2 => TrieOf(X) \in DOMAIN old
      /\ Linked(old, B2)
      /\ \A X \in Blocks(S) : ~ (X \subseteq B) => old[TrieOf(X)] = store[TrieOf(X)]
      /\ NodesOf(S) \subseteq DOMAIN old
      /\ DOMAIN old \subseteq NodesOf(S) \cup NodesOf(B2)
      /\ climb.replaced \in Seq(NodesOf(S))
      /\ Range(climb.replaced) = {TrieOf(X) : X \in Blocks(B) \ Blocks(B2)}
  BY DEF Reached
<1>9. /\ DOMAIN new = DOMAIN old \cup {TrieOf(O), TrieOf(B2), TrieOf(P2)}
      /\ new[TrieOf(O)].parent = TrieOf(P2)
      /\ new[TrieOf(B2)].parent = TrieOf(P2)
      /\ new[TrieOf(P2)].parent = store[TrieOf(P)].parent
      /\ \A h \in DOMAIN old :
           h # TrieOf(O) /\ h # TrieOf(B2) /\ h # TrieOf(P2) => new[h] = old[h]
  BY DEF Raised
<1> HIDE DEF B, B2, old, new, v
<1>10. \A X \in SUBSET Keys : X # O /\ X # B2 /\ X # P2 /\ TrieOf(X) \in DOMAIN old
          => new[TrieOf(X)] = old[TrieOf(X)]
  BY <1>2, <1>9, TrieInjective
<1>11. Blocks(O) \subseteq Blocks(S)
  BY <1>3, BlockBlocks
<1>12. P = S => TrieOf(S2) \in DOMAIN new /\ new[TrieOf(S2)].parent = None
  <2> SUFFICES ASSUME P = S PROVE TrieOf(S2) \in DOMAIN new /\ new[TrieOf(S2)].parent = None
    OBVIOUS
  <2>1. P2 = S2
    BY <1>7 DEF Changed
  <2>2. store[TrieOf(P)].parent = None
    BY <1>2 DEF Exact
  <2> QED
    BY <1>9, <2>1, <2>2
<1>13. \A X \in Blocks(P2) : X # P2 => TrieOf(X) \in DOMAIN new
  <2> SUFFICES ASSUME NEW X \in Blocks(P2), X # P2 PROVE TrieOf(X) \in DOMAIN new
    OBVIOUS
  <2>1. CASE X \in Blocks(B2)
    BY <1>8, <1>9, <2>1
  <2>2. CASE X \in Blocks(O)
    BY <1>8, <1>9, <1>11, <2>2 DEF NodesOf
  <2> QED
    BY <1>3, <2>1, <2>2
<1>14. Linked(new, P2)
  <2> SUFFICES ASSUME NEW Q \in Blocks(P2), NEW c \in 0 .. Depth - 1, NEW u \in {0, 1},
                      Splits(Q, c)
               PROVE  new[TrieOf(Side(Q, c, u))].parent = TrieOf(Q)
    BY DEF Linked
  <2> DEFINE X == Side(Q, c, u)
  <2>1. Q \in SUBSET Keys /\ Q # {}
    BY <1>2, BlockPart
  <2>2. X \in Blocks(Q) /\ X # Q /\ X \in SUBSET Keys /\ X # {} /\ X \subseteq Q
    BY <2>1, SideIsBlock, BlockPart
  <2>3. CASE Q = P2
    <3>1. c = e
      BY <1>4, <2>1, <2>3, SplitOnce
    <3>2. X = B2 \/ X = O
      BY <1>4, <1>5, <2>3, <3>1
    <3> QED
      BY <1>9, <2>3, <3>2
  <2>4. CASE Q \in Blocks(B2)
    <3>1. Q \subseteq B2 /\ X \in Blocks(B2)
      BY <2>2, <2>4, BlockPart, BlockBlocks
    <3>2. X # B2 /\ X # O /\ X # P2
      BY <1>2, <2>2, <3>1
    <3>3. TrieOf(X) \in DOMAIN old
      BY <1>8, <3>1, <3>2
    <3>4. new[TrieOf(X)] = old[TrieOf(X)]
      BY <1>10, <2>2, <3>2, <3>3
    <3> QED
      BY <1>8, <2>4, <3>4 DEF Linked
  <2>5. CASE Q \in Blocks(O)
    <3>1. Q \subseteq O /\ X \in Blocks(O) /\ Q \in Blocks(S) /\ X \in Blocks(S)
      BY <1>11, <2>2, <2>5, BlockPart, BlockBlocks
    <3>2. X # B2 /\ X # O /\ X # P2 /\ ~ (X \subseteq B)
      BY <1>2, <2>2, <3>1
    <3>3. TrieOf(X) \in DOMAIN old
      BY <1>8, <3>1 DEF NodesOf
    <3>4. new[TrieOf(X)] = store[TrieOf(X)]
      BY <1>8, <1>10, <2>2, <3>1, <3>2, <3>3
    <3>5. Linked(store, S)
      BY DEF Exact
    <3> QED
      BY <3>1, <3>4, <3>5 DEF Linked
  <2> QED
    BY <1>3, <2>3, <2>4, <2>5
<1>15. \A X \in Blocks(S) : ~ (X \subseteq P) => new[TrieOf(X)] = store[TrieOf(X)]
  <2> SUFFICES ASSUME NEW X \in Blocks(S), ~ (X \subseteq P)
               PROVE  new[TrieOf(X)] = store[TrieOf(X)]
    OBVIOUS
  <2>1. X \in SUBSET Keys /\ TrieOf(X) \in DOMAIN old
    BY <1>8, BlockPart DEF NodesOf
  <2>2. X # O /\ X # B2 /\ X # P2 /\ ~ (X \subseteq B)
    BY <1>2, <1>3
  <2> QED
    BY <1>8, <1>10, <2>1, <2>2
<1>16. NodesOf(S) \subseteq DOMAIN new
  BY <1>8, <1>9
<1>17. DOMAIN new \subseteq NodesOf(S) \cup NodesOf(P2)
  <2>1. B2 \in Blocks(P2) /\ P2 \in Blocks(P2)
    BY <1>1, <1>3, BlockWhole DEF B2
  <2>2. NodesOf(B2) \subseteq NodesOf(P2)
    BY <1>3 DEF NodesOf
  <2>3. TrieOf(B2) \in NodesOf(P2) /\ TrieOf(P2) \in NodesOf(P2) /\ TrieOf(O) \in NodesOf(S)
    BY <1>3, <2>1 DEF NodesOf
  <2> QED
    BY <1>8, <1>9, <2>2, <2>3
<1>18. TrieOf(P) \in NodesOf(S)
  BY <1>3 DEF NodesOf
<1>19. Blocks(P) \ Blocks(P2) = {P} \cup (Blocks(B) \ Blocks(B2))
  <2>1. P \notin Blocks(P2)
    <3>1. ~ (P \subseteq B2) /\ ~ (P \subseteq O) /\ P # P2
      BY <1>1, <1>2 DEF B
    <3> QED
      BY <1>3, <3>1, BlockPart
  <2>2. \A X \in Blocks(B) : X # P2 /\ X \notin Blocks(O)
    BY <1>2, BlockPart
  <2> QED
    BY <1>3, <2>1, <2>2
<1>20. replaced \in Seq(NodesOf(S)) /\ Range(replaced) = Range(climb.replaced) \cup {TrieOf(P)}
  BY <1>8, <1>18, AppendRange
<1> HIDE DEF replaced
<1>21. Range(replaced) = {TrieOf(X) : X \in Blocks(P) \ Blocks(P2)}
  BY <1>8, <1>19, <1>20
<1>22. P # {} /\ P2 # {} /\ e \in 0 .. Depth
  BY <1>2, DepthType
<1> DEFINE next == Climb(op, oldparent, parent, replaced)
<1>23. /\ next.op = op /\ next.oldchild = oldparent /\ next.child = parent
       /\ next.replaced = replaced
       /\ next = Climb(next.op, next.oldchild, next.child, next.replaced)
  BY DEF Climb
<1> HIDE DEF next
<1>24. Reached(next, S, k, S2, e)
  BY <1>4, <1>12, <1>13, <1>14, <1>15, <1>16, <1>17, <1>20, <1>21, <1>22, <1>23
     DEF Reached, new
<1> QED
  BY <1>24 DEF next, replaced

LEMMA FitsNewParent ==
  ASSUME NEW node, NEW X, Fits(node, X), NEW Z \in SUBSET Keys,
         NEW new, new.mask = node.mask, new.prefix = node.prefix, new.parent = TrieOf(Z)
  PROVE  Fits(new, X)
BY DEF Fits, Similar

LEMMA NodeFields ==
  ASSUME NEW hash, NEW mask, NEW prefix, NEW parent
  PROVE  /\ Node(hash, mask, prefix, parent).hash = hash
         /\ Node(hash, mask, prefix, parent).mask = mask
         /\ Node(hash, mask, prefix, parent).prefix = prefix
         /\ Node(hash, mask, prefix, parent).parent = parent
         /\ \A new : [Node(hash, mask, prefix, parent) EXCEPT !.parent = new]
                       = Node(hash, mask, prefix, new)
         /\ \A new : [Node(hash, mask, prefix, parent) EXCEPT !.hash = new]
                       = Node(new, mask, prefix, parent)
BY DEF Node

LEMMA LoadIsNode ==
  ASSUME NEW op, NEW hash
  PROVE  Load(op, hash) = Node(Load(op, hash).hash, Load(op, hash).mask,
                               Load(op, hash).prefix, Load(op, hash).parent)
BY DEF Load, Node

(* The other child of the old parent, its new parent and what the round    *)
(* asks before: nothing is missing. *)
LEMMA RoundValues ==
  ASSUME NEW S \in SUBSET Keys, Exact(store, S), NEW k \in Keys, NEW S2, Changed(S, k, S2),
         NEW d \in 0 .. Depth, NEW climb, Reached(climb, S, k, S2, d),
         NEW e, NEW P, NEW P2, NEW O, Above(S, k, S2, d, e, P, P2, O),
         NEW oldparent, oldparent = Load(climb.op, climb.oldchild.parent),
         NEW other, other = OtherChild(oldparent, climb.oldchild.hash),
         NEW parent,
         parent = WithChild(oldparent, climb.oldchild.hash, climb.child.hash)
  PROVE  /\ Climbing(climb) /\ Has(climb.op, climb.oldchild.parent)
         /\ Has(climb.op, oldparent.hash.larger)
         /\ IsChild(oldparent, climb.oldchild.hash) /\ Has(climb.op, other)
         /\ oldparent.hash = TrieOf(P)
         /\ oldparent.parent = store[TrieOf(P)].parent
         /\ other = TrieOf(O)
         /\ parent.hash = TrieOf(P2) /\ Fits(parent, P2)
         /\ parent.parent = store[TrieOf(P)].parent
         /\ parent = Node(parent.hash, parent.mask, parent.prefix, parent.parent)
         /\ Fits(Load(climb.op, other), O)
         /\ Load(climb.op, other).hash = TrieOf(O)
<1> DEFINE B == Match(S, k, d)
           B2 == Match(S2, k, d)
           v == Bit(k, e)
           records == climb.op.store
           oldchild == climb.oldchild
<1>1. /\ B # {} /\ B2 # {} /\ Doing(climb.op, root, S2)
      /\ oldchild.hash = TrieOf(B) /\ oldchild.parent = store[TrieOf(B)].parent
      /\ climb.child.hash = TrieOf(B2)
      /\ \A X \in Blocks(S) : ~ (X \subseteq B) => records[TrieOf(X)] = store[TrieOf(X)]
      /\ NodesOf(S) \subseteq DOMAIN records
  BY DEF Reached
<1>2. /\ e \in 0 .. Depth - 1
      /\ B \in SUBSET Keys /\ B2 \in SUBSET Keys /\ O \in SUBSET Keys
      /\ P \in SUBSET Keys /\ P2 \in SUBSET Keys
  BY <1>1, AboveSets
<1>3. /\ O # {} /\ O \cap B = {} /\ O \cap B2 = {}
      /\ P = B \cup O /\ P2 = B2 \cup O
  BY <1>1, AboveSets
<1>4. P \in Blocks(S) /\ O \in Blocks(S) /\ ~ (P \subseteq B)
  BY <1>1, AboveSets
<1>5. /\ Splits(P, e) /\ Splits(P2, e)
      /\ B = Side(P, e, v) /\ B2 = Side(P2, e, v)
      /\ O = Side(P, e, 1 - v) /\ O = Side(P2, e, 1 - v)
  BY DEF Above
<1>6. (v = 0 /\ 1 - v = 1) \/ (v = 1 /\ 1 - v = 0)
  BY <1>2, BitType
<1>7. B \in Blocks(S)
  BY <1>1, MatchIsBlock
<1> HIDE DEF B, B2, v
<1>8. store[TrieOf(B)].parent = TrieOf(P)
  BY <1>2, <1>4, <1>5, <1>6 DEF Exact, Linked
<1>9. /\ TrieOf(P) \in DOMAIN records /\ TrieOf(O) \in DOMAIN records
      /\ TrieOf(B) \in DOMAIN records
  BY <1>1, <1>4, <1>7 DEF NodesOf
<1>10. oldchild.parent = TrieOf(P) /\ TrieOf(P) # None
  BY <1>1, <1>2, <1>3, <1>8, TrieOfNone
<1>11. climb.op.end = "ok" /\ Fitting(records)
  BY <1>1, DoingEnd
<1>12. Fits(records[TrieOf(P)], P) /\ Fits(records[TrieOf(O)], O)
  BY <1>2, <1>9, <1>11, FitsAt
<1>13. oldparent = Node(TrieOf(P), records[TrieOf(P)].mask, records[TrieOf(P)].prefix,
                        store[TrieOf(P)].parent)
  BY <1>1, <1>4, <1>10 DEF Load
<1>14. oldparent.hash = TrieOf(P) /\ oldparent.parent = store[TrieOf(P)].parent
  BY ONLY <1>13 DEF Node
<1>15. /\ TrieOf(P) = IF v = 0 THEN Inner(TrieOf(B), TrieOf(O)) ELSE Inner(TrieOf(O), TrieOf(B))
       /\ TrieOf(P2) = IF v = 0 THEN Inner(TrieOf(B2), TrieOf(O)) ELSE Inner(TrieOf(O), TrieOf(B2))
  <2>1. /\ TrieOf(P) = Inner(TrieOf(Side(P, e, 0)), TrieOf(Side(P, e, 1)))
        /\ TrieOf(P2) = Inner(TrieOf(Side(P2, e, 0)), TrieOf(Side(P2, e, 1)))
    BY <1>2, <1>5, TrieOfSplit
  <2> QED
    BY <1>5, <1>6, <2>1
<1>16. TrieOf(B) # TrieOf(O)
  BY <1>1, <1>2, <1>3, TrieInjective
<1>17. other = TrieOf(O)
  BY <1>1, <1>6, <1>14, <1>15, <1>16, InnerFields DEF OtherChild
<1>18. IsChild(oldparent, oldchild.hash)
  BY <1>1, <1>6, <1>14, <1>15, InnerFields DEF IsChild
<1>19. Has(climb.op, oldparent.hash.larger)
  BY <1>6, <1>9, <1>14, <1>15, InnerFields DEF Has
<1>20. parent = Node(TrieOf(P2), records[TrieOf(P)].mask, records[TrieOf(P)].prefix,
                     store[TrieOf(P)].parent)
  <2>1. parent = [oldparent EXCEPT !.hash =
                    IF oldparent.hash.smaller = TrieOf(B)
                    THEN Inner(TrieOf(B2), oldparent.hash.larger)
                    ELSE Inner(oldparent.hash.smaller, TrieOf(B2))]
    BY <1>1, <1>13 DEF WithChild, Node
  <2>2. TrieOf(P2) = IF oldparent.hash.smaller = TrieOf(B)
                     THEN Inner(TrieOf(B2), oldparent.hash.larger)
                     ELSE Inner(oldparent.hash.smaller, TrieOf(B2))
    BY <1>6, <1>14, <1>15, <1>16, InnerFields
  <2>3. parent = [oldparent EXCEPT !.hash = TrieOf(P2)]
    BY <2>1, <2>2
  <2>4. [oldparent EXCEPT !.hash = TrieOf(P2)]
          = Node(TrieOf(P2), records[TrieOf(P)].mask, records[TrieOf(P)].prefix,
                 store[TrieOf(P)].parent)
    BY ONLY <1>13 DEF Node
  <2> QED
    BY ONLY <2>3, <2>4
<1>21. /\ parent.hash = TrieOf(P2) /\ parent.parent = store[TrieOf(P)].parent
       /\ parent.mask = records[TrieOf(P)].mask /\ parent.prefix = records[TrieOf(P)].prefix
  BY ONLY <1>20 DEF Node
<1>22. Fits(parent, P)
  <2>1. \E Z \in SUBSET Keys : parent.parent = TrieOf(Z)
    BY <1>1, <1>4, <1>12, <1>21 DEF Fits
  <2> QED
    BY <1>12, <1>21, <2>1, FitsNewParent
<1>23. Fits(parent, P2)
  <2>1. PICK j \in O : TRUE
    BY <1>3
  <2>2. j \in P /\ j \in P2
    BY <1>3, <2>1
  <2> QED
    BY <1>2, <1>5, <1>22, <2>2, FitsOther
<1>24. Fits(Load(climb.op, other), O) /\ Load(climb.op, other).hash = TrieOf(O)
  <2>1. Load(climb.op, other) = Node(TrieOf(O), records[TrieOf(O)].mask,
                                     records[TrieOf(O)].prefix, records[TrieOf(O)].parent)
    BY <1>17 DEF Load
  <2>2. \E Z \in SUBSET Keys : records[TrieOf(O)].parent = TrieOf(Z)
    BY <1>12 DEF Fits
  <2> QED
    BY <1>12, <2>1, <2>2, FitsNewParent, NodeFields
<1>25. Climbing(climb) /\ Has(climb.op, oldchild.parent) /\ Has(climb.op, other)
  BY <1>9, <1>10, <1>11, <1>17 DEF Climbing, Has
<1> QED
  BY <1>14, <1>17, <1>18, <1>19, <1>20, <1>21, <1>23, <1>24, <1>25

LEMMA RoundInserted ==
  ASSUME NEW S \in SUBSET Keys, Exact(store, S), NEW k \in Keys, NEW S2, Changed(S, k, S2),
         NEW d \in 0 .. Depth, NEW climb, Reached(climb, S, k, S2, d), Match(S, k, d) # S
  PROVE  \E e \in 0 .. d - 1 : Reached(ReplaceInserted(climb), S, k, S2, e)
<1> DEFINE B2 == Match(S2, k, d)
           op == climb.op
           oldparent == Load(op, climb.oldchild.parent)
           other == OtherChild(oldparent, climb.oldchild.hash)
           parent == WithChild(oldparent, climb.oldchild.hash, climb.child.hash)
           first == [Load(op, other) EXCEPT !.parent = parent.hash]
           second == [climb.child EXCEPT !.parent = parent.hash]
           op1 == ToDb(op, first)
           op2 == ToDb(op1, second)
           op3 == ToDb(op2, parent)
           next == Climb(op3, oldparent, parent, Append(climb.replaced, oldparent.hash))
<1>1. /\ Match(S, k, d) # {} /\ B2 # {} /\ Doing(op, root, S2)
      /\ climb.child.hash = TrieOf(B2) /\ Fits(climb.child, B2)
      /\ climb.child = Node(climb.child.hash, climb.child.mask, climb.child.prefix,
                            climb.child.parent)
  BY DEF Reached
<1>2. PICK e, P, P2, O : Above(S, k, S2, d, e, P, P2, O)
  BY <1>1, OneAbove
<1>3. /\ Climbing(climb) /\ Has(op, climb.oldchild.parent)
      /\ Has(op, oldparent.hash.larger)
      /\ IsChild(oldparent, climb.oldchild.hash) /\ Has(op, other)
      /\ oldparent.hash = TrieOf(P)
      /\ oldparent.parent = store[TrieOf(P)].parent
      /\ parent.hash = TrieOf(P2) /\ Fits(parent, P2)
      /\ parent.parent = store[TrieOf(P)].parent
      /\ parent = Node(parent.hash, parent.mask, parent.prefix, parent.parent)
      /\ Fits(Load(op, other), O) /\ Load(op, other).hash = TrieOf(O)
  BY <1>2, RoundValues
<1>4. ReplaceInserted(climb) = next
  BY <1>3 DEF ReplaceInserted
<1>5. /\ O \in SUBSET Keys /\ P2 \in SUBSET Keys /\ B2 \in SUBSET Keys
      /\ O # {} /\ O \cap B2 = {} /\ P2 = B2 \cup O
  BY <1>1, <1>2, AboveSets
<1>6. P2 # {} /\ O # B2 /\ O # P2 /\ B2 # P2
  BY <1>1, <1>5
<1> DEFINE found == Load(op, other)
<1>7. found = Node(found.hash, found.mask, found.prefix, found.parent)
  BY LoadIsNode
<1> HIDE DEF found, parent, B2
<1>8. first.hash = TrieOf(O) /\ first.parent = TrieOf(P2) /\ Fits(first, O)
  <2>1. first = Node(found.hash, found.mask, found.prefix, TrieOf(P2))
    BY <1>3, <1>7, NodeFields DEF found
  <2> HIDE DEF first
  <2>2. first.mask = found.mask /\ first.prefix = found.prefix /\ first.parent = TrieOf(P2)
    BY <2>1, NodeFields
  <2> QED
    BY <1>3, <1>5, <2>1, <2>2, NodeFields, FitsNewParent DEF found
<1>9. second.hash = TrieOf(B2) /\ second.parent = TrieOf(P2) /\ Fits(second, B2)
  <2> DEFINE child == climb.child
  <2>1. second = Node(child.hash, child.mask, child.prefix, TrieOf(P2))
    BY <1>1, <1>3, NodeFields
  <2> HIDE DEF second
  <2>2. second.mask = child.mask /\ second.prefix = child.prefix /\ second.parent = TrieOf(P2)
    BY <2>1, NodeFields
  <2> QED
    BY <1>1, <1>5, <2>1, <2>2, NodeFields, FitsNewParent
<1> HIDE DEF first, second, op, oldparent
<1>10. Doing(op1, root, S2) /\ Put(op.store, TrieOf(O), first, op1.store)
  BY <1>1, <1>5, <1>8, DoingPut
<1> HIDE DEF op1
<1>11. Doing(op2, root, S2) /\ Put(op1.store, TrieOf(B2), second, op2.store)
  BY <1>1, <1>5, <1>9, <1>10, DoingPut
<1> HIDE DEF op2
<1>12. Doing(op3, root, S2) /\ Put(op2.store, TrieOf(P2), parent, op3.store)
  BY <1>3, <1>5, <1>6, <1>11, DoingPut
<1> HIDE DEF op3
<1>13. TrieOf(O) # TrieOf(B2) /\ TrieOf(O) # TrieOf(P2) /\ TrieOf(B2) # TrieOf(P2)
  BY <1>5, <1>6, TrieInjective
<1>14. Raised(op.store, op3.store, O, B2, P2, store[TrieOf(P)].parent)
  BY <1>3, <1>8, <1>9, <1>10, <1>11, <1>12, <1>13 DEF Raised, Put
<1>15. Reached(Climb(op3, oldparent, parent, Append(climb.replaced, TrieOf(P))),
               S, k, S2, e)
  BY <1>2, <1>3, <1>12, <1>14, RoundDone DEF op, B2
<1>16. e \in 0 .. d - 1
  BY <1>2 DEF Above
<1> QED
  BY <1>3, <1>4, <1>15, <1>16

LEMMA RoundErased ==
  ASSUME NEW S \in SUBSET Keys, Exact(store, S), NEW k \in Keys, NEW S2, Changed(S, k, S2),
         NEW d \in 0 .. Depth, NEW climb, Reached(climb, S, k, S2, d), Match(S, k, d) # S
  PROVE  \E e \in 0 .. d - 1 : Reached(ReplaceErased(climb), S, k, S2, e)
<1> DEFINE B2 == Match(S2, k, d)
           op == climb.op
           oldparent == Load(op, climb.oldchild.parent)
           other == OtherChild(oldparent, climb.oldchild.hash)
           parent == WithChild(oldparent, climb.oldchild.hash, climb.child.hash)
           second == [climb.child EXCEPT !.parent = parent.hash]
           third == [Load(op, other) EXCEPT !.parent = parent.hash]
           op1 == ToDb(op, parent)
           op2 == ToDb(op1, second)
           op3 == ToDb(op2, third)
           next == Climb(op3, oldparent, parent, Append(climb.replaced, oldparent.hash))
<1>1. /\ Match(S, k, d) # {} /\ B2 # {} /\ Doing(op, root, S2)
      /\ climb.child.hash = TrieOf(B2) /\ Fits(climb.child, B2)
      /\ climb.child = Node(climb.child.hash, climb.child.mask, climb.child.prefix,
                            climb.child.parent)
  BY DEF Reached
<1>2. PICK e, P, P2, O : Above(S, k, S2, d, e, P, P2, O)
  BY <1>1, OneAbove
<1>3. /\ Climbing(climb) /\ Has(op, climb.oldchild.parent)
      /\ Has(op, oldparent.hash.larger)
      /\ IsChild(oldparent, climb.oldchild.hash) /\ Has(op, other)
      /\ oldparent.hash = TrieOf(P)
      /\ oldparent.parent = store[TrieOf(P)].parent
      /\ parent.hash = TrieOf(P2) /\ Fits(parent, P2)
      /\ parent.parent = store[TrieOf(P)].parent
      /\ parent = Node(parent.hash, parent.mask, parent.prefix, parent.parent)
      /\ Fits(Load(op, other), O) /\ Load(op, other).hash = TrieOf(O)
  BY <1>2, RoundValues
<1>4. ReplaceErased(climb) = next
  BY <1>3 DEF ReplaceErased
<1>5. /\ O \in SUBSET Keys /\ P2 \in SUBSET Keys /\ B2 \in SUBSET Keys
      /\ O # {} /\ O \cap B2 = {} /\ P2 = B2 \cup O
  BY <1>1, <1>2, AboveSets
<1>6. P2 # {} /\ O # B2 /\ O # P2 /\ B2 # P2
  BY <1>1, <1>5
<1> DEFINE found == Load(op, other)
<1>7. found = Node(found.hash, found.mask, found.prefix, found.parent)
  BY LoadIsNode
<1> HIDE DEF found, parent, B2
<1>8. third.hash = TrieOf(O) /\ third.parent = TrieOf(P2) /\ Fits(third, O)
  <2>1. third = Node(found.hash, found.mask, found.prefix, TrieOf(P2))
    BY <1>3, <1>7, NodeFields DEF found
  <2> HIDE DEF third
  <2>2. third.mask = found.mask /\ third.prefix = found.prefix /\ third.parent = TrieOf(P2)
    BY <2>1, NodeFields
  <2> QED
    BY <1>3, <1>5, <2>1, <2>2, NodeFields, FitsNewParent DEF found
<1>9. second.hash = TrieOf(B2) /\ second.parent = TrieOf(P2) /\ Fits(second, B2)
  <2> DEFINE child == climb.child
  <2>1. second = Node(child.hash, child.mask, child.prefix, TrieOf(P2))
    BY <1>1, <1>3, NodeFields
  <2> HIDE DEF second
  <2>2. second.mask = child.mask /\ second.prefix = child.prefix /\ second.parent = TrieOf(P2)
    BY <2>1, NodeFields
  <2> QED
    BY <1>1, <1>5, <2>1, <2>2, NodeFields, FitsNewParent
<1> HIDE DEF second, third, op, oldparent
<1>10. Doing(op1, root, S2) /\ Put(op.store, TrieOf(P2), parent, op1.store)
  BY <1>1, <1>3, <1>5, <1>6, DoingPut
<1> HIDE DEF op1
<1>11. Doing(op2, root, S2) /\ Put(op1.store, TrieOf(B2), second, op2.store)
  BY <1>1, <1>5, <1>9, <1>10, DoingPut
<1> HIDE DEF op2
<1>12. Doing(op3, root, S2) /\ Put(op2.store, TrieOf(O), third, op3.store)
  BY <1>5, <1>8, <1>11, DoingPut
<1> HIDE DEF op3
<1>13. TrieOf(O) # TrieOf(B2) /\ TrieOf(O) # TrieOf(P2) /\ TrieOf(B2) # TrieOf(P2)
  BY <1>5, <1>6, TrieInjective
<1>14. Raised(op.store, op3.store, O, B2, P2, store[TrieOf(P)].parent)
  BY <1>3, <1>8, <1>9, <1>10, <1>11, <1>12, <1>13 DEF Raised, Put
<1>15. Reached(Climb(op3, oldparent, parent, Append(climb.replaced, TrieOf(P))),
               S, k, S2, e)
  BY <1>2, <1>3, <1>12, <1>14, RoundDone DEF op, B2
<1>16. e \in 0 .. d - 1
  BY <1>2 DEF Above
<1> QED
  BY <1>3, <1>4, <1>15, <1>16

-----------------------------------------------------------------------------
(* The loops up to the root.                                               *)

(* The loop is a run of its rounds. *)
LEMMA ClimbsInserted ==
  ASSUME NEW climb
  PROVE  \E after :
           /\ after[0] = climb
           /\ \A i \in 1 .. Depth : after[i] = ReplaceInserted(after[i - 1])
           /\ ClimbedInserted(climb) = after[Depth]
<1> DEFINE Run(f, j) ==
             f = [i \in 0 .. j |-> IF i = 0 THEN climb ELSE ReplaceInserted(f[i - 1])]
           N == {j \in Nat : \E f : Run(f, j)}
<1>1. 0 \in N
  <2> DEFINE f == [i \in 0 .. 0 |-> climb]
  <2>1. \A i \in 0 .. 0 : f[i] = IF i = 0 THEN climb ELSE ReplaceInserted(f[i - 1])
    OBVIOUS
  <2>2. Run(f, 0)
    BY <2>1
  <2> QED
    BY <2>2
<1>2. ASSUME NEW j \in Nat, j \in N
      PROVE  j + 1 \in N
  <2>1. PICK f : Run(f, j)
    BY <1>2
  <2> DEFINE g == [i \in 0 .. j + 1 |-> IF i = j + 1 THEN ReplaceInserted(f[j]) ELSE f[i]]
  <2>2. \A i \in 0 .. j : g[i] = f[i]
    OBVIOUS
  <2>3. \A i \in 0 .. j + 1 : g[i] = IF i = 0 THEN climb ELSE ReplaceInserted(g[i - 1])
    <3> SUFFICES ASSUME NEW i \in 0 .. j + 1
                 PROVE  g[i] = IF i = 0 THEN climb ELSE ReplaceInserted(g[i - 1])
      OBVIOUS
    <3>1. CASE i = j + 1
      <4>1. g[i] = ReplaceInserted(f[j]) /\ g[i - 1] = f[j] /\ i # 0
        BY <2>2, <3>1
      <4> QED
        BY <4>1
    <3>2. CASE i # j + 1
      <4>1. i \in 0 .. j /\ (i # 0 => i - 1 \in 0 .. j)
        BY <3>2
      <4>2. f[i] = IF i = 0 THEN climb ELSE ReplaceInserted(f[i - 1])
        BY <2>1, <4>1
      <4> QED
        BY <2>2, <4>1, <4>2
    <3> QED
      BY <3>1, <3>2
  <2>4. Run(g, j + 1)
    BY <2>3
  <2> HIDE DEF g
  <2>5. \E h : Run(h, j + 1)
    BY <2>4
  <2> QED
    BY <2>5
<1> HIDE DEF N
<1>3. Depth \in N
  BY <1>1, <1>2, NumberInduction, DepthType
<1>4. \E f : Run(f, Depth)
  BY <1>3 DEF N
<1>5. ClimbedInserted(climb) = (CHOOSE f : Run(f, Depth))[Depth]
  BY DEF ClimbedInserted
<1> HIDE DEF Run
<1> DEFINE after == CHOOSE f : Run(f, Depth)
<1>6. Run(after, Depth)
  BY <1>4
<1> HIDE DEF after
<1>7. \A i \in 0 .. Depth : after[i] = IF i = 0 THEN climb ELSE ReplaceInserted(after[i - 1])
  BY <1>6 DEF Run
<1>8. after[0] = climb
  BY <1>7, DepthType
<1>9. \A i \in 1 .. Depth : after[i] = ReplaceInserted(after[i - 1])
  BY <1>7
<1> QED
  BY <1>5, <1>8, <1>9 DEF after

(* It ends at the root. *)
LEMMA ReachesInserted ==
  ASSUME NEW S \in SUBSET Keys, Exact(store, S), NEW k \in Keys, NEW S2, Changed(S, k, S2),
         NEW d \in 0 .. Depth, NEW climb, Reached(climb, S, k, S2, d)
  PROVE  \E e \in 0 .. Depth :
           Reached(ClimbedInserted(climb), S, k, S2, e) /\ Match(S, k, e) = S
<1>1. PICK after :
        /\ after[0] = climb
        /\ \A i \in 1 .. Depth : after[i] = ReplaceInserted(after[i - 1])
        /\ ClimbedInserted(climb) = after[Depth]
  BY ClimbsInserted
<1> DEFINE Good(i) == \E e \in 0 .. Depth :
             Reached(after[i], S, k, S2, e) /\ (Match(S, k, e) = S \/ e + i <= Depth)
           N == {i \in Nat : i \in 0 .. Depth => Good(i)}
<1>2. 0 \in N
  <2>1. d + 0 <= Depth
    BY DepthType
  <2>2. Good(0)
    BY <1>1, <2>1
  <2> QED
    BY <2>2
<1>3. ASSUME NEW i \in Nat, i \in N
      PROVE  i + 1 \in N
  <2> SUFFICES ASSUME i + 1 \in 0 .. Depth PROVE Good(i + 1)
    OBVIOUS
  <2>1. i \in 0 .. Depth /\ i + 1 \in 1 .. Depth /\ (i + 1) - 1 = i
    BY DepthType
  <2>2. after[i + 1] = ReplaceInserted(after[i])
    BY <1>1, <2>1
  <2>3. PICK e \in 0 .. Depth :
          Reached(after[i], S, k, S2, e) /\ (Match(S, k, e) = S \/ e + i <= Depth)
    BY <1>3, <2>1
  <2>4. CASE Match(S, k, e) = S
    <3>1. S # {} /\ after[i].oldchild.parent = store[TrieOf(S)].parent
      BY <2>3, <2>4 DEF Reached
    <3>2. after[i].oldchild.parent = None
      BY <3>1 DEF Exact
    <3>3. ReplaceInserted(after[i]) = after[i]
      BY <3>2 DEF ReplaceInserted, Climbing
    <3> QED
      BY <2>2, <2>3, <2>4, <3>3
  <2>5. CASE Match(S, k, e) # S
    <3>1. PICK c \in 0 .. e - 1 : Reached(ReplaceInserted(after[i]), S, k, S2, c)
      BY <2>3, <2>5, RoundInserted
    <3>2. c \in 0 .. Depth /\ c + (i + 1) <= Depth
      BY <2>3, <2>5, DepthType
    <3> QED
      BY <2>2, <3>1, <3>2
  <2> QED
    BY <2>4, <2>5
<1> HIDE DEF N
<1>4. Depth \in N
  BY <1>2, <1>3, NumberInduction, DepthType
<1>5. Good(Depth)
  BY <1>4, DepthType DEF N
<1>6. PICK e \in 0 .. Depth :
        Reached(after[Depth], S, k, S2, e) /\ (Match(S, k, e) = S \/ e + Depth <= Depth)
  BY <1>5
<1>7. Match(S, k, e) = S
  <2>1. CASE e + Depth <= Depth
    <3>1. e = 0
      BY <2>1, DepthType
    <3> QED
      BY <3>1, MatchNone
  <2> QED
    BY <1>6, <2>1
<1> QED
  BY <1>1, <1>6, <1>7

(* The loop is a run of its rounds. *)
LEMMA ClimbsErased ==
  ASSUME NEW climb
  PROVE  \E after :
           /\ after[0] = climb
           /\ \A i \in 1 .. Depth : after[i] = ReplaceErased(after[i - 1])
           /\ ClimbedErased(climb) = after[Depth]
<1> DEFINE Run(f, j) ==
             f = [i \in 0 .. j |-> IF i = 0 THEN climb ELSE ReplaceErased(f[i - 1])]
           N == {j \in Nat : \E f : Run(f, j)}
<1>1. 0 \in N
  <2> DEFINE f == [i \in 0 .. 0 |-> climb]
  <2>1. \A i \in 0 .. 0 : f[i] = IF i = 0 THEN climb ELSE ReplaceErased(f[i - 1])
    OBVIOUS
  <2>2. Run(f, 0)
    BY <2>1
  <2> QED
    BY <2>2
<1>2. ASSUME NEW j \in Nat, j \in N
      PROVE  j + 1 \in N
  <2>1. PICK f : Run(f, j)
    BY <1>2
  <2> DEFINE g == [i \in 0 .. j + 1 |-> IF i = j + 1 THEN ReplaceErased(f[j]) ELSE f[i]]
  <2>2. \A i \in 0 .. j : g[i] = f[i]
    OBVIOUS
  <2>3. \A i \in 0 .. j + 1 : g[i] = IF i = 0 THEN climb ELSE ReplaceErased(g[i - 1])
    <3> SUFFICES ASSUME NEW i \in 0 .. j + 1
                 PROVE  g[i] = IF i = 0 THEN climb ELSE ReplaceErased(g[i - 1])
      OBVIOUS
    <3>1. CASE i = j + 1
      <4>1. g[i] = ReplaceErased(f[j]) /\ g[i - 1] = f[j] /\ i # 0
        BY <2>2, <3>1
      <4> QED
        BY <4>1
    <3>2. CASE i # j + 1
      <4>1. i \in 0 .. j /\ (i # 0 => i - 1 \in 0 .. j)
        BY <3>2
      <4>2. f[i] = IF i = 0 THEN climb ELSE ReplaceErased(f[i - 1])
        BY <2>1, <4>1
      <4> QED
        BY <2>2, <4>1, <4>2
    <3> QED
      BY <3>1, <3>2
  <2>4. Run(g, j + 1)
    BY <2>3
  <2> HIDE DEF g
  <2>5. \E h : Run(h, j + 1)
    BY <2>4
  <2> QED
    BY <2>5
<1> HIDE DEF N
<1>3. Depth \in N
  BY <1>1, <1>2, NumberInduction, DepthType
<1>4. \E f : Run(f, Depth)
  BY <1>3 DEF N
<1>5. ClimbedErased(climb) = (CHOOSE f : Run(f, Depth))[Depth]
  BY DEF ClimbedErased
<1> HIDE DEF Run
<1> DEFINE after == CHOOSE f : Run(f, Depth)
<1>6. Run(after, Depth)
  BY <1>4
<1> HIDE DEF after
<1>7. \A i \in 0 .. Depth : after[i] = IF i = 0 THEN climb ELSE ReplaceErased(after[i - 1])
  BY <1>6 DEF Run
<1>8. after[0] = climb
  BY <1>7, DepthType
<1>9. \A i \in 1 .. Depth : after[i] = ReplaceErased(after[i - 1])
  BY <1>7
<1> QED
  BY <1>5, <1>8, <1>9 DEF after

(* It ends at the root. *)
LEMMA ReachesErased ==
  ASSUME NEW S \in SUBSET Keys, Exact(store, S), NEW k \in Keys, NEW S2, Changed(S, k, S2),
         NEW d \in 0 .. Depth, NEW climb, Reached(climb, S, k, S2, d)
  PROVE  \E e \in 0 .. Depth :
           Reached(ClimbedErased(climb), S, k, S2, e) /\ Match(S, k, e) = S
<1>1. PICK after :
        /\ after[0] = climb
        /\ \A i \in 1 .. Depth : after[i] = ReplaceErased(after[i - 1])
        /\ ClimbedErased(climb) = after[Depth]
  BY ClimbsErased
<1> DEFINE Good(i) == \E e \in 0 .. Depth :
             Reached(after[i], S, k, S2, e) /\ (Match(S, k, e) = S \/ e + i <= Depth)
           N == {i \in Nat : i \in 0 .. Depth => Good(i)}
<1>2. 0 \in N
  <2>1. d + 0 <= Depth
    BY DepthType
  <2>2. Good(0)
    BY <1>1, <2>1
  <2> QED
    BY <2>2
<1>3. ASSUME NEW i \in Nat, i \in N
      PROVE  i + 1 \in N
  <2> SUFFICES ASSUME i + 1 \in 0 .. Depth PROVE Good(i + 1)
    OBVIOUS
  <2>1. i \in 0 .. Depth /\ i + 1 \in 1 .. Depth /\ (i + 1) - 1 = i
    BY DepthType
  <2>2. after[i + 1] = ReplaceErased(after[i])
    BY <1>1, <2>1
  <2>3. PICK e \in 0 .. Depth :
          Reached(after[i], S, k, S2, e) /\ (Match(S, k, e) = S \/ e + i <= Depth)
    BY <1>3, <2>1
  <2>4. CASE Match(S, k, e) = S
    <3>1. S # {} /\ after[i].oldchild.parent = store[TrieOf(S)].parent
      BY <2>3, <2>4 DEF Reached
    <3>2. after[i].oldchild.parent = None
      BY <3>1 DEF Exact
    <3>3. ReplaceErased(after[i]) = after[i]
      BY <3>2 DEF ReplaceErased, Climbing
    <3> QED
      BY <2>2, <2>3, <2>4, <3>3
  <2>5. CASE Match(S, k, e) # S
    <3>1. PICK c \in 0 .. e - 1 : Reached(ReplaceErased(after[i]), S, k, S2, c)
      BY <2>3, <2>5, RoundErased
    <3>2. c \in 0 .. Depth /\ c + (i + 1) <= Depth
      BY <2>3, <2>5, DepthType
    <3> QED
      BY <2>2, <3>1, <3>2
  <2> QED
    BY <2>4, <2>5
<1> HIDE DEF N
<1>4. Depth \in N
  BY <1>2, <1>3, NumberInduction, DepthType
<1>5. Good(Depth)
  BY <1>4, DepthType DEF N
<1>6. PICK e \in 0 .. Depth :
        Reached(after[Depth], S, k, S2, e) /\ (Match(S, k, e) = S \/ e + Depth <= Depth)
  BY <1>5
<1>7. Match(S, k, e) = S
  <2>1. CASE e + Depth <= Depth
    <3>1. e = 0
      BY <2>1, DepthType
    <3> QED
      BY <3>1, MatchNone
  <2> QED
    BY <1>6, <2>1
<1> QED
  BY <1>1, <1>6, <1>7

(* The new root is set and the replaced nodes are deleted: what remains is *)
(* the trie of S2, as if it had been built from nothing. *)
LEMMA MovesRoot ==
  ASSUME NEW S \in SUBSET Keys, Exact(store, S), NEW k \in Keys, NEW S2, Changed(S, k, S2),
         NEW e \in 0 .. Depth, NEW climb, Reached(climb, S, k, S2, e), Match(S, k, e) = S
  PROVE  /\ Doing(MoveRoot(climb), TrieOf(S2), S2)
         /\ Exact(MoveRoot(climb).store, S2)
<1> DEFINE op == climb.op
           old == climb.op.store
           op1 == SetRoot(op, TrieOf(S2))
           op2 == DeleteFromDb(op1, climb.replaced)
<1>1. S2 \in SUBSET Keys
  BY ChangedKeys
<1>2. Match(S2, k, e) = S2
  <2>1. Changed(Match(S, k, e), k, Match(S2, k, e))
    BY MatchChanged
  <2> QED
    BY <2>1 DEF Changed
<1>3. /\ S # {} /\ S2 # {} /\ Doing(op, root, S2)
      /\ climb.child.hash = TrieOf(S2)
      /\ TrieOf(S2) \in DOMAIN old /\ old[TrieOf(S2)].parent = None
      /\ \A X \in Blocks(S2) : X # S2 => TrieOf(X) \in DOMAIN old
      /\ Linked(old, S2)
      /\ NodesOf(S) \subseteq DOMAIN old
      /\ DOMAIN old \subseteq NodesOf(S) \cup NodesOf(S2)
      /\ climb.replaced \in Seq(NodesOf(S))
      /\ Range(climb.replaced) = {TrieOf(X) : X \in Blocks(S) \ Blocks(S2)}
  BY <1>2 DEF Reached
<1>4. NodesOf(S2) \subseteq DOMAIN old
  BY <1>3 DEF NodesOf
<1>5. MoveRoot(climb) = op2
  <2>1. op.end = "ok"
    BY <1>3, DoingEnd
  <2> QED
    BY <1>3, <2>1 DEF MoveRoot
<1>6. Range(climb.replaced) \cap NodesOf(S2) = {}
  <2> SUFFICES ASSUME NEW X \in Blocks(S) \ Blocks(S2) PROVE TrieOf(X) \notin NodesOf(S2)
    BY <1>3
  <2>1. X \in SUBSET Keys
    BY BlockPart
  <2> QED
    BY <1>1, <2>1, NodeOfBlock
<1> HIDE DEF op, old
<1>7. Doing(op1, TrieOf(S2), S2) /\ op1.store = old
  BY <1>1, <1>3, <1>4, DoingRoot DEF op, old
<1> HIDE DEF op1
<1>8. /\ Doing(op2, TrieOf(S2), S2)
      /\ DOMAIN op2.store = DOMAIN old \ Range(climb.replaced)
      /\ \A h \in DOMAIN old \ Range(climb.replaced) : op2.store[h] = old[h]
  BY <1>1, <1>3, <1>4, <1>6, <1>7, DoingDelete
<1> DEFINE new == op2.store
<1>9. DOMAIN new = NodesOf(S2)
  <2>1. DOMAIN new = DOMAIN old \ Range(climb.replaced)
    BY <1>8
  <2> HIDE DEF op2
  <2>2. NodesOf(S) \ Range(climb.replaced) \subseteq NodesOf(S2)
    BY <1>3 DEF NodesOf
  <2> QED
    BY <1>3, <1>4, <1>6, <2>1, <2>2
<1>10. \A h \in NodesOf(S2) : new[h] = old[h]
  BY <1>4, <1>6, <1>8
<1>11. Fitting(new)
  BY <1>8, DoingEnd
<1> HIDE DEF op2
<1>12. Linked(new, S2)
  <2> SUFFICES ASSUME NEW P \in Blocks(S2), NEW c \in 0 .. Depth - 1, NEW v \in {0, 1},
                      Splits(P, c)
               PROVE  new[TrieOf(Side(P, c, v))].parent = TrieOf(P)
    BY DEF Linked
  <2>1. P \in SUBSET Keys
    BY <1>1, BlockPart
  <2>2. Side(P, c, v) \in Blocks(S2)
    BY <2>1, SideIsBlock, BlockBlocks
  <2>3. TrieOf(Side(P, c, v)) \in NodesOf(S2)
    BY <2>2 DEF NodesOf
  <2> QED
    BY <1>3, <1>10, <2>3 DEF Linked
<1>13. new[TrieOf(S2)].parent = None
  <2>1. TrieOf(S2) \in NodesOf(S2)
    BY <1>3, BlockWhole DEF NodesOf
  <2> QED
    BY <1>3, <1>10, <2>1
<1> QED
  BY <1>5, <1>8, <1>9, <1>11, <1>12, <1>13 DEF Exact

-----------------------------------------------------------------------------
(* The descent for a key.                                                  *)

(* The descent is a run of its steps. *)
LEMMA LocateRuns ==
  ASSUME NEW hash, NEW k
  PROVE  \E after :
           /\ after[0] = hash
           /\ \A i \in 1 .. Depth + 1 : after[i] = Descend(after[i - 1], k)
           /\ Locate(hash, k) = after[Depth + 1]
<1> DEFINE Run(f, j) ==
             f = [i \in 0 .. j |-> IF i = 0 THEN hash ELSE Descend(f[i - 1], k)]
           N == {j \in Nat : \E f : Run(f, j)}
<1>1. 0 \in N
  <2> DEFINE f == [i \in 0 .. 0 |-> hash]
  <2>1. \A i \in 0 .. 0 : f[i] = IF i = 0 THEN hash ELSE Descend(f[i - 1], k)
    OBVIOUS
  <2>2. Run(f, 0)
    BY <2>1
  <2> QED
    BY <2>2
<1>2. ASSUME NEW j \in Nat, j \in N
      PROVE  j + 1 \in N
  <2>1. PICK f : Run(f, j)
    BY <1>2
  <2> DEFINE g == [i \in 0 .. j + 1 |-> IF i = j + 1 THEN Descend(f[j], k) ELSE f[i]]
  <2>2. \A i \in 0 .. j : g[i] = f[i]
    OBVIOUS
  <2>3. \A i \in 0 .. j + 1 : g[i] = IF i = 0 THEN hash ELSE Descend(g[i - 1], k)
    <3> SUFFICES ASSUME NEW i \in 0 .. j + 1
                 PROVE  g[i] = IF i = 0 THEN hash ELSE Descend(g[i - 1], k)
      OBVIOUS
    <3>1. CASE i = j + 1
      <4>1. g[i] = Descend(f[j], k) /\ g[i - 1] = f[j] /\ i # 0
        BY <2>2, <3>1
      <4> QED
        BY <4>1
    <3>2. CASE i # j + 1
      <4>1. i \in 0 .. j /\ (i # 0 => i - 1 \in 0 .. j)
        BY <3>2
      <4>2. f[i] = IF i = 0 THEN hash ELSE Descend(f[i - 1], k)
        BY <2>1, <4>1
      <4> QED
        BY <2>2, <4>1, <4>2
    <3> QED
      BY <3>1, <3>2
  <2>4. Run(g, j + 1)
    BY <2>3
  <2> HIDE DEF g
  <2>5. \E h : Run(h, j + 1)
    BY <2>4
  <2> QED
    BY <2>5
<1> HIDE DEF N
<1>3. Depth + 1 \in N
  BY <1>1, <1>2, NumberInduction, DepthType
<1>4. \E f : Run(f, Depth + 1)
  BY <1>3 DEF N
<1>5. Locate(hash, k) = (CHOOSE f : Run(f, Depth + 1))[Depth + 1]
  BY DEF Locate
<1> HIDE DEF Run
<1> DEFINE after == CHOOSE f : Run(f, Depth + 1)
<1>6. Run(after, Depth + 1)
  BY <1>4
<1> HIDE DEF after
<1>7. \A i \in 0 .. Depth + 1 : after[i] = IF i = 0 THEN hash ELSE Descend(after[i - 1], k)
  BY <1>6 DEF Run
<1>8. after[0] = hash
  BY <1>7, DepthType
<1>9. \A i \in 1 .. Depth + 1 : after[i] = Descend(after[i - 1], k)
  BY <1>7
<1> QED
  BY <1>5, <1>8, <1>9 DEF after

(* The descent ends at hash. *)
Stops(hash, k) == ~ (Similar(store[hash], k) /\ store[hash].mask < Depth)

LEMMA DescentStep ==
  ASSUME NEW S \in SUBSET Keys, Exact(store, S), NEW k \in Keys,
         NEW d \in 0 .. Depth, Match(S, k, d) # {},
         ~ Stops(TrieOf(Match(S, k, d)), k)
  PROVE  \E e \in d + 1 .. Depth :
           /\ Match(S, k, e) # {}
           /\ Descend(TrieOf(Match(S, k, d)), k) = TrieOf(Match(S, k, e))
<1> DEFINE B == Match(S, k, d)
           record == store[TrieOf(B)]
           c == CommonBits(B)
<1>1. B \in SUBSET Keys /\ B \in Blocks(S)
  BY MatchPart, MatchIsBlock
<1>2. TrieOf(B) \in DOMAIN store /\ Fits(record, B)
  <2>1. TrieOf(B) \in DOMAIN store
    BY <1>1, NodeOfBlock DEF Exact
  <2> QED
    BY <1>1, <2>1, FitsAt DEF Exact
<1>3. record.mask = c /\ record.prefix \in Keys /\ Similar(record, k) /\ c < Depth
      /\ \A j \in B : Similar(record, j)
  BY <1>2 DEF Fits, Stops
<1>4. c \in 0 .. Depth /\ Splits(B, c)
  BY <1>1, <1>3, CommonBitsType
<1>5. \A j \in B : Agree(j, k, c)
  BY <1>3 DEF Similar, Agree
<1>6. d <= c
  <2> SUFFICES ASSUME c < d PROVE FALSE
    BY <1>4
  <2>1. c \in 0 .. d - 1
    BY <1>4
  <2>2. \A j \in B : Bit(j, c) = Bit(k, c)
    BY <2>1 DEF Match, Agree
  <2>3. PICK x \in B, y \in B : Bit(x, c) = 0 /\ Bit(y, c) = 1
    BY <1>4 DEF Splits, Side
  <2> QED
    BY <2>2, <2>3
<1>7. B = Match(S, k, c)
  <2>1. \A j \in S : Agree(j, k, c) => Agree(j, k, d)
    BY <1>4, <1>6 DEF Agree
  <2>2. \A j \in B : j \in S
    BY DEF Match
  <2>3. \A j \in S : Agree(j, k, d) => Agree(j, k, c)
    BY <1>5 DEF Match
  <2> QED
    BY <2>1, <2>3 DEF Match
<1> HIDE DEF B
<1>8. c + 1 \in d + 1 .. Depth /\ c \in Nat /\ c \in 0 .. Depth - 1
  BY <1>3, <1>4, <1>6, DepthType
<1>9. Side(B, c, Bit(k, c)) = Match(S, k, c + 1)
  BY <1>7, <1>8, SideOfMatch
<1>10. Bit(k, c) \in {0, 1}
  BY <1>8, BitType
<1>11. Match(S, k, c + 1) # {}
  BY <1>4, <1>9, <1>10 DEF Splits
<1>12. Descend(TrieOf(B), k) = TrieOf(Match(S, k, c + 1))
  <2>1. TrieOf(B) = Inner(TrieOf(Side(B, c, 0)), TrieOf(Side(B, c, 1)))
    BY <1>1, <1>4, TrieOfSplit
  <2>2. TrieOf(B).smaller = TrieOf(Side(B, c, 0)) /\ TrieOf(B).larger = TrieOf(Side(B, c, 1))
    BY <2>1, InnerFields
  <2>3. Descend(TrieOf(B), k) = IF Bit(k, c) = 1 THEN TrieOf(B).larger ELSE TrieOf(B).smaller
    BY <1>2, <1>3 DEF Descend
  <2> QED
    BY <1>9, <1>10, <2>2, <2>3
<1> QED
  BY <1>8, <1>11, <1>12 DEF B

(* It stays there. *)
LEMMA DescentEnds ==
  ASSUME NEW hash \in DOMAIN store, NEW k, Stops(hash, k)
  PROVE  Descend(hash, k) = hash
BY DEF Descend, Stops

(* The descent ends at a node on the way to k. *)
LEMMA Locates ==
  ASSUME NEW S \in SUBSET Keys, Exact(store, S), S # {}, NEW k \in Keys
  PROVE  \E d \in 0 .. Depth :
           /\ Match(S, k, d) # {}
           /\ Locate(TrieOf(S), k) = TrieOf(Match(S, k, d))
           /\ Stops(TrieOf(Match(S, k, d)), k)
<1>1. PICK after :
        /\ after[0] = TrieOf(S)
        /\ \A i \in 1 .. Depth + 1 : after[i] = Descend(after[i - 1], k)
        /\ Locate(TrieOf(S), k) = after[Depth + 1]
  BY LocateRuns
<1> DEFINE Good(i) == \E d \in 0 .. Depth :
             /\ Match(S, k, d) # {} /\ after[i] = TrieOf(Match(S, k, d))
             /\ i <= d \/ Stops(after[i], k)
           N == {i \in Nat : i \in 0 .. Depth + 1 => Good(i)}
<1>2. 0 \in N
  <2>1. 0 \in 0 .. Depth /\ Match(S, k, 0) = S
    BY DepthType, MatchNone
  <2>2. Good(0)
    BY <1>1, <2>1
  <2> QED
    BY <2>2
<1>3. ASSUME NEW i \in Nat, i \in N
      PROVE  i + 1 \in N
  <2> SUFFICES ASSUME i + 1 \in 0 .. Depth + 1 PROVE Good(i + 1)
    OBVIOUS
  <2>1. i \in 0 .. Depth + 1 /\ i + 1 \in 1 .. Depth + 1 /\ (i + 1) - 1 = i
    BY DepthType
  <2>2. after[i + 1] = Descend(after[i], k)
    BY <1>1, <2>1
  <2>3. PICK d \in 0 .. Depth :
          /\ Match(S, k, d) # {} /\ after[i] = TrieOf(Match(S, k, d))
          /\ i <= d \/ Stops(after[i], k)
    BY <1>3, <2>1
  <2>4. CASE Stops(after[i], k)
    <3>1. after[i] \in DOMAIN store
      BY <2>3, MatchPart, MatchIsBlock, NodeOfBlock DEF Exact
    <3>2. after[i + 1] = after[i]
      BY <2>2, <2>4, <3>1, DescentEnds
    <3> QED
      BY <2>3, <2>4, <3>2
  <2>5. CASE ~ Stops(after[i], k)
    <3>1. PICK e \in d + 1 .. Depth :
            /\ Match(S, k, e) # {}
            /\ Descend(TrieOf(Match(S, k, d)), k) = TrieOf(Match(S, k, e))
      BY <2>3, <2>5, DescentStep
    <3>2. e \in 0 .. Depth /\ i + 1 <= e
      BY <2>3, <2>5, <3>1
    <3> QED
      BY <2>2, <2>3, <3>1, <3>2
  <2> QED
    BY <2>4, <2>5
<1> HIDE DEF N
<1>4. Depth + 1 \in N
  BY <1>2, <1>3, NumberInduction, DepthType
<1>5. Good(Depth + 1)
  BY <1>4, DepthType DEF N
<1>6. PICK d \in 0 .. Depth :
        /\ Match(S, k, d) # {} /\ after[Depth + 1] = TrieOf(Match(S, k, d))
        /\ Depth + 1 <= d \/ Stops(after[Depth + 1], k)
  BY <1>5
<1>7. Stops(after[Depth + 1], k)
  BY <1>6, DepthType
<1> QED
  BY <1>1, <1>6, <1>7

(* What is found for a key is its leaf, or a node whose bits it does not   *)
(* share. *)
LEMMA FoundNode ==
  ASSUME NEW S \in SUBSET Keys, Exact(store, S), NEW k \in Keys,
         NEW d \in 0 .. Depth, Match(S, k, d) # {}, Stops(TrieOf(Match(S, k, d)), k)
  PROVE  /\ TrieOf(Match(S, k, d)) \in DOMAIN store
         /\ Fits(store[TrieOf(Match(S, k, d))], Match(S, k, d))
         /\ Similar(store[TrieOf(Match(S, k, d))], k) <=> k \in S
<1> DEFINE B == Match(S, k, d)
           record == store[TrieOf(B)]
<1>1. B \in SUBSET Keys /\ B \in Blocks(S)
  BY MatchPart, MatchIsBlock
<1>2. TrieOf(B) \in DOMAIN store /\ Fits(record, B)
  <2>1. TrieOf(B) \in DOMAIN store
    BY <1>1, NodeOfBlock DEF Exact
  <2> QED
    BY <1>1, <2>1, FitsAt DEF Exact
<1>3. ASSUME k \in S PROVE Similar(record, k)
  <2>1. k \in B
    BY <1>3 DEF Match, Agree
  <2> QED
    BY <1>2, <2>1 DEF Fits
<1>4. ASSUME Similar(record, k) PROVE k \in S
  <2>1. record.mask = CommonBits(B) /\ record.prefix \in Keys
        /\ (\A j \in B : Similar(record, j)) /\ ~ (record.mask < Depth)
    BY <1>2, <1>4 DEF Fits, Stops
  <2>2. record.mask = Depth
    <3>1. CommonBits(B) \in 0 .. Depth
      BY <1>1, CommonBitsType
    <3> QED
      BY <2>1, <3>1, DepthType
  <2>3. PICK j \in B : TRUE
    BY <1>1, BlockPart
  <2>4. j \in Keys /\ j \in S
    BY <1>1 DEF Match
  <2>5. record.prefix = k
    BY <1>4, <2>1, <2>2, AgreeAll DEF Similar
  <2>6. record.prefix = j
    BY <2>1, <2>2, <2>3, <2>4, AgreeAll DEF Similar
  <2> QED
    BY <2>4, <2>5, <2>6
<1> QED
  BY <1>2, <1>3, <1>4

(* add knows the keys that the trie has. *)
LEMMA DuplicateIsKnown ==
  ASSUME NEW S \in SUBSET Keys, Exact(store, S), root = TrieOf(S), NEW k \in Keys
  PROVE  IsDuplicate(k) <=> k \in S
<1>1. CASE S = {}
  BY <1>1, TrieOfNone DEF IsDuplicate
<1>2. CASE S # {}
  <2>1. PICK d \in 0 .. Depth :
          /\ Match(S, k, d) # {}
          /\ Locate(TrieOf(S), k) = TrieOf(Match(S, k, d))
          /\ Stops(TrieOf(Match(S, k, d)), k)
    BY <1>2, Locates
  <2>2. root # None /\ TrieOf(Match(S, k, d)) # None
    BY <1>2, <2>1, MatchPart, TrieOfNone
  <2>3. Similar(store[TrieOf(Match(S, k, d))], k) <=> k \in S
    BY <2>1, FoundNode
  <2> QED
    BY <2>1, <2>2, <2>3 DEF IsDuplicate
<1> QED
  BY <1>1, <1>2

-----------------------------------------------------------------------------
(* A key is added.                                                         *)

(* The new inner node above the node that was found and the new leaf: the  *)
(* first bit in which the new key differs from the others tells them       *)
(* apart.                                                                  *)
SplitOff(k, B, oldnode, B2, c) ==
  /\ Splits(B2, c)
  /\ B2 = B \cup {k}
  /\ Side(B2, c, Bit(k, c)) = {k} /\ Side(B2, c, 1 - Bit(k, c)) = B
  /\ Blocks(B2) = {B2} \cup Blocks(B) \cup {{k}}
  /\ TrieOf(B2) = IF Bit(k, c) = 1 THEN Inner(TrieOf(B), Leaf(k))
                                   ELSE Inner(Leaf(k), TrieOf(B))
  /\ oldnode.hash = TrieOf(B) /\ oldnode.parent = store[TrieOf(B)].parent
  /\ Fits(oldnode, B)
  /\ oldnode = Node(oldnode.hash, oldnode.mask, oldnode.prefix, oldnode.parent)
  /\ \A parent : (\E Z \in SUBSET Keys : parent = TrieOf(Z)) =>
       Fits(Node(TrieOf(B2), c, oldnode.prefix, parent), B2)
  /\ Fits(NewLeaf(k), {k})

LEMMA SplitsOff ==
  ASSUME NEW S \in SUBSET Keys, Exact(store, S), NEW k \in Keys, k \notin S,
         NEW G, Changed(S, k, G),
         NEW d \in 0 .. Depth, Match(S, k, d) # {}, Stops(TrieOf(Match(S, k, d)), k),
         NEW B, B = Match(S, k, d), NEW oldnode, oldnode = Load(Started, TrieOf(B)),
         NEW B2, B2 = Match(G, k, d), NEW c, c = CommonPrefixSize(oldnode.prefix, k)
  PROVE  SplitOff(k, B, oldnode, B2, c)
<1> DEFINE record == store[TrieOf(B)]
           p == record.prefix
<1>1. B \in SUBSET Keys /\ B # {} /\ k \notin B
  BY MatchPart
<1>16. B2 = B \cup {k}
  BY MatchChanged, <1>1 DEF Changed
<1>2. Fits(record, B) /\ ~ Similar(record, k)
  BY FoundNode
<1>3. p \in Keys /\ (\A j \in B : Agree(p, j, record.mask)) /\ ~ Agree(p, k, record.mask)
      /\ record.mask = CommonBits(B) /\ record.mask \in 0 .. Depth
  BY <1>1, <1>2, CommonBitsType DEF Fits, Similar
<1>4. /\ oldnode.hash = TrieOf(B) /\ oldnode.mask = record.mask
      /\ oldnode.prefix = p /\ oldnode.parent = record.parent
  BY NodeFields DEF Load, Started
<1>5. p # k
  BY <1>3 DEF Agree
<1>6. PICK m \in 0 .. Depth - 1 : Agree(p, k, m) /\ Bit(p, m) # Bit(k, m)
  BY <1>3, <1>5, FirstDifference
<1>7. c = m
  BY <1>3, <1>4, <1>6, CommonPrefixIs
<1>8. m < record.mask
  <2> SUFFICES ASSUME record.mask <= m PROVE FALSE
    BY <1>3, <1>6, DepthType
  <2> QED
    BY <1>3, <1>6, AgreeFewer
<1>9. \A j \in B : Agree(p, j, m) /\ Bit(p, m) = Bit(j, m)
  <2> SUFFICES ASSUME NEW j \in B PROVE Agree(p, j, m) /\ Bit(p, m) = Bit(j, m)
    OBVIOUS
  <2>1. Agree(p, j, record.mask)
    BY <1>3
  <2>2. m \in 0 .. record.mask - 1
    BY <1>3, <1>8
  <2> QED
    BY <1>3, <1>6, <1>8, <2>1, <2>2, AgreeFewer DEF Agree
<1>10. \A j \in B2 : Agree(p, j, m)
  BY <1>6, <1>9, <1>16
<1>11. \A i, j \in B2 : Agree(i, j, m)
  BY <1>10 DEF Agree
<1>12. Bit(k, m) \in {0, 1} /\ \A j \in B : Bit(j, m) = 1 - Bit(k, m)
  <2>1. \A j \in Keys : Bit(j, m) \in {0, 1}
    BY <1>6, BitType
  <2> QED
    BY <1>1, <1>3, <1>6, <1>9, <2>1
<1>13. Side(B2, m, Bit(k, m)) = {k} /\ Side(B2, m, 1 - Bit(k, m)) = B
  BY <1>1, <1>12, <1>16 DEF Side
<1>14. Splits(B2, m)
  <2>1. Side(B2, m, 0) # {} /\ Side(B2, m, 1) # {}
    BY <1>1, <1>12, <1>13
  <2> QED
    BY <1>6, <1>11, <2>1 DEF Splits
<1>15. B2 \in SUBSET Keys
  BY <1>1, <1>16
<1>17. Blocks(B2) = {B2} \cup Blocks(B) \cup {{k}}
  <2>1. Blocks(B2) = {B2} \cup Blocks(Side(B2, m, 0)) \cup Blocks(Side(B2, m, 1))
    BY <1>14, <1>15, BlocksSplit
  <2>2. Blocks({k}) = {{k}}
    BY BlocksOne
  <2>3. \/ Side(B2, m, 0) = {k} /\ Side(B2, m, 1) = B
        \/ Side(B2, m, 0) = B /\ Side(B2, m, 1) = {k}
    BY <1>12, <1>13
  <2> QED
    BY <2>1, <2>2, <2>3
<1>18. TrieOf(B2) = IF Bit(k, m) = 1 THEN Inner(TrieOf(B), Leaf(k))
                                     ELSE Inner(Leaf(k), TrieOf(B))
  <2>1. TrieOf(B2) = Inner(TrieOf(Side(B2, m, 0)), TrieOf(Side(B2, m, 1)))
    BY <1>14, <1>15, TrieOfSplit
  <2>2. TrieOf({k}) = Leaf(k)
    BY TrieOfOne
  <2>3. CASE Bit(k, m) = 0
    BY <1>13, <2>1, <2>2, <2>3
  <2>4. CASE Bit(k, m) = 1
    BY <1>13, <2>1, <2>2, <2>4
  <2> QED
    BY <1>12, <2>3, <2>4
<1>19. Fits(oldnode, B)
  BY <1>2, <1>4 DEF Fits, Similar
<1>20. oldnode = Node(oldnode.hash, oldnode.mask, oldnode.prefix, oldnode.parent)
  BY LoadIsNode
<1>21. ASSUME NEW parent, \E Z \in SUBSET Keys : parent = TrieOf(Z)
       PROVE  Fits(Node(TrieOf(B2), c, oldnode.prefix, parent), B2)
  <2> DEFINE new == Node(TrieOf(B2), c, oldnode.prefix, parent)
  <2>1. new.mask = m /\ new.prefix = p /\ new.parent = parent
    BY <1>4, <1>7, NodeFields
  <2>2. CommonBits(B2) = m
    BY <1>14, <1>15, CommonBitsIs
  <2> HIDE DEF new
  <2>3. \A j \in B2 : Similar(new, j)
    BY <1>10, <2>1 DEF Similar
  <2> QED
    BY <1>3, <1>21, <2>1, <2>2, <2>3 DEF Fits, new
<1>22. Fits(NewLeaf(k), {k})
  <2>1. NewLeaf(k).mask = Depth /\ NewLeaf(k).prefix = k /\ NewLeaf(k).parent = TrieOf({})
    BY NodeFields, TrieOfNone DEF NewLeaf
  <2>2. CommonBits({k}) = Depth
    BY CommonBitsOne
  <2> QED
    BY <2>1, <2>2 DEF Fits, Similar, Agree
<1> QED
  BY <1>4, <1>7, <1>13, <1>14, <1>16, <1>17, <1>18, <1>19, <1>20, <1>21, <1>22
DEF SplitOff

(* The records of the new leaf, the node that was found and, in the place  *)
(* of the root, the new inner node are written. *)
SplitWritten(k, G, B, oldnode, B2, intermediate, before) ==
  /\ Doing(before, root, G)
  /\ DOMAIN store \cup {Leaf(k)} \subseteq DOMAIN before.store
  /\ DOMAIN before.store \subseteq DOMAIN store \cup {Leaf(k), TrieOf(B2)}
  /\ before.store[Leaf(k)].parent = TrieOf(B2)
  /\ before.store[TrieOf(B)].parent = TrieOf(B2)
  /\ oldnode.parent = None =>
       TrieOf(B2) \in DOMAIN before.store /\ before.store[TrieOf(B2)].parent = None
  /\ \A h \in DOMAIN store :
       h # Leaf(k) /\ h # TrieOf(B) /\ h # TrieOf(B2) => before.store[h] = store[h]
  /\ Fits(intermediate, B2)

LEMMA SplitWrites ==
  ASSUME NEW S \in SUBSET Keys, Exact(store, S), Safe(Here), NEW k \in Keys, k \notin S,
         NEW G, Changed(S, k, G),
         NEW d \in 0 .. Depth, Match(S, k, d) # {}, Stops(TrieOf(Match(S, k, d)), k),
         NEW B, B = Match(S, k, d), NEW oldnode, oldnode = Load(Started, TrieOf(B)),
         NEW B2, B2 = Match(G, k, d),
         NEW intermediate,
         intermediate = Node(TrieOf(B2), CommonPrefixSize(oldnode.prefix, k),
                             oldnode.prefix, oldnode.parent),
         NEW children,
         children = ToDb(ToDb(Started, [NewLeaf(k) EXCEPT !.parent = intermediate.hash]),
                         [oldnode EXCEPT !.parent = intermediate.hash]),
         NEW before,
         before = IF oldnode.parent = None THEN ToDb(children, intermediate) ELSE children
  PROVE  SplitWritten(k, G, B, oldnode, B2, intermediate, before)
<1> DEFINE c == CommonPrefixSize(oldnode.prefix, k)
           leaf1 == [NewLeaf(k) EXCEPT !.parent = intermediate.hash]
           old1 == [oldnode EXCEPT !.parent = intermediate.hash]
           op1 == ToDb(Started, leaf1)
           op2 == ToDb(op1, old1)
           op3 == ToDb(op2, intermediate)
<1>1. B \in SUBSET Keys /\ B # {} /\ k \notin B /\ B2 \in SUBSET Keys /\ B2 # {}
      /\ k \in B2
  BY MatchPart, MatchChanged DEF Changed
<1>2. /\ Splits(B2, c)
      /\ oldnode.hash = TrieOf(B) /\ oldnode.parent = store[TrieOf(B)].parent
      /\ Fits(oldnode, B)
      /\ oldnode = Node(oldnode.hash, oldnode.mask, oldnode.prefix, oldnode.parent)
      /\ \A parent : (\E Z \in SUBSET Keys : parent = TrieOf(Z)) =>
           Fits(Node(TrieOf(B2), c, oldnode.prefix, parent), B2)
      /\ Fits(NewLeaf(k), {k})
  <2>1. SplitOff(k, B, oldnode, B2, c)
    BY SplitsOff
  <2> QED
    BY <2>1 DEF SplitOff
<1>3. TrieOf({k}) = Leaf(k) /\ {k} \in SUBSET Keys /\ {k} # {}
  BY TrieOfOne
<1>4. TrieOf(B) # TrieOf(B2) /\ TrieOf(B) # TrieOf({k}) /\ TrieOf(B2) # TrieOf({k})
      /\ TrieOf(B) \in DOMAIN store
  <2>1. B # B2 /\ B # {k} /\ B2 # {k}
    BY <1>1, MatchChanged DEF Changed
  <2>2. TrieOf(B) \in DOMAIN store
    BY FoundNode
  <2> QED
    BY <1>1, <1>3, <2>1, <2>2, TrieInjective
<1>5. intermediate.hash = TrieOf(B2) /\ intermediate.parent = oldnode.parent
  BY NodeFields
<1>6. Fits(intermediate, B2)
  <2>1. \E Z \in SUBSET Keys : oldnode.parent = TrieOf(Z)
    BY <1>2 DEF Fits
  <2> QED
    BY <1>2, <2>1
<1>7. leaf1.hash = TrieOf({k}) /\ Fits(leaf1, {k}) /\ leaf1.parent = TrieOf(B2)
  <2>1. leaf1 = Node(Leaf(k), Depth, k, TrieOf(B2))
    BY <1>5, NodeFields DEF NewLeaf
  <2>2. NewLeaf(k).mask = Depth /\ NewLeaf(k).prefix = k
    BY NodeFields DEF NewLeaf
  <2> HIDE DEF leaf1
  <2>3. leaf1.hash = Leaf(k) /\ leaf1.mask = Depth /\ leaf1.prefix = k
        /\ leaf1.parent = TrieOf(B2)
    BY <2>1, NodeFields
  <2> QED
    BY <1>1, <1>2, <1>3, <2>2, <2>3, FitsNewParent
<1>8. old1.hash = TrieOf(B) /\ Fits(old1, B) /\ old1.parent = TrieOf(B2)
  <2>1. old1 = Node(oldnode.hash, oldnode.mask, oldnode.prefix, TrieOf(B2))
    <3> DEFINE h == oldnode.hash
               m == oldnode.mask
               p == oldnode.prefix
               a == oldnode.parent
    <3>1. oldnode = Node(h, m, p, a)
      BY <1>2
    <3> HIDE DEF h, m, p, a
    <3>2. old1 = Node(h, m, p, TrieOf(B2))
      BY <1>5, <3>1, NodeFields
    <3> QED
      BY <3>2 DEF h, m, p
  <2> HIDE DEF old1
  <2>3. old1.hash = oldnode.hash /\ old1.mask = oldnode.mask /\ old1.prefix = oldnode.prefix
        /\ old1.parent = TrieOf(B2)
    BY <2>1, NodeFields
  <2> QED
    BY <1>1, <1>2, <2>3, FitsNewParent
<1> HIDE DEF leaf1, old1
<1>9. Doing(Started, root, G) /\ Started.store = store
  BY DoingStarted
<1>10. Doing(op1, root, G) /\ Put(store, TrieOf({k}), leaf1, op1.store)
  BY <1>3, <1>7, <1>9, DoingPut
<1> HIDE DEF op1
<1>11. Doing(op2, root, G) /\ Put(op1.store, TrieOf(B), old1, op2.store)
  BY <1>1, <1>8, <1>10, DoingPut
<1> HIDE DEF op2
<1>12. Doing(op3, root, G) /\ Put(op2.store, TrieOf(B2), intermediate, op3.store)
  BY <1>1, <1>5, <1>6, <1>11, DoingPut
<1> HIDE DEF op3
<1>13. before = IF oldnode.parent = None THEN op3 ELSE op2
  BY DEF op3, op2, op1, old1, leaf1
<1>14. CASE oldnode.parent = None
  <2>1. before = op3
    BY <1>13, <1>14
  <2>2. /\ DOMAIN op3.store = DOMAIN store \cup {Leaf(k), TrieOf(B2)}
        /\ op3.store[Leaf(k)].parent = TrieOf(B2)
        /\ op3.store[TrieOf(B)].parent = TrieOf(B2)
        /\ op3.store[TrieOf(B2)].parent = None
    <3>1. DOMAIN op3.store = DOMAIN store \cup {Leaf(k), TrieOf(B2)}
      BY <1>3, <1>4, <1>10, <1>11, <1>12 DEF Put
    <3>2. op1.store[Leaf(k)].parent = TrieOf(B2) /\ Leaf(k) \in DOMAIN op1.store
      BY <1>3, <1>7, <1>10 DEF Put
    <3>3. /\ op2.store[Leaf(k)].parent = TrieOf(B2) /\ Leaf(k) \in DOMAIN op2.store
          /\ op2.store[TrieOf(B)].parent = TrieOf(B2) /\ TrieOf(B) \in DOMAIN op2.store
      BY <1>3, <1>4, <1>8, <1>11, <3>2 DEF Put
    <3> QED
      BY <1>3, <1>4, <1>5, <1>12, <1>14, <3>1, <3>3 DEF Put
  <2>3. \A h \in DOMAIN store :
          h # Leaf(k) /\ h # TrieOf(B) /\ h # TrieOf(B2) => op3.store[h] = store[h]
    BY <1>3, <1>10, <1>11, <1>12 DEF Put
  <2> QED
    BY <1>6, <1>12, <2>1, <2>2, <2>3 DEF SplitWritten
<1>15. CASE oldnode.parent # None
  <2>1. before = op2
    BY <1>13, <1>15
  <2>2. /\ DOMAIN op2.store = DOMAIN store \cup {Leaf(k)}
        /\ op2.store[Leaf(k)].parent = TrieOf(B2)
        /\ op2.store[TrieOf(B)].parent = TrieOf(B2)
    BY <1>3, <1>4, <1>7, <1>8, <1>10, <1>11 DEF Put
  <2>3. \A h \in DOMAIN store :
          h # Leaf(k) /\ h # TrieOf(B) /\ h # TrieOf(B2) => op2.store[h] = store[h]
    BY <1>3, <1>10, <1>11 DEF Put
  <2> QED
    BY <1>6, <1>11, <1>15, <2>1, <2>2, <2>3 DEF SplitWritten
<1> QED
  BY <1>14, <1>15

(* The climb starts with them. *)
LEMMA SplitReached ==
  ASSUME NEW S \in SUBSET Keys, Exact(store, S), Safe(Here), NEW k \in Keys, k \notin S,
         NEW G, Changed(S, k, G),
         NEW d \in 0 .. Depth, Match(S, k, d) # {}, Stops(TrieOf(Match(S, k, d)), k),
         NEW B, B = Match(S, k, d), NEW oldnode, oldnode = Load(Started, TrieOf(B)),
         NEW B2, B2 = Match(G, k, d),
         NEW intermediate,
         intermediate = Node(TrieOf(B2), CommonPrefixSize(oldnode.prefix, k),
                             oldnode.prefix, oldnode.parent),
         NEW children,
         children = ToDb(ToDb(Started, [NewLeaf(k) EXCEPT !.parent = intermediate.hash]),
                         [oldnode EXCEPT !.parent = intermediate.hash]),
         NEW before,
         before = IF oldnode.parent = None THEN ToDb(children, intermediate) ELSE children
  PROVE  Reached(Climb(before, oldnode, intermediate, <<>>), S, k, G, d)
<1> DEFINE climb == Climb(before, oldnode, intermediate, <<>>)
           c == CommonPrefixSize(oldnode.prefix, k)
           new == before.store
<1>1. B \in SUBSET Keys /\ B # {} /\ k \notin B /\ B2 \in SUBSET Keys /\ B2 # {}
      /\ k \in B2
  BY MatchPart, MatchChanged DEF Changed
<1>2. /\ Splits(B2, c) /\ c \in 0 .. Depth - 1
      /\ Side(B2, c, Bit(k, c)) = {k} /\ Side(B2, c, 1 - Bit(k, c)) = B
      /\ Blocks(B2) = {B2} \cup Blocks(B) \cup {{k}}
      /\ oldnode.hash = TrieOf(B) /\ oldnode.parent = store[TrieOf(B)].parent
  <2>1. SplitOff(k, B, oldnode, B2, c)
    BY SplitsOff
  <2> QED
    BY <2>1 DEF SplitOff, Splits
<1>3. /\ Doing(before, root, G)
      /\ DOMAIN store \cup {Leaf(k)} \subseteq DOMAIN new
      /\ DOMAIN new \subseteq DOMAIN store \cup {Leaf(k), TrieOf(B2)}
      /\ new[Leaf(k)].parent = TrieOf(B2)
      /\ new[TrieOf(B)].parent = TrieOf(B2)
      /\ oldnode.parent = None =>
           TrieOf(B2) \in DOMAIN new /\ new[TrieOf(B2)].parent = None
      /\ \A h \in DOMAIN store :
           h # Leaf(k) /\ h # TrieOf(B) /\ h # TrieOf(B2) => new[h] = store[h]
      /\ Fits(intermediate, B2)
  <2>1. SplitWritten(k, G, B, oldnode, B2, intermediate, before)
    BY SplitWrites
  <2> QED
    BY <2>1 DEF SplitWritten
<1>4. climb.op = before /\ climb.oldchild = oldnode /\ climb.child = intermediate
      /\ climb.replaced = <<>> /\ climb = Climb(before, oldnode, intermediate, <<>>)
  BY DEF Climb
<1>5. intermediate.hash = TrieOf(B2)
      /\ intermediate = Node(intermediate.hash, intermediate.mask, intermediate.prefix,
                             intermediate.parent)
  BY NodeFields
<1> HIDE DEF climb, c
<1>6. TrieOf({k}) = Leaf(k)
  BY TrieOfOne
<1>7. Blocks(B) \subseteq Blocks(S) /\ DOMAIN store = NodesOf(S)
  BY MatchIsBlock, BlockBlocks DEF Exact
<1>8. \A X \in Blocks(S) : X # B => new[TrieOf(X)] = store[TrieOf(X)]
  <2> SUFFICES ASSUME NEW X \in Blocks(S), X # B
               PROVE  new[TrieOf(X)] = store[TrieOf(X)]
    OBVIOUS
  <2>1. X \in SUBSET Keys /\ k \notin X
    BY BlockPart
  <2>2. TrieOf(X) \in DOMAIN store
    BY <1>7 DEF NodesOf
  <2>3. X # {k} /\ X # B2 /\ {k} \in SUBSET Keys
    BY <1>1, <2>1
  <2>4. TrieOf(X) # TrieOf(B) /\ TrieOf(X) # TrieOf(B2) /\ TrieOf(X) # TrieOf({k})
    BY <1>1, <2>1, <2>3, TrieInjective
  <2> QED
    BY <1>3, <1>6, <2>2, <2>4
<1>9. B = S => TrieOf(G) \in DOMAIN new /\ new[TrieOf(G)].parent = None
  <2> SUFFICES ASSUME B = S PROVE TrieOf(G) \in DOMAIN new /\ new[TrieOf(G)].parent = None
    OBVIOUS
  <2>1. oldnode.parent = None
    <3>1. S # {} /\ Exact(store, S)
      BY <1>1
    <3>2. store[TrieOf(S)].parent = None
      BY ONLY <3>1 DEF Exact
    <3> QED
      BY <1>2, <3>2
  <2>2. B2 = G
    <3>1. Changed(B, k, B2) /\ Changed(S, k, G) /\ k \notin B /\ B = S
      BY <1>1, MatchChanged
    <3> QED
      BY ONLY <3>1 DEF Changed
  <2> QED
    BY <1>3, <2>1, <2>2
<1>10. \A X \in Blocks(B2) : X # B2 => TrieOf(X) \in DOMAIN new
  <2> SUFFICES ASSUME NEW X \in Blocks(B2), X # B2
               PROVE  TrieOf(X) \in DOMAIN new
    OBVIOUS
  <2>1. X \in Blocks(B) \/ X = {k}
    BY <1>2
  <2>2. /\ DOMAIN store \subseteq DOMAIN new /\ Leaf(k) \in DOMAIN new
        /\ TrieOf({k}) = Leaf(k)
    BY <1>3, <1>6
  <2>3. X \in Blocks(B) => TrieOf(X) \in DOMAIN store
    BY <1>7 DEF NodesOf
  <2> HIDE DEF new
  <2> QED
    BY ONLY <2>1, <2>2, <2>3
<1>11. Linked(new, B2)
  <2> SUFFICES ASSUME NEW Q \in Blocks(B2), NEW i \in 0 .. Depth - 1, NEW v \in {0, 1},
                      Splits(Q, i)
               PROVE  new[TrieOf(Side(Q, i, v))].parent = TrieOf(Q)
    BY DEF Linked
  <2>1. CASE Q = B2
    <3>1. i = c
      BY <1>1, <1>2, <2>1, SplitOnce
    <3>2. Bit(k, c) \in {0, 1}
      BY <1>2, BitType
    <3>3. Side(Q, i, v) = {k} \/ Side(Q, i, v) = B
      BY <1>2, <2>1, <3>1, <3>2
    <3>4. /\ new[Leaf(k)].parent = TrieOf(B2) /\ new[TrieOf(B)].parent = TrieOf(B2)
          /\ TrieOf({k}) = Leaf(k)
      BY <1>3, <1>6
    <3> HIDE DEF new
    <3> QED
      BY ONLY <2>1, <3>3, <3>4
  <2>2. CASE Q \in Blocks(B)
    <3>1. Q \in Blocks(S) /\ Q \in SUBSET Keys /\ Q \subseteq B
      BY <1>1, <1>7, <2>2, BlockPart
    <3>2. Side(Q, i, v) \in Blocks(Q) /\ Side(Q, i, v) # Q /\ Side(Q, i, v) \subseteq Q
      BY <3>1, SideIsBlock DEF Side
    <3>3. Side(Q, i, v) \in Blocks(S) /\ Side(Q, i, v) # B
      BY <3>1, <3>2, BlockBlocks
    <3>4. new[TrieOf(Side(Q, i, v))] = store[TrieOf(Side(Q, i, v))]
      BY <1>8, <3>3
    <3>5. /\ i \in 0 .. Depth - 1 /\ v \in {0, 1} /\ Splits(Q, i)
          /\ Exact(store, S)
      OBVIOUS
    <3>6. store[TrieOf(Side(Q, i, v))].parent = TrieOf(Q)
      BY ONLY <3>1, <3>5 DEF Exact, Linked
    <3> HIDE DEF new
    <3> QED
      BY ONLY <3>4, <3>6
  <2>3. CASE Q = {k}
    <3>1. Side(Q, i, 0) # {} /\ Side(Q, i, 1) # {}
      BY DEF Splits
    <3> QED
      BY <2>3, <3>1 DEF Side
  <2> QED
    BY <1>2, <2>1, <2>2, <2>3
<1>12. NodesOf(S) \subseteq DOMAIN new /\ DOMAIN new \subseteq NodesOf(S) \cup NodesOf(B2)
  <2>1. Leaf(k) \in NodesOf(B2) /\ TrieOf(B2) \in NodesOf(B2)
    BY <1>2, <1>6 DEF NodesOf
  <2>2. /\ DOMAIN store \cup {Leaf(k)} \subseteq DOMAIN new
        /\ DOMAIN new \subseteq DOMAIN store \cup {Leaf(k), TrieOf(B2)}
        /\ DOMAIN store = NodesOf(S)
    BY <1>3, <1>7
  <2> HIDE DEF new
  <2> QED
    BY <2>1, <2>2
<1>13. climb.replaced \in Seq(NodesOf(S))
       /\ Range(climb.replaced) = {TrieOf(X) : X \in Blocks(B) \ Blocks(B2)}
  <2>1. Range(climb.replaced) = {}
    <3>1. DOMAIN climb.replaced = {}
      BY ONLY <1>4
    <3> QED
      BY ONLY <3>1 DEF Range
  <2>2. Blocks(B) \ Blocks(B2) = {}
    BY <1>2
  <2>3. {TrieOf(X) : X \in Blocks(B) \ Blocks(B2)} = {}
    BY ONLY <2>2
  <2>4. climb.replaced \in Seq(NodesOf(S))
    BY ONLY <1>4
  <2> QED
    BY ONLY <2>1, <2>3, <2>4
<1>14. \A X \in Blocks(S) : ~ (X \subseteq B) => new[TrieOf(X)] = store[TrieOf(X)]
  BY <1>8
<1> HIDE DEF new
<1>15. Reached(climb, S, k, G, d)
  BY <1>1, <1>2, <1>3, <1>4, <1>5, <1>9, <1>10, <1>11, <1>12, <1>13, <1>14
  DEF Reached, new
<1> QED
  BY <1>15 DEF climb

LEMMA ExactIsSafe ==
  ASSUME NEW S \in SUBSET Keys, Exact(store, S), root = TrieOf(S)
  PROVE  Safe(Here)
BY MomentFields DEF Exact, Safe, Here

(* insert puts the key in its place. *)
LEMMA Inserts ==
  ASSUME NEW S \in SUBSET Keys, Exact(store, S), root = TrieOf(S), S # {},
         NEW k \in Keys, k \notin S, NEW G, Changed(S, k, G)
  PROVE  Doing(Insertion(k), TrieOf(G), G) /\ Exact(Insertion(k).store, G)
<1>1. PICK d \in 0 .. Depth :
        /\ Match(S, k, d) # {}
        /\ Locate(TrieOf(S), k) = TrieOf(Match(S, k, d))
        /\ Stops(TrieOf(Match(S, k, d)), k)
  BY Locates
<1>2. Safe(Here)
  BY ExactIsSafe
<1> DEFINE B == Match(S, k, d)
           B2 == Match(G, k, d)
           oldnode == Load(Started, TrieOf(B))
           c == CommonPrefixSize(oldnode.prefix, k)
           intermediate == Node(TrieOf(B2), c, oldnode.prefix, oldnode.parent)
           children ==
             ToDb(ToDb(Started, [NewLeaf(k) EXCEPT !.parent = intermediate.hash]),
                  [oldnode EXCEPT !.parent = intermediate.hash])
           before == IF oldnode.parent = None THEN ToDb(children, intermediate)
                                              ELSE children
           climb == Climb(before, oldnode, intermediate, <<>>)
<1>3. root # None /\ TrieOf(B) # None
  BY <1>1, MatchPart, TrieOfNone
<1>4. Insertion(k) = Split(TrieOf(B), k)
  BY <1>1, <1>3 DEF Insertion
<1>5. SplitOff(k, B, oldnode, B2, c)
  BY <1>1, SplitsOff
<1>6. TrieOf(B2) = IF Bit(k, c) = 1 THEN Inner(TrieOf(B), Leaf(k))
                                    ELSE Inner(Leaf(k), TrieOf(B))
  BY <1>5 DEF SplitOff
<1>7. Split(TrieOf(B), k) = MoveRoot(ClimbedInserted(climb))
  BY <1>6 DEF Split
<1>8. Reached(climb, S, k, G, d)
  BY <1>1, <1>2, SplitReached
<1> HIDE DEF climb
<1>9. PICK e \in 0 .. Depth :
        Reached(ClimbedInserted(climb), S, k, G, e) /\ Match(S, k, e) = S
  BY <1>8, ReachesInserted
<1> QED
  BY <1>4, <1>7, <1>9, MovesRoot

(* The first key becomes the root. *)
LEMMA AddsFirst ==
  ASSUME Exact(store, {}), root = TrieOf({}), NEW k \in Keys
  PROVE  \E new : /\ Leads(Here, Adding(k).writes, Moment(new, TrieOf({k}), triesize), {k})
                  /\ Exact(new, {k})
<1> DEFINE op1 == ToDb(Started, NewLeaf(k))
           op2 == SetRoot(op1, TrieOf({k}))
<1>1. TrieOf({k}) = Leaf(k) /\ {k} \in SUBSET Keys /\ {k} # {} /\ {} \in SUBSET Keys
  BY TrieOfOne
<1>2. DOMAIN store = {} /\ root = None
  BY <1>1, BlocksNone, TrieOfNone DEF Exact, NodesOf
<1>3. Adding(k).writes = NewRoot(Started, k).writes
  <2>1. Adding(k) = NewRoot(Ends(Started, "notfound"), k)
    <3>1. Insertion(k) = Ends(Started, "notfound")
      BY <1>2 DEF Insertion
    <3>2. Insertion(k).end = "notfound"
      BY <3>1 DEF Ends, Started
    <3> QED
      BY <3>1, <3>2 DEF Adding
  <2>2. NewRoot(Ends(Started, "notfound"), k).writes
          = Append(Append(<<>>, PutWrite(NewLeaf(k))), RootWrite(Leaf(k)))
    BY DEF NewRoot, Ends, Started, SetRoot, ToDb, Does
  <2>3. NewRoot(Started, k).writes
          = Append(Append(<<>>, PutWrite(NewLeaf(k))), RootWrite(Leaf(k)))
    BY DEF NewRoot, Started, SetRoot, ToDb, Does
  <2> QED
    BY <2>1, <2>2, <2>3
<1>4. NewRoot(Started, k) = op2
  BY <1>1 DEF NewRoot
<1>5. NewLeaf(k).hash = TrieOf({k}) /\ NewLeaf(k).parent = None /\ Fits(NewLeaf(k), {k})
  <2>1. NewLeaf(k).hash = Leaf(k) /\ NewLeaf(k).mask = Depth /\ NewLeaf(k).prefix = k
        /\ NewLeaf(k).parent = None
    BY NodeFields DEF NewLeaf
  <2>2. CommonBits({k}) = Depth
    BY CommonBitsOne
  <2>3. NewLeaf(k).parent = TrieOf({})
    BY <2>1, TrieOfNone
  <2> QED
    BY <1>1, <2>1, <2>2, <2>3 DEF Fits, Similar, Agree
<1>6. Doing(Started, root, {k}) /\ Started.store = store
  BY <1>1, ExactIsSafe, DoingStarted
<1>7. Doing(op1, root, {k}) /\ Put(store, TrieOf({k}), NewLeaf(k), op1.store)
  BY <1>1, <1>5, <1>6, DoingPut
<1> HIDE DEF op1
<1>8. Blocks({k}) = {{k}} /\ NodesOf({k}) = {TrieOf({k})}
  <2>1. Blocks({k}) = {{k}}
    BY BlocksOne
  <2> QED
    BY <2>1 DEF NodesOf
<1>9. DOMAIN op1.store = NodesOf({k}) /\ op1.store[TrieOf({k})].parent = None
  BY <1>2, <1>5, <1>7, <1>8 DEF Put
<1>10. Doing(op2, TrieOf({k}), {k}) /\ op2.store = op1.store
  BY <1>1, <1>7, <1>9, DoingRoot
<1> HIDE DEF op2
<1>11. Linked(op2.store, {k})
  <2> SUFFICES ASSUME NEW P \in Blocks({k}), NEW c \in 0 .. Depth - 1, Splits(P, c)
               PROVE  FALSE
    BY DEF Linked
  <2>1. P = {k}
    BY <1>8
  <2>2. Side(P, c, 0) # {} /\ Side(P, c, 1) # {}
    BY DEF Splits
  <2> QED
    BY <2>1, <2>2 DEF Side
<1>12. Exact(op2.store, {k})
  BY <1>9, <1>10, <1>11, DoingEnd DEF Exact
<1>13. Leads(Here, op2.writes, Moment(op2.store, TrieOf({k}), triesize), {k})
  BY <1>10 DEF Doing
<1> QED
  BY <1>3, <1>4, <1>12, <1>13

(* add leaves the trie of all keys and the new one behind. *)
LEMMA Adds ==
  ASSUME NEW S \in SUBSET Keys, Exact(store, S), root = TrieOf(S),
         NEW k \in Keys, k \notin S, NEW G, G = S \cup {k}
  PROVE  \E new : /\ Leads(Here, Adding(k).writes, Moment(new, TrieOf(G), triesize), G)
                  /\ Exact(new, G)
<1>1. CASE S = {}
  <2>1. G = {k}
    BY <1>1
  <2> QED
    BY <1>1, <2>1, AddsFirst
<1>2. CASE S # {}
  <2>1. Changed(S, k, G)
    BY DEF Changed
  <2>2. Doing(Insertion(k), TrieOf(G), G) /\ Exact(Insertion(k).store, G)
    BY <1>2, <2>1, Inserts
  <2>3. Adding(k) = Insertion(k)
    BY <2>2, DoingEnd DEF Adding
  <2> QED
    BY <2>2, <2>3 DEF Doing
<1> QED
  BY <1>1, <1>2

-----------------------------------------------------------------------------
(* A key is removed.                                                       *)

LEMMA LeafOfKey ==
  ASSUME NEW S \in SUBSET Keys, Exact(store, S), NEW k \in S
  PROVE  /\ Match(S, k, Depth) = {k} /\ {k} \in Blocks(S)
         /\ TrieOf({k}) = Leaf(k) /\ Leaf(k) \in DOMAIN store
<1>1. k \in Keys /\ \A j \in S : j \in Keys
  OBVIOUS
<1>2. Match(S, k, Depth) = {k}
  <2>1. k \in Match(S, k, Depth)
    BY DEF Match, Agree
  <2>2. \A j \in Match(S, k, Depth) : j = k
    BY <1>1, AgreeAll DEF Match
  <2> QED
    BY <2>1, <2>2
<1>3. Depth \in 0 .. Depth
  BY DepthType
<1>4. {k} \in Blocks(S)
  BY <1>1, <1>2, <1>3 DEF Blocks
<1>5. TrieOf({k}) = Leaf(k)
  BY <1>1, TrieOfOne
<1> QED
  BY <1>2, <1>4, <1>5 DEF Exact, NodesOf

(* The leaf of k, its parent P and the other child O. *)
Siblings(S, k, e, P, O) ==
  /\ e \in 0 .. Depth - 1 /\ P = Match(S, k, e)
  /\ P \in SUBSET Keys /\ O \in SUBSET Keys /\ P \in Blocks(S) /\ O \in Blocks(S)
  /\ O # {} /\ k \notin O /\ P = O \cup {k}
  /\ Blocks(P) = {P} \cup Blocks(O) \cup {{k}}
  /\ TrieOf(P) \in {Inner(Leaf(k), TrieOf(O)), Inner(TrieOf(O), Leaf(k))}
  /\ TrieOf(O) # Leaf(k) /\ TrieOf(P) # Leaf(k) /\ TrieOf(P) # TrieOf(O)
  /\ store[Leaf(k)].parent = TrieOf(P)
  /\ TrieOf(P) \in DOMAIN store /\ TrieOf(O) \in DOMAIN store

LEMMA LeafHasSibling ==
  ASSUME NEW S \in SUBSET Keys, Exact(store, S), NEW k \in S, S # {k}
  PROVE  \E e, P, O : Siblings(S, k, e, P, O)
<1>1. /\ Match(S, k, Depth) = {k} /\ {k} \in Blocks(S)
      /\ TrieOf({k}) = Leaf(k) /\ Leaf(k) \in DOMAIN store
  BY LeafOfKey
<1>2. k \in Keys /\ Depth \in 0 .. Depth
  BY DepthType
<1>3. Match(S, k, Depth) # {} /\ Match(S, k, Depth) # S
  BY <1>1
<1>4. PICK e \in 0 .. Depth - 1 :
        Match(S, k, e + 1) = Match(S, k, Depth) /\ Splits(Match(S, k, e), e)
  BY <1>2, <1>3, ParentOnTheWay
<1> DEFINE P == Match(S, k, e)
           O == Side(P, e, 1 - Bit(k, e))
<1>5. e \in Nat /\ e \in 0 .. Depth /\ Bit(k, e) \in {0, 1}
  BY <1>2, <1>4, BitType
<1>6. Side(P, e, Bit(k, e)) = {k}
  BY <1>1, <1>4, <1>5, SideOfMatch
<1>7. P \in SUBSET Keys /\ k \in P
  BY MatchPart, <1>6 DEF Side
<1>8. P \in Blocks(S)
  BY <1>5, <1>7, MatchIsBlock
<1> HIDE DEF P
<1>9. Splits(P, e)
  BY <1>4 DEF P
<1>10. O \in Blocks(P) /\ O # P /\ O \in SUBSET Keys /\ O # {}
  <2>1. 1 - Bit(k, e) \in {0, 1}
    BY <1>5
  <2> QED
    BY <1>4, <1>7, <1>9, <2>1, SideIsBlock
<1>11. O \in Blocks(S)
  BY <1>8, <1>10, BlockBlocks
<1>12. /\ P = Side(P, e, 0) \cup Side(P, e, 1)
       /\ Side(P, e, 0) \cap Side(P, e, 1) = {}
  BY <1>4, <1>7, SidesPart
<1>13. \/ Side(P, e, 0) = {k} /\ Side(P, e, 1) = O
       \/ Side(P, e, 0) = O /\ Side(P, e, 1) = {k}
  BY <1>5, <1>6
<1> HIDE DEF O
<1>14. k \notin O /\ P = O \cup {k}
  BY <1>12, <1>13
<1>15. Blocks(P) = {P} \cup Blocks(O) \cup {{k}}
  <2>1. Blocks(P) = {P} \cup Blocks(Side(P, e, 0)) \cup Blocks(Side(P, e, 1))
    BY <1>7, <1>9, BlocksSplit
  <2>2. Blocks({k}) = {{k}}
    BY BlocksOne
  <2> QED
    BY <1>13, <2>1, <2>2
<1>16. TrieOf(P) \in {Inner(Leaf(k), TrieOf(O)), Inner(TrieOf(O), Leaf(k))}
  <2>1. TrieOf(P) = Inner(TrieOf(Side(P, e, 0)), TrieOf(Side(P, e, 1)))
    BY <1>7, <1>9, TrieOfSplit
  <2> QED
    BY <1>1, <1>13, <2>1
<1>17. TrieOf(O) # Leaf(k) /\ TrieOf(P) # Leaf(k) /\ TrieOf(P) # TrieOf(O)
  <2>1. {k} \in SUBSET Keys /\ O # {k} /\ P # {k} /\ P # O
    BY <1>2, <1>10, <1>14
  <2> QED
    BY <1>1, <1>7, <1>10, <2>1, TrieInjective
<1>18. store[Leaf(k)].parent = TrieOf(P)
  <2>1. store[TrieOf(Side(P, e, Bit(k, e)))].parent = TrieOf(P)
    BY <1>4, <1>5, <1>8, <1>9 DEF Exact, Linked
  <2> QED
    BY <1>1, <1>6, <2>1
<1>19. TrieOf(P) \in DOMAIN store /\ TrieOf(O) \in DOMAIN store
  BY <1>8, <1>11 DEF Exact, NodesOf
<1>20. Siblings(S, k, e, P, O)
  BY <1>4, <1>7, <1>8, <1>10, <1>11, <1>14, <1>15, <1>16, <1>17, <1>18, <1>19
  DEF Siblings, P
<1> QED
  BY <1>20

LEMMA LoadFields ==
  ASSUME NEW op, NEW hash
  PROVE  /\ Load(op, hash).hash = hash /\ Load(op, hash).mask = op.store[hash].mask
         /\ Load(op, hash).prefix = op.store[hash].prefix
         /\ Load(op, hash).parent = op.store[hash].parent
BY NodeFields DEF Load

(* The other child of the leaf's parent. *)
LEMMA OtherThanLeaf ==
  ASSUME NEW S, NEW k, NEW e, NEW P, NEW O, Siblings(S, k, e, P, O),
         NEW parent, parent.hash = TrieOf(P)
  PROVE  OtherChild(parent, Leaf(k)) = TrieOf(O) /\ IsChild(parent, Leaf(k))
<1>1. \/ TrieOf(P).smaller = Leaf(k) /\ TrieOf(P).larger = TrieOf(O)
      \/ TrieOf(P).smaller = TrieOf(O) /\ TrieOf(P).larger = Leaf(k)
  BY InnerFields DEF Siblings
<1>2. TrieOf(O) # Leaf(k)
  BY DEF Siblings
<1> QED
  BY <1>1, <1>2 DEF OtherChild, IsChild

(* The last key goes with its record. *)
LEMMA ErasesLast ==
  ASSUME NEW k \in Keys, Exact(store, {k}), root = TrieOf({k})
  PROVE  Doing(Erasure(k), TrieOf({}), {}) /\ Exact(Erasure(k).store, {})
<1> DEFINE op1 == SetRoot(Started, TrieOf({}))
           hashes == <<Leaf(k)>>
           op2 == DeleteFromDb(op1, hashes)
<1>1. {k} \in SUBSET Keys /\ {} \in SUBSET Keys /\ k \in {k} /\ TrieOf({}) = None
  BY TrieOfNone
<1>2. TrieOf({k}) = Leaf(k) /\ Leaf(k) \in DOMAIN store
  BY <1>1, LeafOfKey
<1>3. NodesOf({}) = {} /\ NodesOf({k}) = {Leaf(k)}
  <2>1. Blocks({k}) = {{k}}
    BY BlocksOne
  <2>2. NodesOf({}) = {}
    BY BlocksNone DEF NodesOf
  <2>3. NodesOf({k}) = {Leaf(k)}
    BY <1>2, <2>1 DEF NodesOf
  <2> QED
    BY <2>2, <2>3
<1>4. Load(Started, Leaf(k)).parent = None
  <2>1. Started.store = store
    BY DEF Started
  <2>2. store[TrieOf({k})].parent = None
    BY <1>1 DEF Exact
  <2> QED
    BY <1>2, <2>1, <2>2, LoadFields
<1>5. Erasure(k) = op2
  <2>1. Has(Started, Leaf(k))
    BY <1>2 DEF Has, Started
  <2> QED
    BY <1>1, <1>4, <2>1 DEF Erasure
<1>6. Doing(Started, root, {}) /\ Started.store = store
  BY <1>1, ExactIsSafe, DoingStarted
<1>7. Doing(op1, TrieOf({}), {}) /\ op1.store = store
  BY <1>1, <1>3, <1>6, DoingRoot
<1> HIDE DEF op1
<1>8. hashes \in Seq({Leaf(k)}) /\ Range(hashes) = {Leaf(k)}
  BY DEF Range
<1> HIDE DEF hashes
<1>9. Doing(op2, TrieOf({}), {}) /\ DOMAIN op2.store = DOMAIN op1.store \ Range(hashes)
  BY <1>1, <1>3, <1>7, <1>8, DoingDelete
<1> HIDE DEF op2
<1>10. DOMAIN op2.store = NodesOf({})
  BY <1>3, <1>7, <1>8, <1>9 DEF Exact
<1>11. Linked(op2.store, {})
  BY BlocksNone DEF Linked
<1>12. Exact(op2.store, {})
  BY <1>9, <1>10, <1>11, DoingEnd DEF Exact
<1> QED
  BY <1>5, <1>9, <1>12

(* The sibling of the leaf becomes the root. *)
LEMMA ErasesBelowRoot ==
  ASSUME NEW S \in SUBSET Keys, Exact(store, S), root = TrieOf(S), NEW k \in S,
         NEW e, NEW P, NEW O, Siblings(S, k, e, P, O), P = S
  PROVE  Doing(Erasure(k), TrieOf(O), O) /\ Exact(Erasure(k).store, O)
<1> DEFINE leaf == Load(Started, Leaf(k))
           parent == Load(Started, TrieOf(P))
           sibling == Load(Started, TrieOf(O))
           node == [sibling EXCEPT !.parent = None]
           op1 == ToDb(Started, node)
           op2 == SetRoot(op1, TrieOf(O))
           hashes == <<TrieOf(P), Leaf(k)>>
           op3 == DeleteFromDb(op2, hashes)
<1>1. /\ P \in SUBSET Keys /\ O \in SUBSET Keys /\ P \in Blocks(S) /\ O \in Blocks(S)
      /\ O # {} /\ k \notin O /\ P = O \cup {k}
      /\ Blocks(P) = {P} \cup Blocks(O) \cup {{k}}
      /\ TrieOf(O) # Leaf(k) /\ TrieOf(P) # Leaf(k) /\ TrieOf(P) # TrieOf(O)
      /\ store[Leaf(k)].parent = TrieOf(P)
      /\ TrieOf(P) \in DOMAIN store /\ TrieOf(O) \in DOMAIN store
  BY DEF Siblings
<1>2. TrieOf({k}) = Leaf(k) /\ Leaf(k) \in DOMAIN store
  BY LeafOfKey
<1>3. Started.store = store
  BY DEF Started
<1>4. /\ leaf.hash = Leaf(k) /\ leaf.parent = TrieOf(P)
      /\ parent.hash = TrieOf(P) /\ parent.parent = None
      /\ sibling.hash = TrieOf(O)
  BY <1>1, <1>3, LoadFields DEF Exact
<1>5. TrieOf(P) # None
  BY <1>1, TrieOfNone
<1>6. OtherChild(parent, Leaf(k)) = TrieOf(O)
  BY <1>4, OtherThanLeaf
<1>7. Erasure(k) = op3
  <2>1. Has(Started, Leaf(k)) /\ Has(Started, TrieOf(P)) /\ Has(Started, TrieOf(O))
    BY <1>1, <1>2, <1>3 DEF Has
  <2>2. Erasure(k) = EraseBelowRoot(leaf, parent)
    BY <1>4, <1>5, <2>1 DEF Erasure
  <2>3. EraseBelowRoot(leaf, parent) = op3
    BY <1>4, <1>6, <2>1 DEF EraseBelowRoot
  <2> QED
    BY <2>2, <2>3
<1>8. node.hash = TrieOf(O) /\ Fits(node, O) /\ node.parent = None
  <2>1. sibling.mask = store[TrieOf(O)].mask /\ sibling.prefix = store[TrieOf(O)].prefix
        /\ sibling.parent = store[TrieOf(O)].parent
    BY <1>3, LoadFields
  <2>2. Fits(store[TrieOf(O)], O)
    BY <1>1, FitsAt DEF Exact
  <2>3. node = Node(sibling.hash, sibling.mask, sibling.prefix, None)
    <3> DEFINE h == sibling.hash
               m == sibling.mask
               p == sibling.prefix
               a == sibling.parent
    <3>1. sibling = Node(h, m, p, a)
      BY LoadIsNode
    <3> HIDE DEF h, m, p, a
    <3>2. node = Node(h, m, p, None)
      BY <3>1, NodeFields
    <3> QED
      BY <3>2 DEF h, m, p
  <2> HIDE DEF node, sibling
  <2>4. node.hash = sibling.hash /\ node.mask = sibling.mask /\ node.prefix = sibling.prefix
        /\ node.parent = None
    BY <2>3, NodeFields
  <2>5. node.parent = TrieOf({}) /\ {} \in SUBSET Keys
    BY <2>4, TrieOfNone
  <2>6. node.mask = store[TrieOf(O)].mask /\ node.prefix = store[TrieOf(O)].prefix
    BY <2>1, <2>4
  <2>7. Fits(node, O)
    BY <2>2, <2>5, <2>6, FitsNewParent
  <2> QED
    BY <1>4, <2>4, <2>7
<1> HIDE DEF leaf, parent, sibling, node
<1>9. Doing(Started, root, O)
  BY ExactIsSafe, DoingStarted
<1>10. Doing(op1, root, O) /\ Put(store, TrieOf(O), node, op1.store)
  BY <1>1, <1>3, <1>8, <1>9, DoingPut
<1> HIDE DEF op1
<1>11. DOMAIN op1.store = NodesOf(S) /\ NodesOf(O) \subseteq NodesOf(S)
  <2>1. DOMAIN op1.store = DOMAIN store
    BY <1>1, <1>10 DEF Put
  <2>2. Blocks(O) \subseteq Blocks(S)
    BY <1>1, BlockBlocks
  <2> QED
    BY <2>1, <2>2 DEF Exact, NodesOf
<1>12. Doing(op2, TrieOf(O), O) /\ op2.store = op1.store
  BY <1>1, <1>10, <1>11, DoingRoot
<1> HIDE DEF op2
<1>13. hashes \in Seq({TrieOf(P), Leaf(k)}) /\ Range(hashes) = {TrieOf(P), Leaf(k)}
  BY DEF Range
<1>14. TrieOf(P) \notin NodesOf(O) /\ Leaf(k) \notin NodesOf(O)
  <2>1. k \in P /\ k \in {k} /\ {k} \in SUBSET Keys
    BY <1>1
  <2>2. P \notin Blocks(O) /\ {k} \notin Blocks(O)
    BY <1>1, <2>1, BlockPart
  <2> QED
    BY <1>1, <1>2, <2>1, <2>2, NodeOfBlock
<1>15. NodesOf(S) = {TrieOf(P), Leaf(k)} \cup NodesOf(O)
  <2>1. Blocks(S) = {P} \cup Blocks(O) \cup {{k}}
    BY <1>1
  <2>2. NodesOf(S) = {TrieOf(P)} \cup {TrieOf(X) : X \in Blocks(O)} \cup {TrieOf({k})}
    BY <2>1 DEF NodesOf
  <2> QED
    BY <1>2, <2>2 DEF NodesOf
<1> HIDE DEF hashes
<1>16. Range(hashes) \cap NodesOf(O) = {}
  BY <1>13, <1>14
<1>17. /\ Doing(op3, TrieOf(O), O)
       /\ DOMAIN op3.store = DOMAIN op2.store \ Range(hashes)
       /\ \A h \in DOMAIN op2.store \ Range(hashes) : op3.store[h] = op2.store[h]
  <2>1. NodesOf(O) \subseteq DOMAIN op2.store
    BY <1>11, <1>12
  <2>2. PICK H : hashes \in Seq(H)
    BY <1>13
  <2> QED
    BY <1>1, <1>12, <1>16, <2>1, <2>2, DoingDelete
<1> HIDE DEF op3
<1>18. DOMAIN op3.store = NodesOf(O)
  BY <1>11, <1>12, <1>13, <1>14, <1>15, <1>17
<1>19. \A h \in NodesOf(O) : op3.store[h] = op1.store[h]
  BY <1>11, <1>12, <1>16, <1>17
<1>20. Linked(op3.store, O)
  <2> SUFFICES ASSUME NEW Q \in Blocks(O), NEW c \in 0 .. Depth - 1, NEW v \in {0, 1},
                      Splits(Q, c)
               PROVE  op3.store[TrieOf(Side(Q, c, v))].parent = TrieOf(Q)
    BY DEF Linked
  <2>1. Q \in SUBSET Keys /\ Q \in Blocks(S) /\ Q \subseteq O
    BY <1>1, BlockPart, BlockBlocks
  <2>2. Side(Q, c, v) \in Blocks(Q) /\ Side(Q, c, v) # Q /\ Side(Q, c, v) \in SUBSET Keys
        /\ Side(Q, c, v) \subseteq Q
    BY <2>1, SideIsBlock DEF Side
  <2>3. Side(Q, c, v) # O /\ Side(Q, c, v) \in Blocks(O)
    BY <2>1, <2>2, BlockBlocks
  <2>4. TrieOf(Side(Q, c, v)) # TrieOf(O) /\ TrieOf(Side(Q, c, v)) \in NodesOf(O)
    BY <1>1, <2>2, <2>3, TrieInjective DEF NodesOf
  <2>5. op3.store[TrieOf(Side(Q, c, v))] = store[TrieOf(Side(Q, c, v))]
    <3>1. TrieOf(Side(Q, c, v)) \in DOMAIN store
      BY <1>11, <2>4 DEF Exact
    <3> QED
      BY <1>10, <1>19, <2>4, <3>1 DEF Put
  <2> QED
    BY <2>1, <2>5 DEF Exact, Linked
<1>21. op3.store[TrieOf(O)].parent = None
  <2>1. TrieOf(O) \in NodesOf(O)
    BY <1>1, BlockWhole DEF NodesOf
  <2> QED
    BY <1>8, <1>10, <1>19, <2>1 DEF Put
<1>22. Exact(op3.store, O)
  BY <1>17, <1>18, <1>20, <1>21, DoingEnd DEF Exact
<1> QED
  BY <1>7, <1>17, <1>22

(* Deeper, the sibling takes the place of the parent. *)
LEMMA ErasesDeeper ==
  ASSUME NEW S \in SUBSET Keys, Exact(store, S), root = TrieOf(S), NEW k \in S,
         NEW G, Changed(S, k, G),
         NEW e, NEW P, NEW O, Siblings(S, k, e, P, O), P # S
  PROVE  Doing(Erasure(k), TrieOf(G), G) /\ Exact(Erasure(k).store, G)
<1> DEFINE leaf == Load(Started, Leaf(k))
           parent == Load(Started, TrieOf(P))
           sibling == Load(Started, TrieOf(O))
           replaced == <<TrieOf(P), Leaf(k)>>
           climb == Climb(Started, parent, sibling, replaced)
<1>1. /\ e \in 0 .. Depth - 1 /\ P = Match(S, k, e)
      /\ P \in SUBSET Keys /\ O \in SUBSET Keys /\ P \in Blocks(S) /\ O \in Blocks(S)
      /\ O # {} /\ k \notin O /\ P = O \cup {k}
      /\ Blocks(P) = {P} \cup Blocks(O) \cup {{k}}
      /\ TrieOf(O) # Leaf(k) /\ TrieOf(P) # Leaf(k) /\ TrieOf(P) # TrieOf(O)
      /\ store[Leaf(k)].parent = TrieOf(P)
      /\ TrieOf(P) \in DOMAIN store /\ TrieOf(O) \in DOMAIN store
  BY DEF Siblings
<1>2. TrieOf({k}) = Leaf(k) /\ Leaf(k) \in DOMAIN store /\ {k} \in Blocks(S)
  BY LeafOfKey
<1>3. Started.store = store /\ k \in Keys
  BY DEF Started
<1>4. e \in 0 .. Depth
  BY <1>1, DepthType
<1>5. PICK c \in 0 .. e - 1 :
        Match(S, k, c + 1) = Match(S, k, e) /\ Splits(Match(S, k, c), c)
  BY <1>1, <1>3, <1>4, ParentOnTheWay
<1> DEFINE Q == Match(S, k, c)
<1>6. /\ c \in 0 .. Depth - 1 /\ c \in Nat /\ c \in 0 .. Depth
      /\ Bit(k, c) \in {0, 1}
  BY <1>1, <1>3, <1>5, BitType, DepthType
<1>7. Side(Q, c, Bit(k, c)) = P
  BY <1>1, <1>5, <1>6, SideOfMatch
<1>8. Q \in SUBSET Keys /\ Q # {} /\ Q \in Blocks(S)
  <2>1. Q \in SUBSET Keys
    BY MatchPart
  <2>2. Q # {}
    BY <1>5 DEF Splits, Side
  <2> QED
    BY <1>6, <2>1, <2>2, MatchIsBlock
<1>9. Splits(Q, c)
  BY <1>5
<1> HIDE DEF Q
<1>10. store[TrieOf(P)].parent = TrieOf(Q) /\ TrieOf(Q) # None /\ TrieOf(Q) \in DOMAIN store
  <2>1. store[TrieOf(Side(Q, c, Bit(k, c)))].parent = TrieOf(Q)
    BY <1>6, <1>8, <1>9 DEF Exact, Linked
  <2>2. TrieOf(Q) \in DOMAIN store
    BY <1>8 DEF Exact, NodesOf
  <2> QED
    BY <1>7, <1>8, <2>1, <2>2, TrieOfNone
<1>11. /\ leaf.hash = Leaf(k) /\ leaf.parent = TrieOf(P)
       /\ parent.hash = TrieOf(P) /\ parent.parent = store[TrieOf(P)].parent
       /\ sibling.hash = TrieOf(O)
  BY <1>1, <1>3, LoadFields
<1>12. TrieOf(P) # None
  BY <1>1, TrieOfNone
<1>13. OtherChild(parent, Leaf(k)) = TrieOf(O) /\ IsChild(parent, Leaf(k))
  BY <1>11, OtherThanLeaf
<1>14. Erasure(k) = MoveRoot(ClimbedErased(climb))
  <2>1. Has(Started, Leaf(k)) /\ Has(Started, TrieOf(P)) /\ Has(Started, TrieOf(O))
        /\ Has(Started, TrieOf(Q))
    BY <1>1, <1>2, <1>3, <1>10 DEF Has
  <2>2. Erasure(k) = EraseDeeper(leaf, parent)
    BY <1>10, <1>11, <1>12, <2>1 DEF Erasure
  <2>3. EraseDeeper(leaf, parent) = MoveRoot(ClimbedErased(climb))
    BY <1>10, <1>11, <1>13, <2>1 DEF EraseDeeper
  <2> QED
    BY <2>2, <2>3
<1>15. Match(G, k, e) = O
  <2>1. Changed(Match(S, k, e), k, Match(G, k, e))
    BY MatchChanged
  <2>2. P = Match(S, k, e) /\ k \notin O /\ P = O \cup {k}
    BY <1>1
  <2> QED
    BY ONLY <2>1, <2>2 DEF Changed
<1>16. Fits(sibling, O)
       /\ sibling = Node(sibling.hash, sibling.mask, sibling.prefix, sibling.parent)
  <2>1. sibling.mask = store[TrieOf(O)].mask /\ sibling.prefix = store[TrieOf(O)].prefix
        /\ sibling.parent = store[TrieOf(O)].parent
    BY <1>3, LoadFields
  <2>2. Fits(store[TrieOf(O)], O)
    BY <1>1, FitsAt DEF Exact
  <2>3. sibling = Node(sibling.hash, sibling.mask, sibling.prefix, sibling.parent)
    BY LoadIsNode
  <2> HIDE DEF sibling
  <2>4. Fits(sibling, O)
    BY <2>1, <2>2 DEF Fits, Similar
  <2> QED
    BY <2>3, <2>4
<1>17. /\ climb.op = Started /\ climb.oldchild = parent /\ climb.child = sibling
       /\ climb.replaced = replaced
       /\ climb = Climb(climb.op, climb.oldchild, climb.child, climb.replaced)
  BY DEF Climb
<1> HIDE DEF climb, leaf, parent, sibling
<1>18. Doing(Started, root, G)
  BY ExactIsSafe, DoingStarted
<1>19. DOMAIN store = NodesOf(S) /\ Blocks(O) \subseteq Blocks(S)
  BY <1>1, BlockBlocks DEF Exact
<1>20. Linked(store, O)
  BY <1>19 DEF Exact, Linked
<1>21. \A X \in Blocks(O) : TrieOf(X) \in DOMAIN store
  BY <1>19 DEF NodesOf
<1>22. /\ replaced \in Seq(NodesOf(S))
       /\ Range(replaced) = {TrieOf(X) : X \in Blocks(P) \ Blocks(O)}
  <2>1. TrieOf(P) \in NodesOf(S) /\ Leaf(k) \in NodesOf(S)
    BY <1>1, <1>2, <1>19
  <2>2. Range(replaced) = {TrieOf(P), Leaf(k)}
    BY DEF Range
  <2>3. k \in P /\ k \in {k}
    BY <1>1
  <2>4. P \notin Blocks(O) /\ {k} \notin Blocks(O)
    BY <1>1, <2>3, BlockPart
  <2>5. Blocks(P) \ Blocks(O) = {P, {k}}
    BY <1>1, <2>4
  <2>6. {TrieOf(X) : X \in Blocks(P) \ Blocks(O)} = {TrieOf(P), TrieOf({k})}
    BY <2>5
  <2>7. replaced \in Seq(NodesOf(S))
    BY <2>1
  <2>8. Range(replaced) = {TrieOf(X) : X \in Blocks(P) \ Blocks(O)}
    <3> HIDE DEF replaced
    <3> QED
      BY <1>2, <2>2, <2>6
  <2> QED
    BY <2>7, <2>8
<1> HIDE DEF replaced
<1>23. Reached(climb, S, k, G, e)
  <2>1. P # {} /\ Match(S, k, e) = P
    BY <1>1
  <2> QED
    BY <1>1, <1>3, <1>4, <1>11, <1>15, <1>16, <1>17, <1>18, <1>19, <1>20, <1>21, <1>22, <2>1
    DEF Reached
<1>24. PICK b \in 0 .. Depth :
         Reached(ClimbedErased(climb), S, k, G, b) /\ Match(S, k, b) = S
  BY <1>3, <1>4, <1>23, ReachesErased
<1> QED
  BY <1>3, <1>14, <1>24, MovesRoot

(* erase leaves the trie of the other keys behind. *)
LEMMA Erases ==
  ASSUME NEW S \in SUBSET Keys, Exact(store, S), root = TrieOf(S), NEW k \in S,
         NEW G, G = S \ {k}
  PROVE  Doing(Erasure(k), TrieOf(G), G) /\ Exact(Erasure(k).store, G)
<1>1. k \in Keys
  OBVIOUS
<1>2. CASE S = {k}
  <2>1. G = {}
    BY <1>2
  <2> QED
    BY <1>1, <1>2, <2>1, ErasesLast
<1>3. CASE S # {k}
  <2>1. PICK e, P, O : Siblings(S, k, e, P, O)
    BY <1>3, LeafHasSibling
  <2>2. CASE P = S
    <3>1. k \notin O /\ P = O \cup {k}
      BY <2>1 DEF Siblings
    <3>2. O = G
      BY <2>2, <3>1
    <3>3. Doing(Erasure(k), TrieOf(O), O) /\ Exact(Erasure(k).store, O)
      BY <2>1, <2>2, ErasesBelowRoot
    <3> QED
      BY <3>2, <3>3
  <2>3. CASE P # S
    <3>1. Changed(S, k, G)
      BY DEF Changed
    <3> QED
      BY <2>1, <2>3, <3>1, ErasesDeeper
  <2> QED
    BY <2>2, <2>3
<1> QED
  BY <1>2, <1>3

(* A key that the trie does not have has no record. *)
LEMMA ErasesNothing ==
  ASSUME NEW S \in SUBSET Keys, Exact(store, S), NEW k \in Keys, k \notin S
  PROVE  Erasure(k) = Ends(Started, "notfound")
<1>1. {k} \in SUBSET Keys /\ TrieOf({k}) = Leaf(k)
  BY TrieOfOne
<1>2. {k} \notin Blocks(S)
  <2>1. k \in {k}
    OBVIOUS
  <2> QED
    BY <2>1, BlockPart
<1>3. Leaf(k) \notin DOMAIN store
  <2>1. TrieOf({k}) \notin NodesOf(S)
    BY <1>1, <1>2, NodeOfBlock
  <2> QED
    BY <1>1, <2>1 DEF Exact
<1> QED
  BY <1>3 DEF Erasure, Has, Started

-----------------------------------------------------------------------------
(* The writes of a whole operation.                                        *)

(* The writes lead from m to the trie of G and to nothing else. *)
Finishes(m, writes, G) ==
  \E last :
    /\ Leads(m, writes, last, G)
    /\ last.root = TrieOf(G) /\ Exact(last.store, G)
    /\ G = {} => last.entry = 0

LEMMA ExactlyNothing == Exact(<<>>, {})
<1>1. DOMAIN <<>> = {}
  OBVIOUS
<1>2. NodesOf({}) = {}
  BY BlocksNone DEF NodesOf
<1>3. Linked(<<>>, {})
  BY BlocksNone DEF Linked
<1> QED
  BY <1>1, <1>2, <1>3, FittingNothing DEF Exact

LEMMA FinishesNow ==
  ASSUME NEW R \in SUBSET Keys, Exact(store, R), root = TrieOf(R), R = {} => triesize = 0
  PROVE  Finishes(Here, <<>>, R)
<1>1. Leads(Here, <<>>, Here, R)
  BY ExactIsSafe, LeadsNowhere
<1>2. Here.root = root /\ Here.store = store /\ Here.entry = triesize
  BY MomentFields DEF Here
<1> QED
  BY <1>1, <1>2 DEF Finishes

LEMMA FinishesAdding ==
  ASSUME NEW R \in SUBSET Keys, Exact(store, R), root = TrieOf(R),
         NEW k \in Keys, k \notin R, NEW G, G = R \cup {k}
  PROVE  Finishes(Here, Adding(k).writes, G)
<1>1. PICK new : /\ Leads(Here, Adding(k).writes, Moment(new, TrieOf(G), triesize), G)
                 /\ Exact(new, G)
  BY Adds
<1> DEFINE last == Moment(new, TrieOf(G), triesize)
<1>2. last.root = TrieOf(G) /\ last.store = new
  BY MomentFields
<1>3. G # {}
  OBVIOUS
<1>4. Leads(Here, Adding(k).writes, last, G)
  BY <1>1
<1> HIDE DEF last
<1> QED
  BY <1>1, <1>2, <1>3, <1>4 DEF Finishes

(* clear leaves nothing behind. *)
LEMMA FinishesClearing ==
  ASSUME NEW m, NEW writes, NEW n, Leads(m, writes, n, {})
  PROVE  Finishes(m, Append(writes, ClearWrite), {})
<1> DEFINE last == Moment(<<>>, None, 0)
<1>1. last.store = <<>> /\ last.root = TrieOf({}) /\ last.entry = 0
  BY MomentFields, TrieOfNone
<1>2. last = After(n, ClearWrite)
  <2>1. Written(n.store, ClearWrite) = <<>>
    BY DEF Written, ClearWrite
  <2>2. After(n, ClearWrite) = Moment(Written(n.store, ClearWrite), None, 0)
    BY DEF After, ClearWrite
  <2> QED
    BY <2>1, <2>2
<1> HIDE DEF last
<1>3. Safe(last)
  <2>1. {} \in SUBSET Keys /\ NodesOf({}) \subseteq DOMAIN last.store
    BY BlocksNone DEF NodesOf
  <2> QED
    BY <1>1, <2>1, FittingNothing DEF Safe
<1>4. Leads(m, Append(writes, ClearWrite), last, {})
  BY <1>1, <1>2, <1>3, LeadsOne
<1> QED
  BY <1>1, <1>4, ExactlyNothing DEF Finishes

LEMMA FinishesErasing ==
  ASSUME NEW R \in SUBSET Keys, Exact(store, R), root = TrieOf(R),
         NEW k \in R, NEW G, G = R \ {k}
  PROVE  /\ Erasure(k).end = "ok"
         /\ G # {} => Finishes(Here, Erasure(k).writes, G)
         /\ G = {} => Finishes(Here, Append(Erasure(k).writes, ClearWrite), G)
<1> DEFINE op == Erasure(k)
<1>1. Doing(op, TrieOf(G), G) /\ Exact(op.store, G)
  BY Erases
<1> HIDE DEF op
<1> DEFINE n == Moment(op.store, TrieOf(G), triesize)
<1>2. op.end = "ok" /\ Leads(Here, op.writes, n, G)
  BY <1>1, DoingEnd DEF Doing
<1>3. n.root = TrieOf(G) /\ n.store = op.store
  BY MomentFields
<1> HIDE DEF n
<1>4. G # {} => Finishes(Here, op.writes, G)
  BY <1>1, <1>2, <1>3 DEF Finishes
<1>5. G = {} => Finishes(Here, Append(op.writes, ClearWrite), G)
  BY <1>2, FinishesClearing
<1> QED
  BY <1>2, <1>4, <1>5 DEF op

(* One write is made. *)
LEMMA FinishesLater ==
  ASSUME NEW m, NEW writes, NEW G, Finishes(m, writes, G), writes # <<>>
  PROVE  /\ Finishes(After(m, Head(writes)), Tail(writes), G)
         /\ Safe(After(m, Head(writes)))
         /\ After(m, Head(writes)).root \in {m.root, TrieOf(G)}
<1>1. PICK last :
        /\ Leads(m, writes, last, G)
        /\ last.root = TrieOf(G) /\ Exact(last.store, G)
        /\ G = {} => last.entry = 0
  BY DEF Finishes
<1>2. /\ Leads(After(m, Head(writes)), Tail(writes), last, G)
      /\ Safe(After(m, Head(writes)))
      /\ After(m, Head(writes)).root \in {m.root, TrieOf(G)}
  BY <1>1, LeadsStep
<1> QED
  BY <1>1, <1>2 DEF Finishes

(* No write is left. *)
LEMMA Finished ==
  ASSUME NEW G, Finishes(Here, <<>>, G)
  PROVE  root = TrieOf(G) /\ Exact(store, G) /\ (G = {} => triesize = 0)
<1>1. PICK last :
        /\ Leads(Here, <<>>, last, G)
        /\ last.root = TrieOf(G) /\ Exact(last.store, G)
        /\ G = {} => last.entry = 0
  BY DEF Finishes
<1>2. last = Here
  BY <1>1, LeadsEnd
<1>3. Here.root = root /\ Here.store = store /\ Here.entry = triesize
  BY MomentFields DEF Here
<1> QED
  BY <1>1, <1>2, <1>3

-----------------------------------------------------------------------------
(* The inductive invariant.                                                *)

Resting ==
  \E R \in SUBSET Keys :
    /\ root = TrieOf(R) /\ Exact(store, R)
    /\ size = Cardinality(R)
    /\ R = {} => triesize = 0

UnderWay ==
  \E G \in SUBSET Keys :
    /\ G = Abstract!Effect(request, LeavesOf(root))
    /\ size = Cardinality(G)
    /\ Finishes(Here, todo, G)

(* The root can be read at any moment.  As long as nothing has crashed,    *)
(* the storage is the trie of its keys between the operations; during one  *)
(* the writes that are left lead to the trie of its effect. *)
KvInv ==
  /\ triesize \in Nat /\ size \in Nat
  /\ crashes \in 0 .. Crashes /\ later = 0
  /\ Safe(Here)
  /\ request = NoRequest => todo = <<>>
  /\ request = NoRequest /\ crashes = 0 => Resting
  /\ request # NoRequest => crashes = 0 /\ request \in Abstract!Requests /\ UnderWay

LEMMA KeysFinite ==
  ASSUME NEW R \in SUBSET Keys
  PROVE  /\ IsFiniteSet(R) /\ Cardinality(R) \in Nat
         /\ Cardinality(R) = 0 <=> R = {}
         /\ \A k \in Keys \ R : Cardinality(R \cup {k}) = Cardinality(R) + 1
         /\ \A k \in R : Cardinality(R \ {k}) = Cardinality(R) - 1
<1>1. IsFiniteSet(R)
  BY KeysAssumption, FS_Subset
<1>2. Cardinality(R) \in Nat
  BY <1>1, FS_CardinalityType
<1>3. Cardinality(R) = 0 <=> R = {}
  BY <1>1, FS_EmptySet
<1>4. \A k \in Keys \ R : Cardinality(R \cup {k}) = Cardinality(R) + 1
  BY <1>1, FS_AddElement
<1>5. \A k \in R : Cardinality(R \ {k}) = Cardinality(R) - 1
  BY <1>1, FS_RemoveElement
<1> QED
  BY <1>1, <1>2, <1>3, <1>4, <1>5

LEMMA EffectAgain ==
  ASSUME NEW r \in Abstract!Requests, NEW S, NEW G, G = Abstract!Effect(r, S)
  PROVE  Abstract!Effect(r, G) = G
<1>1. r.op \in {"add", "remove", "clear"}
  BY DEF Abstract!Requests
<1> QED
  BY <1>1 DEF Abstract!Effect

LEMMA InvInit ==
  ASSUME Init
  PROVE  KvInv
<1>1. {} \in SUBSET Keys /\ root = TrieOf({}) /\ store = <<>>
  BY TrieOfNone DEF Init
<1>2. Exact(store, {})
  BY <1>1, ExactlyNothing
<1>3. size = Cardinality({})
  BY FS_EmptySet DEF Init
<1>4. Resting
  BY <1>1, <1>2, <1>3 DEF Init, Resting
<1>5. Safe(Here)
  BY <1>1, <1>2, ExactIsSafe
<1> QED
  BY <1>4, <1>5, BoundsAssumption DEF Init, KvInv

(* What a request starts from, and what it has to start. *)
Starting(R) ==
  /\ R \in SUBSET Keys /\ root = TrieOf(R) /\ LeavesOf(root) = R /\ Exact(store, R)
  /\ size = Cardinality(R) /\ (R = {} => triesize = 0)
  /\ R = {} <=> root \notin DOMAIN store

LEMMA CanStart ==
  ASSUME KvInv, request = NoRequest, crashes = 0
  PROVE  \E R : Starting(R)
<1>1. PICK R \in SUBSET Keys :
        /\ root = TrieOf(R) /\ Exact(store, R)
        /\ size = Cardinality(R) /\ (R = {} => triesize = 0)
  BY DEF KvInv, Resting
<1>2. LeavesOf(root) = R
  BY <1>1, TrieLeaves DEF LeavesOf
<1>3. R = {} <=> root \notin DOMAIN store
  <2>1. CASE R = {}
    BY <1>1, <2>1, NoNodeIsNone, TrieOfNone DEF Exact
  <2>2. CASE R # {}
    BY <1>1, <2>2, BlockWhole DEF Exact, NodesOf
  <2> QED
    BY <2>1, <2>2
<1> QED
  BY <1>1, <1>2, <1>3 DEF Starting

LEMMA Starts ==
  ASSUME LaterOps = 0, KvInv, NEW r \in Abstract!Requests, Begin(r),
         NEW R, Starting(R), NEW G, G = Abstract!Effect(r, R),
         size' = Cardinality(G), NEW writes, todo' = writes, Finishes(Here, writes, G)
  PROVE  KvInv'
<1>1. /\ request = NoRequest /\ crashes = 0 /\ later' = 0 /\ request' = r
      /\ store' = store /\ root' = root /\ triesize' = triesize /\ crashes' = crashes
      /\ todo = <<>>
  BY DEF Begin, KvInv
<1>2. r # NoRequest
  BY DEF Abstract!Requests, NoRequest
<1>3. R \in SUBSET Keys /\ LeavesOf(root) = R
  BY DEF Starting
<1>4. G \in SUBSET Keys
  BY <1>3 DEF Abstract!Effect, Abstract!Requests
<1>5. size' \in Nat
  BY <1>4, KeysFinite
<1>6. Here' = Here
  BY <1>1 DEF Here
<1>7. UnderWay'
  BY <1>1, <1>3, <1>4, <1>6 DEF UnderWay
<1>8. Safe(Here)'
  BY <1>1, <1>6 DEF KvInv
<1> QED
  BY <1>1, <1>2, <1>5, <1>7, <1>8 DEF KvInv

LEMMA BeginCleanly ==
  ASSUME LaterOps = 0, KvInv, NEW r, Begin(r)
  PROVE  request = NoRequest /\ crashes = 0 /\ todo = <<>>
BY DEF Begin, KvInv

LEMMA StepAdd ==
  ASSUME LaterOps = 0, KvInv, NEW k \in Keys, Add(k)
  PROVE  KvInv'
<1> DEFINE r == [op |-> "add", key |-> k]
<1>1. r \in Abstract!Requests /\ Begin(r)
  BY DEF Add, Abstract!Requests
<1>2. request = NoRequest /\ crashes = 0 /\ todo = <<>>
  BY <1>1, BeginCleanly
<1>3. PICK R : Starting(R)
  BY <1>2, CanStart
<1>4. /\ R \in SUBSET Keys /\ root = TrieOf(R) /\ Exact(store, R)
      /\ size = Cardinality(R) /\ (R = {} => triesize = 0)
  BY <1>3 DEF Starting
<1>5. Abstract!Effect(r, R) = R \cup {k}
  BY DEF Abstract!Effect
<1> HIDE DEF r
<1>6. IsDuplicate(k) <=> k \in R
  BY <1>4, DuplicateIsKnown
<1>7. CASE k \in R
  <2>1. todo' = <<>> /\ size' = size
    BY <1>2, <1>6, <1>7 DEF Add
  <2>2. Abstract!Effect(r, R) = R
    BY <1>5, <1>7
  <2>3. Finishes(Here, <<>>, R)
    BY <1>4, FinishesNow
  <2> QED
    BY <1>1, <1>3, <1>4, <2>1, <2>2, <2>3, Starts
<1>8. CASE k \notin R
  <2> DEFINE G == R \cup {k}
             writes == Adding(k).writes
  <2>1. todo' = writes /\ size' = size + 1
    BY <1>6, <1>8 DEF Add
  <2>2. size' = Cardinality(G)
    BY <1>4, <1>8, <2>1, KeysFinite
  <2>3. Finishes(Here, writes, G)
    BY <1>4, <1>8, FinishesAdding
  <2>4. G = Abstract!Effect(r, R)
    BY <1>5
  <2> HIDE DEF G, writes
  <2> QED
    BY <1>1, <1>3, <2>1, <2>2, <2>3, <2>4, Starts
<1> QED
  BY <1>7, <1>8

LEMMA StepRemove ==
  ASSUME LaterOps = 0, KvInv, NEW k \in Keys, Remove(k)
  PROVE  KvInv'
<1> DEFINE r == [op |-> "remove", key |-> k]
           op == Erasure(k)
           left == IF op.end = "ok" THEN size - 1 ELSE size
<1>1. r \in Abstract!Requests /\ Begin(r)
  BY DEF Remove, Abstract!Requests
<1>2. request = NoRequest /\ crashes = 0 /\ todo = <<>>
  BY <1>1, BeginCleanly
<1>3. PICK R : Starting(R)
  BY <1>2, CanStart
<1>4. /\ R \in SUBSET Keys /\ root = TrieOf(R) /\ Exact(store, R)
      /\ size = Cardinality(R) /\ (R = {} => triesize = 0)
      /\ R = {} <=> root \notin DOMAIN store
  BY <1>3 DEF Starting
<1>5. Abstract!Effect(r, R) = R \ {k}
  BY DEF Abstract!Effect
<1> HIDE DEF r
<1>6. CASE k \notin R
  <2>1. Abstract!Effect(r, R) = R
    BY <1>5, <1>6
  <2>2. Finishes(Here, <<>>, R)
    BY <1>4, FinishesNow
  <2>3. todo' = <<>> /\ size' = size
    <3>1. CASE R = {}
      BY <1>2, <1>4, <3>1 DEF Remove
    <3>2. CASE R # {}
      <4>1. op = Ends(Started, "notfound")
        BY <1>4, <1>6, ErasesNothing
      <4>2. op.end = "notfound" /\ op.writes = <<>>
        BY <4>1 DEF Ends, Started
      <4>3. left = size /\ size # 0
        BY <1>4, <3>2, <4>2, KeysFinite
      <4> QED
        BY <1>4, <3>2, <4>2, <4>3 DEF Remove
    <3> QED
      BY <3>1, <3>2
  <2> QED
    BY <1>1, <1>3, <1>4, <2>1, <2>2, <2>3, Starts
<1>7. CASE k \in R
  <2> DEFINE G == R \ {k}
  <2>1. /\ op.end = "ok"
        /\ G # {} => Finishes(Here, op.writes, G)
        /\ G = {} => Finishes(Here, Append(op.writes, ClearWrite), G)
    BY <1>4, <1>7, FinishesErasing
  <2>2. left = Cardinality(G) /\ G \in SUBSET Keys
    BY <1>4, <1>7, <2>1, KeysFinite
  <2>3. left = 0 <=> G = {}
    BY <2>2, KeysFinite
  <2>4. G = Abstract!Effect(r, R)
    BY <1>5
  <2>5. root \in DOMAIN store
    BY <1>4, <1>7
  <2>6. IF left = 0 THEN todo' = Append(op.writes, ClearWrite) /\ size' = 0
                    ELSE todo' = op.writes /\ size' = left
    BY <2>1, <2>5 DEF Remove
  <2> HIDE DEF G, op, left
  <2>7. size' = Cardinality(G)
    BY <2>2, <2>6
  <2>8. Finishes(Here, todo', G)
    BY <2>1, <2>3, <2>6
  <2> QED
    BY <1>1, <1>3, <2>4, <2>7, <2>8, Starts
<1> QED
  BY <1>6, <1>7

LEMMA StepClear ==
  ASSUME LaterOps = 0, KvInv, Clear
  PROVE  KvInv'
<1> DEFINE r == [op |-> "clear"]
<1>1. r \in Abstract!Requests /\ Begin(r)
  BY DEF Clear, Abstract!Requests
<1>2. request = NoRequest /\ crashes = 0 /\ todo = <<>>
  BY <1>1, BeginCleanly
<1>3. PICK R : Starting(R)
  BY <1>2, CanStart
<1>4. Abstract!Effect(r, R) = {}
  BY DEF Abstract!Effect
<1> HIDE DEF r
<1>5. Safe(Here)
  BY DEF KvInv
<1> DEFINE writes == Append(<<>>, ClearWrite)
<1>6. Leads(Here, <<>>, Here, {})
  BY <1>5, LeadsNowhere
<1>7. Finishes(Here, writes, {})
  BY <1>6, FinishesClearing
<1>8. todo' = writes /\ size' = 0
  BY DEF Clear
<1>9. size' = Cardinality({})
  BY <1>8, FS_EmptySet
<1> HIDE DEF writes
<1> QED
  BY <1>1, <1>3, <1>4, <1>7, <1>8, <1>9, Starts

LEMMA WriteIsAfter ==
  ASSUME Write
  PROVE  Here' = After(Here, Head(todo))
<1>1. Here.root = root /\ Here.store = store /\ Here.entry = triesize
  BY MomentFields DEF Here
<1>2. /\ store' = Written(store, Head(todo))
      /\ root' = CASE Head(todo).kind = "root" -> Head(todo).hash
                   [] Head(todo).kind = "clear" -> None
                   [] OTHER -> root
      /\ triesize' = IF Head(todo).kind = "clear" THEN 0 ELSE triesize
  BY DEF Write
<1>3. Here' = Moment(store', root', triesize')
  BY DEF Here
<1> QED
  BY <1>1, <1>2, <1>3 DEF After

(* What the next write does to the trie. *)
LEMMA WriteTowards ==
  ASSUME KvInv, Write
  PROVE  /\ request # NoRequest /\ request' = request /\ request \in Abstract!Requests
         /\ Safe(Here')
         /\ \E G \in SUBSET Keys :
              /\ G = Abstract!Effect(request, LeavesOf(root))
              /\ G = Abstract!Effect(request, LeavesOf(root'))
              /\ size = Cardinality(G)
              /\ Finishes(Here', todo', G)
              /\ root' = root \/ LeavesOf(root') = G
<1>1. todo # <<>> /\ todo' = Tail(todo) /\ request' = request
  BY DEF Write
<1>2. request # NoRequest /\ request \in Abstract!Requests /\ UnderWay
  BY <1>1 DEF KvInv
<1>3. PICK G \in SUBSET Keys :
        /\ G = Abstract!Effect(request, LeavesOf(root))
        /\ size = Cardinality(G)
        /\ Finishes(Here, todo, G)
  BY <1>2 DEF UnderWay
<1>4. Here' = After(Here, Head(todo))
  BY WriteIsAfter
<1>5. /\ Finishes(Here', todo', G)
      /\ Safe(Here')
      /\ Here'.root \in {Here.root, TrieOf(G)}
  BY <1>1, <1>3, <1>4, FinishesLater
<1>6. Here.root = root /\ Here'.root = root'
  BY MomentFields DEF Here
<1>7. root' = root \/ root' = TrieOf(G)
  BY <1>5, <1>6
<1>8. root' = TrieOf(G) => LeavesOf(root') = G
  BY <1>3, TrieLeaves DEF LeavesOf
<1>9. Abstract!Effect(request, G) = G
  BY <1>2, <1>3, EffectAgain
<1>10. root' = root \/ LeavesOf(root') = G
  BY <1>7, <1>8
<1>11. G = Abstract!Effect(request, LeavesOf(root'))
  BY <1>3, <1>9, <1>10
<1> QED
  BY <1>1, <1>2, <1>3, <1>5, <1>10, <1>11

LEMMA StepWrite ==
  ASSUME KvInv, Write
  PROVE  KvInv'
<1>1. /\ request # NoRequest /\ request' = request /\ request \in Abstract!Requests
      /\ Safe(Here')
  BY WriteTowards
<1>2. PICK G \in SUBSET Keys :
        /\ G = Abstract!Effect(request, LeavesOf(root'))
        /\ size = Cardinality(G)
        /\ Finishes(Here', todo', G)
  BY WriteTowards
<1>3. size' = size /\ crashes' = crashes /\ later' = later /\ triesize' \in Nat
  BY DEF Write, KvInv
<1>4. UnderWay'
  BY <1>1, <1>2, <1>3 DEF UnderWay
<1> QED
  BY <1>1, <1>3, <1>4 DEF KvInv

(* All writes of the request are made. *)
LEMMA ReturnsWith ==
  ASSUME KvInv, Return
  PROVE  \E G \in SUBSET Keys :
           /\ G = Abstract!Effect(request, LeavesOf(root)) /\ LeavesOf(root) = G
           /\ root = TrieOf(G) /\ Exact(store, G)
           /\ size = Cardinality(G) /\ (G = {} => triesize = 0)
<1>1. request # NoRequest /\ todo = <<>>
  BY DEF Return
<1>2. PICK G \in SUBSET Keys :
        /\ G = Abstract!Effect(request, LeavesOf(root))
        /\ size = Cardinality(G)
        /\ Finishes(Here, <<>>, G)
  BY <1>1 DEF KvInv, UnderWay
<1>3. root = TrieOf(G) /\ Exact(store, G) /\ (G = {} => triesize = 0)
  BY <1>2, Finished
<1>4. LeavesOf(root) = G
  BY <1>3, TrieLeaves DEF LeavesOf
<1> QED
  BY <1>2, <1>3, <1>4

LEMMA StepReturn ==
  ASSUME KvInv, Return
  PROVE  KvInv'
<1>1. PICK G \in SUBSET Keys :
        /\ root = TrieOf(G) /\ Exact(store, G)
        /\ size = Cardinality(G) /\ (G = {} => triesize = 0)
  BY ReturnsWith
<1>2. /\ request' = NoRequest /\ todo' = <<>> /\ todo = <<>>
      /\ store' = store /\ root' = root /\ triesize' = triesize /\ size' = size
      /\ crashes' = crashes /\ later' = later
  BY DEF Return
<1>3. Resting'
  BY <1>1, <1>2 DEF Resting
<1>4. Safe(Here')
  BY <1>2 DEF KvInv, Here
<1> QED
  BY <1>2, <1>3, <1>4 DEF KvInv

LEMMA SafeStays ==
  ASSUME Safe(Here), store' = store, root' = root
  PROVE  Safe(Here')
<1>1. /\ Here.store = store /\ Here.root = root
      /\ Here'.store = store' /\ Here'.root = root'
  BY MomentFields DEF Here
<1> QED
  BY <1>1 DEF Safe

(* The size entry and the size in memory agree when the size is zero. *)
LEMMA StepReopen ==
  ASSUME KvInv, Reopen
  PROVE  KvInv'
<1>1. /\ request = NoRequest /\ request' = NoRequest /\ todo' = todo
      /\ store' = store /\ root' = root
      /\ triesize' = (IF size # 0 THEN size ELSE triesize) /\ size' = triesize'
      /\ crashes' = crashes /\ later' = later
  BY DEF Reopen
<1>2. triesize' \in Nat /\ size' \in Nat
  BY <1>1 DEF KvInv
<1>3. Safe(Here')
  BY <1>1, SafeStays DEF KvInv
<1>4. ASSUME crashes = 0 PROVE Resting'
  <2>1. PICK R \in SUBSET Keys :
          /\ root = TrieOf(R) /\ Exact(store, R)
          /\ size = Cardinality(R) /\ (R = {} => triesize = 0)
    BY <1>1, <1>4 DEF KvInv, Resting
  <2>2. Cardinality(R) = 0 <=> R = {}
    BY KeysFinite
  <2>3. size' = Cardinality(R) /\ (R = {} => triesize' = 0)
    BY <1>1, <2>1, <2>2
  <2> QED
    BY <1>1, <2>1, <2>3 DEF Resting
<1> QED
  BY <1>1, <1>2, <1>3, <1>4 DEF KvInv

LEMMA StepCrash ==
  ASSUME KvInv, Crash
  PROVE  KvInv'
<1>1. /\ request' = NoRequest /\ todo' = <<>> /\ size' = triesize
      /\ store' = store /\ root' = root /\ triesize' = triesize /\ later' = later
      /\ crashes < Crashes /\ crashes' = crashes + 1
  BY DEF Crash
<1>2. crashes' \in 0 .. Crashes /\ crashes' # 0
  BY <1>1, BoundsAssumption DEF KvInv
<1>3. Safe(Here')
  BY <1>1, SafeStays DEF KvInv
<1> QED
  BY <1>1, <1>2, <1>3 DEF KvInv

LEMMA StepNone ==
  ASSUME KvInv, UNCHANGED vars
  PROVE  KvInv'
<1>1. /\ request' = request /\ todo' = todo /\ size' = size
      /\ store' = store /\ root' = root /\ triesize' = triesize /\ later' = later
      /\ crashes' = crashes
  BY DEF vars
<1>2. Here' = Here
  BY <1>1 DEF Here
<1>3. Safe(Here')
  BY <1>2 DEF KvInv
<1>4. Resting => Resting'
  BY <1>1 DEF Resting
<1>5. UnderWay => UnderWay'
  BY <1>1, <1>2 DEF UnderWay
<1> QED
  BY <1>1, <1>3, <1>4, <1>5 DEF KvInv

LEMMA InvStep ==
  ASSUME LaterOps = 0, KvInv, [Next]_vars
  PROVE  KvInv'
<1>1. CASE \E k \in Keys : Add(k) \/ Remove(k)
  BY <1>1, StepAdd, StepRemove
<1>2. CASE Clear
  BY <1>2, StepClear
<1>3. CASE Write
  BY <1>3, StepWrite
<1>4. CASE Return
  BY <1>4, StepReturn
<1>5. CASE Reopen
  BY <1>5, StepReopen
<1>6. CASE Crash
  BY <1>6, StepCrash
<1>7. CASE UNCHANGED vars
  BY <1>7, StepNone
<1> QED
  BY <1>1, <1>2, <1>3, <1>4, <1>5, <1>6, <1>7 DEF Next

LEMMA InvHolds ==
  ASSUME LaterOps = 0
  PROVE  Spec => []KvInv
<1>1. Init => KvInv
  BY InvInit
<1>2. KvInv /\ [Next]_vars => KvInv'
  BY InvStep
<1> QED
  BY <1>1, <1>2, PTL DEF Spec

-----------------------------------------------------------------------------
(* What the invariant says about the trie. *)

LEMMA InvRoot ==
  ASSUME KvInv
  PROVE  \E S \in SUBSET Keys :
           /\ root = TrieOf(S) /\ LeavesOf(root) = S /\ SubtriesOf(root) = NodesOf(S)
           /\ Fitting(store) /\ NodesOf(S) \subseteq DOMAIN store
<1>1. Here.root = root /\ Here.store = store
  BY MomentFields DEF Here
<1>2. PICK S \in SUBSET Keys : Here.root = TrieOf(S) /\ NodesOf(S) \subseteq DOMAIN Here.store
  BY DEF KvInv, Safe
<1>3. Fitting(Here.store)
  BY DEF KvInv, Safe
<1>4. LeavesOf(root) = S
  BY <1>1, <1>2, TrieLeaves DEF LeavesOf
<1>5. SubtriesOf(root) = NodesOf(S)
  BY <1>1, <1>2, SubtriesAreNodes
<1> QED
  BY <1>1, <1>2, <1>3, <1>4, <1>5

LEMMA InvType ==
  ASSUME LaterOps = 0, KvInv
  PROVE  TypeOK
<1>1. PICK S \in SUBSET Keys : LeavesOf(root) = S /\ Fitting(store)
  BY InvRoot
<1>2. ASSUME NEW hash \in DOMAIN store
      PROVE  /\ store[hash].mask \in 0 .. Depth /\ store[hash].prefix \in Keys
             /\ LeavesOf(hash) \cup LeavesOf(store[hash].parent) \subseteq Keys
  <2>1. PICK X \in SUBSET Keys : X # {} /\ hash = TrieOf(X) /\ Fits(store[hash], X)
    BY <1>1, <1>2 DEF Fitting
  <2>2. PICK Z \in SUBSET Keys : store[hash].parent = TrieOf(Z)
    BY <2>1 DEF Fits
  <2>3. LeavesOf(hash) = X /\ LeavesOf(store[hash].parent) = Z
    BY <2>1, <2>2, TrieLeaves DEF LeavesOf
  <2>4. store[hash].mask = CommonBits(X) /\ store[hash].prefix \in Keys
    BY <2>1 DEF Fits
  <2> QED
    BY <2>1, <2>3, <2>4, CommonBitsType
<1>3. triesize \in Nat /\ size \in Int /\ crashes \in 0 .. Crashes /\ later \in 0 .. LaterOps
  BY DEF KvInv
<1> QED
  BY <1>1, <1>2, <1>3 DEF TypeOK

LEMMA InvCanonical ==
  ASSUME KvInv
  PROVE  RootIsCanonical
BY InvRoot DEF RootIsCanonical

LEMMA InvReadable ==
  ASSUME KvInv
  PROVE  RootReadable
<1>1. PICK S \in SUBSET Keys :
        /\ SubtriesOf(root) = NodesOf(S)
        /\ Fitting(store) /\ NodesOf(S) \subseteq DOMAIN store
  BY InvRoot
<1> SUFFICES ASSUME NEW hash \in SubtriesOf(root)
             PROVE  /\ hash \in DOMAIN store
                    /\ store[hash].mask = CommonBits(LeavesOf(hash))
                    /\ \A k \in LeavesOf(hash) : Similar(store[hash], k)
  BY DEF RootReadable
<1>2. hash \in DOMAIN store
  BY <1>1
<1>3. PICK X \in SUBSET Keys : X # {} /\ hash = TrieOf(X) /\ Fits(store[hash], X)
  BY <1>1, <1>2 DEF Fitting
<1>4. LeavesOf(hash) = X
  BY <1>3, TrieLeaves DEF LeavesOf
<1> QED
  BY <1>2, <1>3, <1>4 DEF Fits

(* Only the parent of a node has it as a child. *)
LEMMA OneParent ==
  ASSUME NEW R \in SUBSET Keys, Exact(store, R), NEW hash,
         NEW p \in DOMAIN store, IsInner(p), hash \in {p.smaller, p.larger}
  PROVE  store[hash].parent = p
<1>1. PICK P \in Blocks(R) : p = TrieOf(P)
  BY DEF Exact, NodesOf
<1>2. P \in SUBSET Keys /\ P # {}
  BY <1>1, BlockPart
<1>3. ASSUME NEW k \in P, P = {k} PROVE FALSE
  <2>1. p = Leaf(k)
    BY <1>1, <1>2, <1>3, TrieOfOne
  <2> QED
    BY <2>1, LeafFields DEF IsInner
<1>4. PICK c : Splits(P, c)
  BY <1>2, <1>3, EmptyOneOrSplit
<1>5. c \in 0 .. Depth - 1
  BY <1>4 DEF Splits
<1>6. p.smaller = TrieOf(Side(P, c, 0)) /\ p.larger = TrieOf(Side(P, c, 1))
  BY <1>1, <1>2, <1>4, TrieOfSplit, InnerFields
<1>7. \A v \in {0, 1} : store[TrieOf(Side(P, c, v))].parent = TrieOf(P)
  BY <1>1, <1>4, <1>5 DEF Exact, Linked
<1> QED
  BY <1>1, <1>6, <1>7

(* Every node but the root has one. *)
LEMMA HasParent ==
  ASSUME NEW R \in SUBSET Keys, Exact(store, R), NEW hash \in DOMAIN store,
         hash # TrieOf(R)
  PROVE  \E p \in DOMAIN store : IsInner(p) /\ hash \in {p.smaller, p.larger}
<1>1. PICK X \in Blocks(R) : hash = TrieOf(X)
  BY DEF Exact, NodesOf
<1>2. PICK k \in R, d \in 0 .. Depth : X = Match(R, k, d) /\ k \in X
  BY <1>1, BlockIs
<1>3. k \in Keys /\ Match(R, k, d) # {} /\ Match(R, k, d) # R
  BY <1>1, <1>2
<1>4. PICK e \in 0 .. d - 1 :
        Match(R, k, e + 1) = Match(R, k, d) /\ Splits(Match(R, k, e), e)
  BY <1>3, ParentOnTheWay
<1> DEFINE P == Match(R, k, e)
<1>5. e \in Nat /\ e \in 0 .. Depth - 1 /\ e \in 0 .. Depth /\ Bit(k, e) \in {0, 1}
  BY <1>3, <1>4, BitType, DepthType
<1>6. Side(P, e, Bit(k, e)) = X
  BY <1>2, <1>4, <1>5, SideOfMatch
<1>7. P \in SUBSET Keys /\ P # {}
  BY <1>4, MatchPart DEF Splits, Side
<1>8. P \in Blocks(R)
  BY <1>5, <1>7, MatchIsBlock
<1>9. Splits(P, e)
  BY <1>4
<1> HIDE DEF P
<1> DEFINE a == TrieOf(Side(P, e, 0))
           b == TrieOf(Side(P, e, 1))
           p == TrieOf(P)
<1>10. p \in DOMAIN store
  BY <1>8 DEF Exact, NodesOf
<1>11. p = Inner(a, b)
  BY <1>7, <1>9, TrieOfSplit
<1>12. a # None
  <2>1. Side(P, e, 0) # {} /\ Side(P, e, 0) \in SUBSET Keys
    BY <1>7, <1>9 DEF Splits, Side
  <2> QED
    BY <2>1, TrieOfNone
<1>13. hash = a \/ hash = b
  BY <1>1, <1>5, <1>6
<1> HIDE DEF a, b, p
<1>14. p.smaller = a /\ p.larger = b /\ p.below = SubtriesOf(a) \cup SubtriesOf(b)
  BY <1>11, InnerFields
<1>15. a \in SubtriesOf(a)
  BY <1>12 DEF SubtriesOf
<1>16. IsInner(p)
  BY <1>14, <1>15 DEF IsInner
<1> QED
  BY <1>10, <1>13, <1>14, <1>16

LEMMA InvExact ==
  ASSUME KvInv
  PROVE  StoreIsExact
<1> SUFFICES ASSUME request = NoRequest, crashes = 0
             PROVE  /\ DOMAIN store = SubtriesOf(root)
                    /\ \A hash \in DOMAIN store :
                         store[hash].parent =
                           IF hash = root THEN None
                           ELSE CHOOSE p \in DOMAIN store :
                                  IsInner(p) /\ hash \in {p.smaller, p.larger}
  BY DEF StoreIsExact
<1>1. PICK R \in SUBSET Keys : root = TrieOf(R) /\ Exact(store, R)
  BY DEF KvInv, Resting
<1>2. DOMAIN store = SubtriesOf(root)
  BY <1>1, SubtriesAreNodes DEF Exact
<1>3. ASSUME NEW hash \in DOMAIN store
      PROVE  store[hash].parent =
               IF hash = root THEN None
               ELSE CHOOSE p \in DOMAIN store :
                      IsInner(p) /\ hash \in {p.smaller, p.larger}
  <2>1. CASE hash = root
    <3>1. R # {}
      BY <1>1, <1>3, <2>1, BlocksNone DEF Exact, NodesOf
    <3> QED
      BY <1>1, <2>1, <3>1 DEF Exact
  <2>2. CASE hash # root
    <3> DEFINE q == CHOOSE p \in DOMAIN store :
                      IsInner(p) /\ hash \in {p.smaller, p.larger}
    <3>1. \E p \in DOMAIN store : IsInner(p) /\ hash \in {p.smaller, p.larger}
      BY <1>1, <1>3, <2>2, HasParent
    <3>2. q \in DOMAIN store /\ IsInner(q) /\ hash \in {q.smaller, q.larger}
      BY <3>1
    <3> HIDE DEF q
    <3>3. store[hash].parent = q
      BY <1>1, <3>2, OneParent
    <3> QED
      BY <2>2, <3>3 DEF q
  <2> QED
    BY <2>1, <2>2
<1> QED
  BY <1>2, <1>3

LEMMA InvSize ==
  ASSUME KvInv
  PROVE  SizeIsRight
<1> SUFFICES ASSUME request = NoRequest, crashes = 0
             PROVE  size = Cardinality(LeavesOf(root))
  BY DEF SizeIsRight
<1>1. PICK R \in SUBSET Keys : root = TrieOf(R) /\ size = Cardinality(R)
  BY DEF KvInv, Resting
<1>2. LeavesOf(root) = R
  BY <1>1, TrieLeaves DEF LeavesOf
<1> QED
  BY <1>1, <1>2

-----------------------------------------------------------------------------
(* The records, the entries and the size have their types. *)
THEOREM TypeCorrect ==
  ASSUME LaterOps = 0
  PROVE  Spec => []TypeOK
<1>1. KvInv => TypeOK
  BY InvType
<1> QED
  BY <1>1, InvHolds, PTL

(* The root is the one of the trie that is built of its keys alone,        *)
(* whatever was added and removed before: between any two writes and       *)
(* wherever the process crashed. *)
THEOREM Canonical ==
  ASSUME LaterOps = 0
  PROVE  Spec => []RootIsCanonical
<1>1. KvInv => RootIsCanonical
  BY InvCanonical
<1> QED
  BY <1>1, InvHolds, PTL

(* Every node below the root entry is stored between any two writes, with  *)
(* its number of common bits and a prefix of all its keys: insert writes   *)
(* the new nodes first and deletes the old ones last. *)
THEOREM Readable ==
  ASSUME LaterOps = 0
  PROVE  Spec => []RootReadable
<1>1. KvInv => RootReadable
  BY InvReadable
<1> QED
  BY <1>1, InvHolds, PTL

(* An operation that has returned has deleted what it replaced and has set *)
(* the parents of what remains. *)
THEOREM ExactStore ==
  ASSUME LaterOps = 0
  PROVE  Spec => []StoreIsExact
<1>1. KvInv => StoreIsExact
  BY InvExact
<1> QED
  BY <1>1, InvHolds, PTL

(* The size that add and remove count, that clear resets and that closing  *)
(* and opening hand on is the number of keys. *)
THEOREM RightSize ==
  ASSUME LaterOps = 0
  PROVE  Spec => []SizeIsRight
<1>1. KvInv => SizeIsRight
  BY InvSize
<1> QED
  BY <1>1, InvHolds, PTL

-----------------------------------------------------------------------------
(* The trie implements a set.                                              *)

LEMMA InitImplements ==
  ASSUME Init
  PROVE  Abstract!Init
BY NoneFields DEF Init, Abstract!Init, LeavesOf

LEMMA StepImplements ==
  ASSUME LaterOps = 0, KvInv, [Next]_vars
  PROVE  [Abstract!Next]_<<LeavesOf(root), request, crashes>>
<1>1. ASSUME NEW r \in Abstract!Requests, Begin(r)
      PROVE  Abstract!Next
  BY <1>1 DEF Begin, Abstract!Next, Abstract!Call
<1>2. ASSUME NEW k \in Keys, Add(k) PROVE Abstract!Next
  <2>1. [op |-> "add", key |-> k] \in Abstract!Requests
    BY DEF Abstract!Requests
  <2>2. Begin([op |-> "add", key |-> k])
    BY <1>2 DEF Add
  <2> QED
    BY <1>1, <2>1, <2>2
<1>3. ASSUME NEW k \in Keys, Remove(k) PROVE Abstract!Next
  <2>1. [op |-> "remove", key |-> k] \in Abstract!Requests
    BY DEF Abstract!Requests
  <2>2. Begin([op |-> "remove", key |-> k])
    BY <1>3 DEF Remove
  <2> QED
    BY <1>1, <2>1, <2>2
<1>4. CASE Clear
  <2>1. [op |-> "clear"] \in Abstract!Requests
    BY DEF Abstract!Requests
  <2>2. Begin([op |-> "clear"])
    BY <1>4 DEF Clear
  <2> QED
    BY <1>1, <2>1, <2>2
<1>5. CASE Write
  <2>1. request # NoRequest /\ request' = request /\ crashes' = crashes
    BY <1>5, WriteTowards DEF Write
  <2>2. PICK G \in SUBSET Keys :
          /\ G = Abstract!Effect(request, LeavesOf(root))
          /\ root' = root \/ LeavesOf(root') = G
    BY <1>5, WriteTowards
  <2>3. CASE root' = root
    BY <2>1, <2>3
  <2>4. CASE LeavesOf(root') = G
    BY <2>1, <2>2, <2>4 DEF Abstract!Next, Abstract!Perform
  <2> QED
    BY <2>2, <2>3, <2>4
<1>6. CASE Return
  <2>1. PICK G : G = Abstract!Effect(request, LeavesOf(root)) /\ LeavesOf(root) = G
    BY <1>6, ReturnsWith
  <2>2. request # NoRequest /\ request' = NoRequest /\ root' = root /\ crashes' = crashes
    BY <1>6 DEF Return
  <2> QED
    BY <2>1, <2>2 DEF Abstract!Next, Abstract!Return
<1>7. CASE Reopen
  BY <1>7 DEF Reopen
<1>8. CASE Crash
  BY <1>8 DEF Crash, Abstract!Next, Abstract!Crash
<1>9. CASE UNCHANGED vars
  BY <1>9 DEF vars
<1> QED
  BY <1>2, <1>3, <1>4, <1>5, <1>6, <1>7, <1>8, <1>9 DEF Next

(* Every request takes effect at the one write of the root entry and none  *)
(* returns without its effect; a crash leaves the old set of keys or the   *)
(* new one. *)
THEOREM ImplementsKeySet ==
  ASSUME LaterOps = 0
  PROVE  Spec => KeySetSpec
<1>1. Init => Abstract!Init
  BY InitImplements
<1>2. KvInv /\ [Next]_vars => [Abstract!Next]_<<LeavesOf(root), request, crashes>>
  BY StepImplements
<1> QED
  BY <1>1, <1>2, InvHolds, PTL DEF Spec, KeySetSpec, Abstract!Spec, Abstract!vars

=============================================================================
