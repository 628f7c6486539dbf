------------------------- MODULE BloomFiltersProofs -------------------------
(***************************************************************************)
(* Proofs about BloomFilters: for every size of a filter, every width of   *)
(* words and bytes, every number of hash functions, keys and calls.        *)
(***************************************************************************)
EXTENDS BloomFilters, TLAPS

-----------------------------------------------------------------------------
(* Arithmetic of the indices.                                              *)

LEMMA Division ==
  ASSUME NEW a \in Nat, NEW b \in Nat \ {0}
  PROVE  /\ a % b \in 0 .. b - 1
         /\ a \div b \in Nat
         /\ a = b * (a \div b) + (a % b)
OBVIOUS

LEMMA Times ==
  ASSUME NEW a \in Nat, NEW b \in Nat, NEW c \in Nat, a <= b
  PROVE  c * a <= c * b /\ a * c <= b * c /\ c * a = a * c /\ c * a \in Nat
OBVIOUS

(* A quotient and a remainder determine the number. *)
LEMMA Unique ==
  ASSUME NEW b \in Nat \ {0}, NEW q \in Nat, NEW r \in 0 .. b - 1
  PROVE  (b * q + r) % b = r /\ (b * q + r) \div b = q
OBVIOUS

(* A number below size lies in one of the bytes that init allocates. *)
LEMMA InBytes ==
  ASSUME NEW m \in Nat, NEW s \in Nat \ {0}, NEW b \in Nat \ {0}, NEW r \in 0 .. b - 1, m < s
  PROVE  /\ m < ((s + b - 1) \div b) * b
         /\ (m \div b) * b + r \in 0 .. ((s + b - 1) \div b) * b - 1
<1> DEFINE n == (s + b - 1) \div b
           q == m \div b
<1>1. /\ n \in Nat /\ (s + b - 1) % b \in 0 .. b - 1
      /\ s + b - 1 = b * n + ((s + b - 1) % b)
  <2>1. s + b - 1 \in Nat
    OBVIOUS
  <2> QED
    BY <2>1, Division
<1>2. q \in Nat /\ m % b \in 0 .. b - 1 /\ m = b * q + (m % b)
  BY Division
<1> DEFINE u == b * n
           v == b * q
<1>3. u \in Nat /\ v \in Nat /\ u = n * b /\ v = q * b
  BY <1>1, <1>2, Times
<1>4. s <= u
  BY <1>1, <1>3
<1>5. v < u
  BY <1>2, <1>3, <1>4
<1>6. q + 1 <= n
  <2>1. CASE n <= q
    <3>1. u <= v
      BY <1>1, <1>2, <2>1, Times
    <3> QED
      BY <1>3, <1>5, <3>1
  <2> QED
    BY <1>1, <1>2, <2>1
<1>7. v + b <= u
  <2>1. b * (q + 1) <= b * n
    BY <1>1, <1>2, <1>6, Times
  <2>2. b * (q + 1) = b * q + b
    BY <1>2
  <2> QED
    BY <2>1, <2>2
<1> HIDE DEF n, q
<1>8. v + r \in 0 .. u - 1
  BY <1>3, <1>7
<1>9. q * b + r \in 0 .. n * b - 1
  BY <1>3, <1>8
<1> QED
  BY <1>3, <1>4, <1>9 DEF n, q

(* Reducing a number modulo a multiple of b keeps its remainder modulo b. *)
LEMMA ReducedTwice ==
  ASSUME NEW h \in Nat, NEW s \in Nat \ {0}, NEW b \in Nat \ {0}, s % b = 0
  PROVE  (h % s) % b = h % b
<1> DEFINE t == h \div s
           x == h % s
           c == s \div b
           y == x \div b
           z == x % b
<1>1. t \in Nat /\ x \in Nat /\ h = s * t + x
  BY Division
<1>2. c \in Nat /\ s = b * c
  BY Division
<1>3. y \in Nat /\ z \in 0 .. b - 1 /\ x = b * y + z
  BY <1>1, Division
<1> HIDE DEF t, x, c, y, z
<1>4. h = b * (c * t + y) + z
  <2>1. h = (b * c) * t + (b * y + z)
    BY <1>1, <1>2, <1>3
  <2>2. (b * c) * t + (b * y + z) = b * (c * t + y) + z
    BY <1>1, <1>2, <1>3
  <2> QED
    BY <2>1, <2>2
<1>5. c * t + y \in Nat
  BY <1>1, <1>2, <1>3
<1>6. h % b = z
  BY <1>3, <1>4, <1>5, Unique
<1> QED
  BY <1>6 DEF z, x

-----------------------------------------------------------------------------
(* Indices and positions.                                                  *)

LEMMA SizeFacts ==
  ASSUME size \in Sizes
  PROVE  /\ size \in Nat \ {0} /\ ByteSize \in Nat \ {0} /\ WordSize \in Nat \ {0}
         /\ FunctionCount \in Nat \ {0}
BY BloomFiltersAssumption

LEMMA HashType ==
  ASSUME NEW k \in Keys, NEW i \in Functions
  PROVE  Hash(k, i) \in Nat
<1>1. k.f1 \in Nat /\ k.f2 \in Nat /\ WordSize \in Nat \ {0} /\ FunctionCount \in Nat
  BY BloomFiltersAssumption
<1>2. i \in Nat
  BY <1>1 DEF Functions
<1>3. (i + 1) * k.f2 \in Nat
  BY <1>1, <1>2
<1>4. k.f1 + (i + 1) * k.f2 \in Nat
  BY <1>1, <1>3
<1> QED
  BY <1>1, <1>4 DEF Hash

(* Every index lies in the array, whether its hash value was reduced or not. *)
LEMMA IndexInArray ==
  ASSUME size \in Sizes, NEW h \in Nat
  PROVE  Index(h) \in 0 .. Capacity - 1
<1>1. size \in Nat \ {0} /\ ByteSize \in Nat \ {0}
  BY SizeFacts
<1>2. h % size \in Nat /\ h % size < size /\ h % ByteSize \in 0 .. ByteSize - 1
  BY <1>1
<1>3. /\ h % size < Capacity
      /\ FileIndex(h) \in 0 .. Capacity - 1
  BY <1>1, <1>2, InBytes DEF FileIndex, Capacity, Bytes
<1>4. Capacity \in Int
  BY <1>1 DEF Capacity, Bytes
<1> QED
  BY <1>2, <1>3, <1>4 DEF Index, MemoryIndex

LEMMA PositionsInArray ==
  ASSUME size \in Sizes, NEW k \in Keys
  PROVE  /\ Positions(k) \subseteq 0 .. Capacity - 1
         /\ BatchPositions(k) \subseteq 0 .. Capacity - 1
<1>1. ASSUME NEW i \in Functions
      PROVE  Index(Hash(k, i) % size) \in 0 .. Capacity - 1 /\ Index(Hash(k, i)) \in 0 .. Capacity - 1
  <2>1. Hash(k, i) \in Nat /\ size \in Nat \ {0}
    BY HashType, SizeFacts
  <2>2. Hash(k, i) % size \in Nat
    BY <2>1
  <2> QED
    BY <2>1, <2>2, IndexInArray
<1> QED
  BY <1>1 DEF Positions, BatchPositions

(* A hash value has the same bit whether it was reduced or not, unless the *)
(* last byte of a file's array is not full.                                *)
LEMMA ReducedIndex ==
  ASSUME size \in Sizes, Exact, NEW h \in Nat
  PROVE  Index(h % size) = Index(h)
<1>1. size \in Nat \ {0} /\ ByteSize \in Nat \ {0}
  BY SizeFacts
<1>2. (h % size) % size = h % size
  BY <1>1
<1>3. CASE class = "memory"
  BY <1>2, <1>3 DEF Index, MemoryIndex
<1>4. CASE class # "memory"
  <2>1. (h % size) % ByteSize = h % ByteSize
    BY <1>1, <1>4, ReducedTwice DEF Exact
  <2>2. FileIndex(h % size) = FileIndex(h)
    BY <1>2, <2>1 DEF FileIndex
  <2> QED
    BY <1>4, <2>2 DEF Index
<1> QED
  BY <1>3, <1>4

LEMMA BatchSetsPositions ==
  ASSUME size \in Sizes, Exact, NEW k \in Keys
  PROVE  BatchPositions(k) = Positions(k)
<1>1. \A i \in Functions : Index(Hash(k, i) % size) = Index(Hash(k, i))
  BY HashType, ReducedIndex
<1> QED
  BY <1>1 DEF Positions, BatchPositions

-----------------------------------------------------------------------------
(* The invariant.                                                          *)

LEMMA InitFilters == Init => FilterInv
<1> SUFFICES ASSUME Init PROVE FilterInv
  OBVIOUS
<1>1. Holds({}, {})
  BY DEF Holds
<1>2. CountOK(0)
  BY BloomFiltersAssumption DEF CountOK
<1>3. \A n \in Names : Holds(array[n], held[n]) /\ CountOK(count[n])
  BY <1>1, <1>2 DEF Init
<1>4. Holds(stream.array, stream.held) /\ CountOK(stream.count)
  BY <1>1, <1>2 DEF Init, NoStream
<1>5. Shaped
  BY DEF Init, Shaped
<1>6. class \in {"memory", "file"} /\ size \in Sizes /\ hard \in BOOLEAN
  BY DEF Init
<1> QED
  BY <1>3, <1>4, <1>5, <1>6 DEF FilterInv

(* Nothing that a filter is made of changes. *)
Fixed == UNCHANGED <<class, size, hard>>

LEMMA FixedKeeps ==
  ASSUME Fixed
  PROVE  /\ Capacity' = Capacity
         /\ Exact' <=> Exact
         /\ \A k : Positions(k)' = Positions(k)
<1>1. class' = class /\ size' = size
  BY DEF Fixed
<1> QED
  BY <1>1 DEF Positions, Index, MemoryIndex, FileIndex, Capacity, Bytes, Exact

(* What is left to show when the filters and the stream are right, *)
(* measured with the size and the maximum of before.               *)
LEMMA StillRight ==
  ASSUME FilterInv, Fixed,
         Shaped',
         \A n \in Names : Holds(array'[n], held'[n]) /\ CountOK(count'[n]),
         Holds(stream'.array, stream'.held), CountOK(stream'.count)
  PROVE  FilterInv'
<1>1. ASSUME NEW n \in Names
      PROVE  (Holds(array[n], held[n]) /\ CountOK(count[n]))'
  <2>1. Holds(array'[n], held'[n]) /\ CountOK(count'[n])
    OBVIOUS
  <2>2. (Holds(array[n], held[n]))'
    BY <2>1, FixedKeeps DEF Holds
  <2>3. (CountOK(count[n]))'
    BY <2>1 DEF CountOK, Fixed
  <2> QED
    BY <2>2, <2>3
<1>2. (Holds(stream.array, stream.held) /\ CountOK(stream.count))'
  <2>1. (Holds(stream.array, stream.held))'
    BY FixedKeeps DEF Holds
  <2>2. (CountOK(stream.count))'
    BY DEF CountOK, Fixed
  <2> QED
    BY <2>1, <2>2
<1>3. class' \in {"memory", "file"} /\ size' \in Sizes /\ hard' \in BOOLEAN
  BY Zenon DEF FilterInv, Fixed
<1> QED
  BY <1>1, <1>2, <1>3 DEF FilterInv

(* A call that changes one filter. *)
LEMMA OneFilterChanges ==
  ASSUME FilterInv, Fixed, UNCHANGED stream,
         NEW n \in Names, NEW bits, NEW keys, NEW number,
         array' = [array EXCEPT ![n] = bits],
         held' = [held EXCEPT ![n] = keys],
         count' = [count EXCEPT ![n] = number],
         Holds(bits, keys), CountOK(number)
  PROVE  FilterInv'
<1>1. DOMAIN array = Names /\ DOMAIN held = Names /\ DOMAIN count = Names
  BY DEF FilterInv, Shaped
<1>2. \A m \in Names : Holds(array'[m], held'[m]) /\ CountOK(count'[m])
  <2> TAKE m \in Names
  <2>1. CASE m = n
    BY <1>1, <2>1
  <2>2. CASE m # n
    BY <1>1, <2>2 DEF FilterInv
  <2> QED
    BY <2>1, <2>2
<1>3. Holds(stream'.array, stream'.held) /\ CountOK(stream'.count)
  BY DEF FilterInv
<1>4. Shaped'
  BY <1>1 DEF FilterInv, Shaped
<1> QED
  BY <1>2, <1>3, <1>4, StillRight

LEMMA BatchType ==
  ASSUME NEW keys \in Batches
  PROVE  /\ Len(keys) \in Nat /\ DOMAIN keys = 1 .. Len(keys)
         /\ \A i \in 1 .. Len(keys) : keys[i] \in Keys
<1>1. PICK l \in 1 .. Batch : keys \in [1 .. l -> Keys]
  BY DEF Batches
<1>2. l \in Nat
  BY BloomFiltersAssumption
<1>3. keys \in Seq(Keys) /\ Len(keys) = l
  BY <1>1, <1>2
<1> QED
  BY <1>1, <1>2, <1>3

LEMMA AddKeeps ==
  ASSUME FilterInv, NEW n \in Names, NEW k \in Keys, Add(n, k)
  PROVE  FilterInv'
<1> DEFINE bits == array[n] \union Positions(k)
           keys == held[n] \union {k}
           number == count[n] + 1
<1>1. /\ array' = [array EXCEPT ![n] = bits]
      /\ held' = [held EXCEPT ![n] = keys]
      /\ count' = [count EXCEPT ![n] = number]
      /\ Fixed /\ UNCHANGED stream
  BY DEF Add, Fixed
<1>2. Holds(array[n], held[n]) /\ CountOK(count[n]) /\ size \in Sizes /\ hard \in BOOLEAN
  BY DEF FilterInv
<1>3. Holds(bits, keys)
  <2>1. Positions(k) \subseteq 0 .. Capacity - 1
    BY <1>2, PositionsInArray
  <2> QED
    BY <1>2, <2>1 DEF Holds
<1>4. CountOK(number)
  <2>1. CASE hard
    <3>1. ~(count[n] >= MaxElements) /\ count[n] \in 0 .. MaxElements
      BY <1>2, <2>1 DEF Add, CountOK
    <3> QED
      BY <2>1, <3>1, BloomFiltersAssumption DEF CountOK
  <2>2. CASE ~hard
    BY <1>2, <2>2 DEF CountOK
  <2> QED
    BY <2>1, <2>2
<1> QED
  BY <1>1, <1>3, <1>4, OneFilterChanges

LEMMA AddAllKeeps ==
  ASSUME FilterInv, NEW n \in Names, NEW batch \in Batches, AddAll(n, batch)
  PROVE  FilterInv'
<1> DEFINE ks == {batch[i] : i \in DOMAIN batch}
           bits == array[n] \union UNION {BatchPositions(k) : k \in ks}
           keys == held[n] \union ks
           number == count[n] + Len(batch)
<1>1. DOMAIN array = Names /\ DOMAIN held = Names /\ DOMAIN count = Names
  BY DEF FilterInv, Shaped
<1>2. /\ array' = [array EXCEPT ![n] = bits]
      /\ held' = [held EXCEPT ![n] = keys]
      /\ count' = [count EXCEPT ![n] = number]
      /\ Fixed /\ UNCHANGED stream
  BY <1>1 DEF AddAll, Fixed
<1>3. Holds(array[n], held[n]) /\ CountOK(count[n]) /\ size \in Sizes /\ hard \in BOOLEAN
  BY DEF FilterInv
<1>4. Len(batch) \in Nat /\ ks \subseteq Keys
  BY BatchType
<1> HIDE DEF ks
<1>5. Holds(bits, keys)
  <2>1. \A k \in ks : BatchPositions(k) \subseteq 0 .. Capacity - 1
    BY <1>3, <1>4, PositionsInArray
  <2>2. bits \subseteq 0 .. Capacity - 1
    BY <1>3, <2>1 DEF Holds
  <2>3. ASSUME Exact, NEW k \in keys
        PROVE  Positions(k) \subseteq bits
    <3>1. CASE k \in held[n]
      BY <1>3, <2>3, <3>1 DEF Holds
    <3>2. CASE k \notin held[n]
      <4>1. k \in ks
        BY <2>3, <3>2
      <4>2. BatchPositions(k) = Positions(k)
        BY <1>3, <1>4, <2>3, <4>1, BatchSetsPositions
      <4> QED
        BY <4>1, <4>2
    <3> QED
      BY <3>1, <3>2
  <2>4. keys \subseteq Keys
    BY <1>3, <1>4 DEF Holds
  <2> QED
    BY <2>2, <2>3, <2>4 DEF Holds
<1>6. CountOK(number)
  <2>1. CASE hard
    <3>1. count[n] + Len(batch) <= MaxElements /\ count[n] \in 0 .. MaxElements
      BY <1>3, <2>1 DEF AddAll, Fits, CountOK
    <3> QED
      BY <1>4, <2>1, <3>1, BloomFiltersAssumption DEF CountOK
  <2>2. CASE ~hard
    BY <1>3, <1>4, <2>2 DEF CountOK
  <2> QED
    BY <2>1, <2>2
<1> QED
  BY <1>2, <1>5, <1>6, OneFilterChanges

LEMMA ClearKeeps ==
  ASSUME FilterInv, NEW n \in Names, Clear(n)
  PROVE  FilterInv'
<1>1. Holds({}, {}) /\ CountOK(0)
  BY BloomFiltersAssumption DEF Holds, CountOK
<1>2. Fixed /\ UNCHANGED stream
  BY DEF Clear, Fixed
<1> QED
  BY <1>1, <1>2, OneFilterChanges DEF Clear

(* |=, &= and ^= keep the counter, which says nothing of the array. *)
LEMMA CombineKeeps ==
  ASSUME FilterInv, NEW n \in Names, NEW m \in Names, NEW bits, NEW keys,
         Combine(n, m, bits, keys), Holds(bits, keys)
  PROVE  FilterInv'
<1>1. /\ array' = [array EXCEPT ![n] = bits]
      /\ held' = [held EXCEPT ![n] = keys]
      /\ Fixed /\ UNCHANGED stream /\ UNCHANGED count
  BY DEF Combine, Fixed
<1>2. DOMAIN count = Names /\ CountOK(count[n]) /\ DOMAIN array = Names /\ DOMAIN held = Names
  BY DEF FilterInv, Shaped
<1>3. \A q \in Names : Holds(array'[q], held'[q]) /\ CountOK(count'[q])
  BY <1>1, <1>2 DEF FilterInv
<1>4. Holds(stream'.array, stream'.held) /\ CountOK(stream'.count)
  BY <1>1 DEF FilterInv
<1>5. Shaped'
  BY <1>1, <1>2 DEF FilterInv, Shaped
<1> QED
  BY <1>1, <1>3, <1>4, <1>5, StillRight

LEMMA OperatorsKeep ==
  ASSUME FilterInv, NEW n \in Names, NEW m \in Names,
         Unite(n, m) \/ Intersect(n, m) \/ Differ(n, m) \/ Assign(n, m)
  PROVE  FilterInv'
<1>1. Holds(array[n], held[n]) /\ Holds(array[m], held[m])
  BY DEF FilterInv
<1>2. CASE Unite(n, m)
  <2>1. Holds(array[n] \union array[m], held[n] \union held[m])
    BY <1>1 DEF Holds
  <2> QED
    BY <1>2, <2>1, CombineKeeps DEF Unite
<1>3. CASE Intersect(n, m)
  <2>1. Holds(array[n] \intersect array[m], held[n] \intersect held[m])
    BY <1>1 DEF Holds
  <2> QED
    BY <1>3, <2>1, CombineKeeps DEF Intersect
<1>4. CASE Differ(n, m)
  <2>1. Holds((array[n] \ array[m]) \union (array[m] \ array[n]), {})
    BY <1>1 DEF Holds
  <2> QED
    BY <1>4, <2>1, CombineKeeps DEF Differ
<1>5. CASE Assign(n, m)
  <2>1. CountOK(count[m])
    BY DEF FilterInv
  <2>2. Fixed /\ UNCHANGED stream
    BY <1>5 DEF Assign, Fixed
  <2> QED
    BY <1>1, <1>5, <2>1, <2>2, OneFilterChanges DEF Assign
<1> QED
  BY <1>2, <1>3, <1>4, <1>5

LEMMA StreamKeeps ==
  ASSUME FilterInv, NEW n \in Names, Save(n) \/ Load(n)
  PROVE  FilterInv'
<1>1. CASE Load(n)
  <2>1. Holds(stream.array, stream.held) /\ CountOK(stream.count)
    BY DEF FilterInv
  <2>2. Fixed /\ UNCHANGED stream
    BY <1>1 DEF Load, Fixed
  <2> QED
    BY <1>1, <2>1, <2>2, OneFilterChanges DEF Load
<1>2. CASE Save(n)
  <2>1. /\ stream'.array = array[n] /\ stream'.count = count[n] /\ stream'.held = held[n]
        /\ Fixed /\ UNCHANGED <<array, count, held>>
    BY <1>2 DEF Save, Fixed
  <2>2. Holds(stream'.array, stream'.held) /\ CountOK(stream'.count)
    BY <2>1 DEF FilterInv
  <2>3. \A q \in Names : Holds(array'[q], held'[q]) /\ CountOK(count'[q])
    BY <2>1 DEF FilterInv
  <2>4. Shaped'
    BY <2>1 DEF FilterInv, Shaped
  <2> QED
    BY <2>1, <2>2, <2>3, <2>4, StillRight
<1> QED
  BY <1>1, <1>2

LEMMA NextFilters == FilterInv /\ [Next]_vars => FilterInv'
<1> SUFFICES ASSUME FilterInv, [Next]_vars PROVE FilterInv'
  OBVIOUS
<1>1. ASSUME NEW n \in Names, NEW k \in Keys, Add(n, k)
      PROVE  FilterInv'
  BY <1>1, AddKeeps
<1>2. ASSUME NEW n \in Names, NEW keys \in Batches, AddAll(n, keys)
      PROVE  FilterInv'
  BY <1>2, AddAllKeeps
<1>3. ASSUME NEW n \in Names, NEW m \in Names,
             Unite(n, m) \/ Intersect(n, m) \/ Differ(n, m) \/ Assign(n, m)
      PROVE  FilterInv'
  BY <1>3, OperatorsKeep
<1>4. ASSUME NEW n \in Names, Clear(n)
      PROVE  FilterInv'
  BY <1>4, ClearKeeps
<1>5. ASSUME NEW n \in Names, Save(n) \/ Load(n)
      PROVE  FilterInv'
  BY <1>5, StreamKeeps
<1>6. CASE UNCHANGED vars
  <2>1. Fixed /\ UNCHANGED <<array, count, held, stream>>
    BY <1>6 DEF vars, Fixed
  <2>2. /\ \A q \in Names : Holds(array'[q], held'[q]) /\ CountOK(count'[q])
        /\ Holds(stream'.array, stream'.held) /\ CountOK(stream'.count)
    BY <2>1 DEF FilterInv
  <2>3. Shaped'
    BY <2>1 DEF FilterInv, Shaped
  <2> QED
    BY <2>1, <2>2, <2>3, StillRight
<1> QED
  BY <1>1, <1>2, <1>3, <1>4, <1>5, <1>6 DEF Next

LEMMA FiltersAlways == Spec => []FilterInv
BY InitFilters, NextFilters, PTL DEF Spec

-----------------------------------------------------------------------------
(* The results.                                                            *)

(***************************************************************************)
(* compute_indices stays inside the array that init allocates for every    *)
(* size and every hash value, reduced or not, and a hard maximum is never  *)
(* exceeded, by add, addAll, an assignment or load.                        *)
(***************************************************************************)
THEOREM IndicesStayInside == Spec => []TypeOK
<1>1. FilterInv => TypeOK
  <2> SUFFICES ASSUME FilterInv PROVE TypeOK
    OBVIOUS
  <2>1. ASSUME NEW n \in Names
        PROVE  /\ array[n] \in SUBSET (0 .. Capacity - 1)
               /\ held[n] \in SUBSET Keys
               /\ CountOK(count[n])
    BY DEF FilterInv, Holds
  <2>2. array \in [Names -> SUBSET (0 .. Capacity - 1)] /\ held \in [Names -> SUBSET Keys]
    <3>1. array = [n \in Names |-> array[n]] /\ held = [n \in Names |-> held[n]]
      BY DEF FilterInv, Shaped
    <3> QED
      BY <2>1, <3>1
  <2>3. count \in [Names -> IF hard THEN 0 .. MaxElements ELSE Nat]
    <3>1. count = [n \in Names |-> count[n]]
      BY DEF FilterInv, Shaped
    <3> QED
      BY <2>1, <3>1 DEF CountOK
  <2> QED
    BY <2>2, <2>3 DEF TypeOK
<1> QED
  BY <1>1, FiltersAlways, PTL

(* containsAll of the class in memory, for keys that are all contained. *)
LEMMA MemoryFindsAll ==
  ASSUME NEW n \in Names, NEW keys \in Batches,
         \A i \in 1 .. Len(keys) : Contains(n, keys[i])
  PROVE  MemoryContainsAll(n, keys) = Len(keys)
<1> DEFINE P(i) == /\ \A j \in 1 .. i : Contains(n, keys[j])
                   /\ i < Len(keys) => ~Contains(n, keys[i + 1])
<1>1. Len(keys) \in Nat
  BY BatchType
<1>2. Len(keys) \in 0 .. Len(keys) /\ P(Len(keys))
  BY <1>1
<1>3. \A i \in 0 .. Len(keys) : P(i) => i = Len(keys)
  BY <1>1
<1>4. MemoryContainsAll(n, keys) = CHOOSE i \in 0 .. Len(keys) : P(i)
  BY DEF MemoryContainsAll
<1> HIDE DEF P
<1> QED
  BY <1>2, <1>3, <1>4

(***************************************************************************)
(* What was added, in whichever of the ways the classes offer, is found by *)
(* contains, for every number of hash functions and every word size: in    *)
(* memory for every size of the filter, in a file for every size that      *)
(* fills its last byte, although that class computes indices in two ways.  *)
(* containsAll of the class in memory finds all the keys of a batch.       *)
(***************************************************************************)
THEOREM NothingAddedIsMissed == Spec => []NoFalseNegatives
<1>1. FilterInv => NoFalseNegatives
  <2> SUFFICES ASSUME FilterInv PROVE NoFalseNegatives
    OBVIOUS
  <2>1. ASSUME Exact, NEW n \in Names, NEW k \in held[n]
        PROVE  Contains(n, k)
    BY <2>1 DEF FilterInv, Holds, Contains
  <2>2. ASSUME class = "memory", NEW n \in Names, NEW keys \in Batches,
               \A i \in DOMAIN keys : keys[i] \in held[n]
        PROVE  ContainsAll(n, keys) = Len(keys)
    <3>1. \A i \in 1 .. Len(keys) : Contains(n, keys[i])
      BY <2>1, <2>2, BatchType DEF Exact
    <3>2. MemoryContainsAll(n, keys) = Len(keys)
      BY <3>1, MemoryFindsAll
    <3> QED
      BY <2>2, <3>2 DEF ContainsAll
  <2> QED
    BY <2>1, <2>2 DEF NoFalseNegatives
<1> QED
  BY <1>1, FiltersAlways, PTL

(***************************************************************************)
(* What NoFalseNegatives leaves out is not right.  The batch of addAll and *)
(* contains mean the same bit by every hash value only if the filter is in *)
(* memory or its size fills the last byte: in a file of any other size,    *)
(* FSBloomFilter::addAll sets for some values a bit that contains does not *)
(* ask for, and contains misses the key, against FSBloomFilter.h, line 59  *)
(* ("true if the given key seems to have been inserted in past").          *)
(***************************************************************************)
THEOREM BatchesNeedFullBytes ==
  Spec => []((\A h \in Nat : Index(h % size) = Index(h)) <=> Exact)
<1>1. FilterInv => ((\A h \in Nat : Index(h % size) = Index(h)) <=> Exact)
  <2> SUFFICES ASSUME FilterInv
               PROVE  (\A h \in Nat : Index(h % size) = Index(h)) <=> Exact
    OBVIOUS
  <2>1. size \in Sizes /\ class \in {"memory", "file"}
    BY DEF FilterInv
  <2>2. size \in Nat \ {0} /\ ByteSize \in Nat \ {0}
    BY <2>1, SizeFacts
  <2>3. ASSUME Exact PROVE \A h \in Nat : Index(h % size) = Index(h)
    BY <2>1, <2>3, ReducedIndex
  <2>4. ASSUME ~Exact PROVE \E h \in Nat : Index(h % size) # Index(h)
    <3>1. class = "file" /\ size % ByteSize # 0
      BY <2>1, <2>4 DEF Exact
    <3>2. size % size = 0 /\ 0 % size = 0 /\ 0 \div ByteSize = 0 /\ 0 % ByteSize = 0
      BY <2>2
    <3>3. FileIndex(0) = 0 /\ FileIndex(size) = size % ByteSize
      <4>1. size % ByteSize \in Nat /\ 0 * ByteSize = 0
        BY <2>2
      <4> QED
        BY <3>2, <4>1 DEF FileIndex
    <3>4. Index(size % size) # Index(size)
      BY <3>1, <3>2, <3>3 DEF Index
    <3> QED
      BY <2>2, <3>4
  <2> QED
    BY <2>3, <2>4
<1> QED
  BY <1>1, FiltersAlways, PTL

(* An array whose last byte is full ends with that byte. *)
LEMMA FullBytes ==
  ASSUME size \in Sizes, size % ByteSize = 0
  PROVE  Capacity = (size \div ByteSize) * ByteSize
<1>1. size \in Nat \ {0} /\ ByteSize \in Nat \ {0}
  BY SizeFacts
<1> DEFINE c == size \div ByteSize
<1>2. c \in Nat /\ size = ByteSize * c
  BY <1>1, Division
<1> HIDE DEF c
<1>3. size + ByteSize - 1 = ByteSize * c + (ByteSize - 1) /\ ByteSize - 1 \in 0 .. ByteSize - 1
  BY <1>1, <1>2
<1>4. (size + ByteSize - 1) \div ByteSize = c
  BY <1>1, <1>2, <1>3, Unique
<1> QED
  BY <1>4 DEF Capacity, Bytes, c

(***************************************************************************)
(* For sizes that fill their last byte operator == compares exactly: two   *)
(* filters are equal if and only if they have the same bits.  (It is the   *)
(* shift of a last byte that is not full which loses bits.)                *)
(***************************************************************************)
THEOREM EqualityIsExact ==
  Spec => [](size % ByteSize = 0 => (Equal("one", "other") <=> array["one"] = array["other"]))
<1>1. FilterInv => (size % ByteSize = 0 => (Equal("one", "other") <=> array["one"] = array["other"]))
  <2> SUFFICES ASSUME FilterInv, size % ByteSize = 0
               PROVE  Equal("one", "other") <=> array["one"] = array["other"]
    OBVIOUS
  <2>1. Capacity = (size \div ByteSize) * ByteSize
    BY FullBytes DEF FilterInv
  <2>2. ASSUME NEW n \in Names
        PROVE  WholeBits(array[n]) = array[n]
    <3>1. array[n] \subseteq 0 .. Capacity - 1
      BY DEF FilterInv, Holds
    <3>2. Capacity \in Int
      BY SizeFacts DEF Capacity, Bytes, FilterInv
    <3>3. \A b \in array[n] : b < Capacity
      BY <3>1, <3>2
    <3> QED
      BY <2>1, <3>3 DEF WholeBits
  <2> QED
    BY <2>2 DEF Equal, Names
<1> QED
  BY <1>1, FiltersAlways, PTL

(***************************************************************************)
(* For any other size it does not: a filter with the first bit of the last *)
(* byte set and an empty one differ in a bit that is in use and are equal, *)
(* against FSBloomFilter.h, line 70 ("exact the same bit array").          *)
(***************************************************************************)
THEOREM LastBitsAreNotCompared ==
  ASSUME size \in Sizes, size % ByteSize # 0,
         array = [n \in Names |-> IF n = "one" THEN {} ELSE {(size \div ByteSize) * ByteSize}]
  PROVE  /\ (size \div ByteSize) * ByteSize \in 0 .. size - 1
         /\ Equal("one", "other")
<1>1. size \in Nat \ {0} /\ ByteSize \in Nat \ {0}
  BY SizeFacts
<1> DEFINE whole == (size \div ByteSize) * ByteSize
           unused == ByteSize - (size % ByteSize)
<1>2. /\ whole \in Nat /\ size % ByteSize \in 0 .. ByteSize - 1
      /\ size = whole + (size % ByteSize)
  <2>1. /\ size % ByteSize \in 0 .. ByteSize - 1 /\ size \div ByteSize \in Nat
        /\ size = ByteSize * (size \div ByteSize) + (size % ByteSize)
    BY <1>1, Division
  <2>2. /\ ByteSize * (size \div ByteSize) = (size \div ByteSize) * ByteSize
        /\ (size \div ByteSize) * ByteSize \in Nat
    BY <1>1, <2>1
  <2> QED
    BY <2>1, <2>2
<1>3. array["one"] = {} /\ array["other"] = {whole}
  BY DEF Names
<1>4. unused \in 1 .. ByteSize /\ 0 - unused \notin Nat /\ whole - whole = 0
  BY <1>1, <1>2
<1>5. ~(whole < whole)
  BY <1>2
<1>6. WholeBits(array["one"]) = {} /\ WholeBits(array["other"]) = {}
  BY <1>3, <1>5 DEF WholeBits
<1>7. Shifted({}) = {}
  BY DEF Shifted
<1>8. Shifted({whole}) = {}
  BY <1>4 DEF Shifted
<1>9. whole \in 0 .. size - 1
  BY <1>1, <1>2
<1> QED
  BY <1>3, <1>6, <1>7, <1>8, <1>9 DEF Equal

=============================================================================
