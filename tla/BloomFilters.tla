---------------------------- MODULE BloomFilters ----------------------------
(***************************************************************************)
(* The plain Bloom filters: BloomFilter, an array in memory, and           *)
(* FSBloomFilter, the same in a mapped file and the base of the counting   *)
(* filter.  Two filters of one class and size are filled one by one and in *)
(* batches, united, intersected, assigned, saved and loaded.               *)
(*                                                                         *)
(* The bits of an array are numbered byte by byte, so that the two ways to *)
(* compute an index can be told apart, and hash values are computed from a *)
(* key's two words in the words' own width.                                *)
(***************************************************************************)
EXTENDS Integers, Sequences, FiniteSets

CONSTANTS
    Keys,           \* the keys, records of the words f1 and f2
    WordSize,       \* 2^64: unsigned words wrap around
    FunctionCount,  \* functionCount_
    Sizes,          \* the values of filterSize_ to be checked
    ByteSize,       \* BYTESIZE
    MaxElements,    \* maxElements_, where it is a hard maximum
    CountBound,     \* bound: elements in a filter without a maximum
    Batch,          \* bound: keys of one call of addAll
    Calls           \* bound: calls that change a filter or the stream

ASSUME BloomFiltersAssumption ==
    /\ WordSize \in Nat \ {0}
    /\ Keys \subseteq [f1 : 0 .. WordSize - 1, f2 : 0 .. WordSize - 1]
    /\ Sizes \subseteq Nat \ {0}
    /\ FunctionCount \in Nat \ {0}
    /\ ByteSize \in Nat \ {0}
    /\ {MaxElements, CountBound, Batch, Calls} \subseteq Nat

Names == {"one", "other"}
Functions == 0 .. FunctionCount - 1

VARIABLES
    class,    \* "memory" for BloomFilter, "file" for FSBloomFilter
    size,     \* filterSize_
    hard,     \* hardMaximum_
    array,    \* bitArray_ of each filter: the numbers of the bits that are set
    count,    \* itemCount_
    stream,   \* what save has written: an array, its count, and what it stands for
    held,     \* the keys that each filter has to contain
    calls     \* the calls so far

vars == <<class, size, hard, array, count, stream, held, calls>>

(* DoubleHashingScheme::hash. *)
Hash(k, i) == (k.f1 + (i + 1) * k.f2) % WordSize

(* init. *)
Bytes == (size + ByteSize - 1) \div ByteSize
Capacity == Bytes * ByteSize
NoStream == [array |-> {}, count |-> 0, held |-> {}]

Init ==
    /\ class \in {"memory", "file"}
    /\ size \in Sizes
    /\ hard \in BOOLEAN
    /\ array = [n \in Names |-> {}]
    /\ count = [n \in Names |-> 0]
    /\ stream = NoStream
    /\ held = [n \in Names |-> {}]
    /\ calls = 0

-----------------------------------------------------------------------------
(* compute_indices of the two classes: byte and bit, as one number.        *)

MemoryIndex(h) == h % size
FileIndex(h) == ((h % size) \div ByteSize) * ByteSize + (h % ByteSize)
(* Fault: the hash value is not reduced. *)
IndexUnreduced(h) == h

Index(h) == IF class = "memory" THEN MemoryIndex(h) ELSE FileIndex(h)

(***************************************************************************)
(* add, contains and the file's containsAll reduce a hash value (or leave  *)
(* it to the memory's compute_indices); addAll does not.                   *)
(***************************************************************************)
Positions(k) == {Index(Hash(k, i) % size) : i \in Functions}
BatchPositions(k) == {Index(Hash(k, i)) : i \in Functions}

Contains(n, k) == Positions(k) \subseteq array[n]

(* The number of keys before the first one that is not contained. *)
MemoryContainsAll(n, keys) ==
    CHOOSE i \in 0 .. Len(keys) :
        /\ \A j \in 1 .. i : Contains(n, keys[j])
        /\ i < Len(keys) => ~Contains(n, keys[i + 1])

(***************************************************************************)
(* The number of hash values, sorted, before the first that is not found   *)
(* (that is, of those smaller than it), but at least 1; and 1 if all of    *)
(* them are found.                                                         *)
(***************************************************************************)
FileContainsAll(n, keys) ==
    LET values == [j \in 1 .. Len(keys) * FunctionCount |->
                     Hash(keys[((j - 1) \div FunctionCount) + 1], (j - 1) % FunctionCount) % size]
        absent == {j \in DOMAIN values : Index(values[j]) \notin array[n]} IN
    IF absent = {} THEN 1
    ELSE LET first == CHOOSE j \in absent : \A l \in absent : values[j] <= values[l]
             i == Cardinality({l \in DOMAIN values : values[l] < values[first]})
         IN IF i = 0 THEN 1 ELSE i

ContainsAll(n, keys) ==
    IF class = "memory" THEN MemoryContainsAll(n, keys) ELSE FileContainsAll(n, keys)

-----------------------------------------------------------------------------
(* Bound on filters without a maximum. *)
Bounded(n, number) == hard \/ count[n] + number <= CountBound

(* At the hard maximum add throws and changes nothing. *)
Add(n, k) ==
    /\ ~(hard /\ count[n] >= MaxElements)
    /\ Bounded(n, 1)
    /\ array' = [array EXCEPT ![n] = @ \union Positions(k)]
    /\ count' = [count EXCEPT ![n] = @ + 1]
    /\ held' = [held EXCEPT ![n] = @ \union {k}]
    /\ UNCHANGED <<class, size, hard, stream>>

Fits(n, keys) == ~hard \/ count[n] + Len(keys) <= MaxElements

(* addAll, for a batch that may name a key twice. *)
AddAll(n, keys) ==
    /\ Fits(n, keys)
    /\ Bounded(n, Len(keys))
    /\ LET ks == {keys[i] : i \in DOMAIN keys} IN
          /\ array' = [array EXCEPT ![n] = @ \union UNION {BatchPositions(k) : k \in ks}]
          /\ held' = [held EXCEPT ![n] = @ \union ks]
    /\ count' = [count EXCEPT ![n] = @ + Len(keys)]
    /\ UNCHANGED <<class, size, hard, stream>>

Clear(n) ==
    /\ array' = [array EXCEPT ![n] = {}]
    /\ count' = [count EXCEPT ![n] = 0]
    /\ held' = [held EXCEPT ![n] = {}]
    /\ UNCHANGED <<class, size, hard, stream>>

(***************************************************************************)
(* |=, &= and ^=, byte by byte.  None of them touches itemCount_.  What a  *)
(* symmetric difference contains is up to the bits that cancel out.        *)
(***************************************************************************)
Combine(n, m, bits, keys) ==
    /\ array' = [array EXCEPT ![n] = bits]
    /\ held' = [held EXCEPT ![n] = keys]
    /\ UNCHANGED <<class, size, hard, count, stream>>

(* Fault: a last byte that is not full is left out. *)
UniteWholeBytes(n, m) ==
    Combine(n, m, array[n] \union {b \in array[m] : b < (size \div ByteSize) * ByteSize}, held[n] \union held[m])

Unite(n, m) == Combine(n, m, array[n] \union array[m], held[n] \union held[m])
Intersect(n, m) == Combine(n, m, array[n] \intersect array[m], held[n] \intersect held[m])
Differ(n, m) ==
    Combine(n, m, (array[n] \ array[m]) \union (array[m] \ array[n]), {})

(* operator=, of the class in memory only. *)
Assign(n, m) ==
    /\ class = "memory"
    /\ array' = [array EXCEPT ![n] = array[m]]
    /\ count' = [count EXCEPT ![n] = count[m]]
    /\ held' = [held EXCEPT ![n] = held[m]]
    /\ UNCHANGED <<class, size, hard, stream>>

Save(n) ==
    /\ stream' = [array |-> array[n], count |-> count[n], held |-> held[n]]
    /\ UNCHANGED <<class, size, hard, array, count, held>>

(***************************************************************************)
(* load, with the number that save returned.  It refuses a filter that     *)
(* counts elements; the array of one that only counts none is overwritten. *)
(***************************************************************************)
Load(n) ==
    /\ count[n] = 0
    /\ array' = [array EXCEPT ![n] = stream.array]
    /\ count' = [count EXCEPT ![n] = stream.count]
    /\ held' = [held EXCEPT ![n] = stream.held]
    /\ UNCHANGED <<class, size, hard, stream>>

Batches == UNION {[1 .. l -> Keys] : l \in 1 .. Batch}

Next ==
    /\ calls < Calls
    /\ calls' = calls + 1
    /\ \E n \in Names :
          \/ \E k \in Keys : Add(n, k)
          \/ \E keys \in Batches : AddAll(n, keys)
          \/ \E m \in Names : Unite(n, m) \/ Intersect(n, m) \/ Differ(n, m) \/ Assign(n, m)
          \/ Clear(n) \/ Save(n) \/ Load(n)

Spec == Init /\ [][Next]_vars

-----------------------------------------------------------------------------
(* What memcmp looks at. *)
WholeBits(bits) == {b \in bits : b < (size \div ByteSize) * ByteSize}

(***************************************************************************)
(* operator ==: the whole bytes by memcmp, and of the last one, if it is   *)
(* not full, what is left after a shift to the right by the number of its  *)
(* unused bits.  operator != answers the opposite.                         *)
(***************************************************************************)
Shifted(bits) ==
    LET remainder == size % ByteSize IN
    {b - (ByteSize - remainder) : b \in {c - (size \div ByteSize) * ByteSize : c \in bits}} \intersect Nat

Equal(n, m) ==
    /\ WholeBits(array[n]) = WholeBits(array[m])
    /\ size % ByteSize = 0 \/ Shifted(array[n]) = Shifted(array[m])

-----------------------------------------------------------------------------
(***************************************************************************)
(* No index of compute_indices lies outside the array that init has        *)
(* allocated, also for hash values that addAll has not reduced, and a hard *)
(* maximum bounds what a filter counts, however elements come into it.     *)
(***************************************************************************)
TypeOK ==
    /\ array \in [Names -> SUBSET (0 .. Capacity - 1)]
    /\ count \in [Names -> IF hard THEN 0 .. MaxElements ELSE Nat]
    /\ held \in [Names -> SUBSET Keys]

(***************************************************************************)
(* contains asks for the bits that addAll sets: in memory for every size,  *)
(* in a file if the size fills its last byte.                              *)
(***************************************************************************)
Exact == class = "memory" \/ size % ByteSize = 0

(***************************************************************************)
(* No false negatives, in such filters: what was added, one by one or in a *)
(* batch, directly, by union, by assignment or out of a stream, is         *)
(* contained, and the class in memory counts it in containsAll.            *)
(***************************************************************************)
NoFalseNegatives ==
    \A n \in Names :
       /\ Exact => \A k \in held[n] : Contains(n, k)
       /\ class = "memory" =>
            \A keys \in Batches :
               (\A i \in DOMAIN keys : keys[i] \in held[n]) => ContainsAll(n, keys) = Len(keys)

-----------------------------------------------------------------------------
(* What makes these invariants inductive: an exact filter contains what it *)
(* holds, and so would a filter that is loaded from the stream.            *)

CountOK(number) == number \in IF hard THEN 0 .. MaxElements ELSE Nat

Holds(bits, keys) ==
    /\ bits \subseteq 0 .. Capacity - 1
    /\ keys \subseteq Keys
    /\ Exact => \A k \in keys : Positions(k) \subseteq bits

Shaped ==
    /\ array = [n \in Names |-> array[n]]
    /\ count = [n \in Names |-> count[n]]
    /\ held = [n \in Names |-> held[n]]

FilterInv ==
    /\ class \in {"memory", "file"} /\ size \in Sizes /\ hard \in BOOLEAN
    /\ Shaped
    /\ \A n \in Names : Holds(array[n], held[n]) /\ CountOK(count[n])
    /\ Holds(stream.array, stream.held) /\ CountOK(stream.count)

=============================================================================
