---------------------------- MODULE BloomRecords ----------------------------
(***************************************************************************)
(* The records of the counting Bloom filter, one for each bit that is set: *)
(* an array of the hashes that were added there.                           *)
(*                                                                         *)
(* A record is kept by its bytes: remove shortens it by one byte, not by   *)
(* one hash, so that its length need not be a multiple of the hash size    *)
(* any more.  "entries" are the whole hashes that the code sees in it, and *)
(* "tail" is the number of bytes behind them.  A hash appended behind a    *)
(* tail is not seen as itself: what the code sees there is Junk, taken to  *)
(* differ from every key.                                                  *)
(***************************************************************************)
EXTENDS Integers, Sequences, FiniteSets, Functions

CONSTANTS
  Keys,       \* the hashes that are added and removed
  Junk,       \* a hash-sized piece of a record that is no key
  HashSize    \* getHashSize()

ASSUME RecordsAssumption ==
  /\ Junk \notin Keys
  /\ HashSize \in Nat \ {0}

NoRecord == [entries |-> <<>>, tail |-> 0]
Record == [entries : Seq(Keys \cup {Junk}), tail : 0 .. HashSize - 1]

-----------------------------------------------------------------------------
(* add writes the record back with one hash more. *)
Appended(record, k) ==
  [record EXCEPT !.entries = Append(@, IF record.tail = 0 THEN k ELSE Junk)]

(* The indices of the hashes other than k, up to the j-th one. *)
OthersUpTo(entries, k, j) == {m \in 1 .. j : entries[m] # k}
IthOther(entries, k, i) ==
  {j \in DOMAIN entries :
     entries[j] # k /\ Cardinality(OthersUpTo(entries, k, j)) = i}

(* The loop that moves the other hashes to the front, inside the buffer.   *)
(* It copies k too, but to the place that the next hash overwrites; a k    *)
(* that comes last stays behind the others.                                *)
MovedUp(entries, k) ==
  LET others == Cardinality(OthersUpTo(entries, k, Len(entries))) IN
  [i \in DOMAIN entries |->
     IF IthOther(entries, k, i) # {}
       THEN entries[CHOOSE j \in IthOther(entries, k, i) : TRUE]
     ELSE IF i = others + 1 /\ entries[Len(entries)] = k THEN k
     ELSE entries[i]]

(* Fault: a tail that is as long as a hash. *)
ShortenedToHash(record, k) ==
  LET moved == MovedUp(record.entries, k) IN
  IF record.tail > 0
    THEN [entries |-> moved, tail |-> record.tail - 1]
    ELSE [entries |-> SubSeq(moved, 1, Len(moved) - 1), tail |-> HashSize]

(* Fault: one byte and one hash are cut off. *)
ShortenedTwice(record, k) ==
  LET moved == MovedUp(record.entries, k) IN
  IF record.tail > 0
    THEN [entries |-> SubSeq(moved, 1, Len(moved) - 1), tail |-> record.tail - 1]
    ELSE [entries |-> SubSeq(moved, 1, Len(moved) - 2), tail |-> HashSize - 1]

(* The record is written back one byte shorter. *)
Shortened(record, k) ==
  LET moved == MovedUp(record.entries, k) IN
  IF record.tail > 0
    THEN [entries |-> moved, tail |-> record.tail - 1]
    ELSE [entries |-> SubSeq(moved, 1, Len(moved) - 1), tail |-> HashSize - 1]

=============================================================================
