------------------------------ MODULE SubTrie ------------------------------
(***************************************************************************)
(* KeyValueTrie::getSubTrie (setsync/trie/KeyValueTrie.cpp): the cut       *)
(* through the subtrie of a node that is sent in one buffer.  The trie     *)
(* branches on the bits of its keys; a node is the set of keys below it    *)
(* (see TrieSync).                                                         *)
(***************************************************************************)
EXTENDS Integers, FiniteSets, SequencesExt

CONSTANTS
  BitKeys,     \* the keys (leaf hashes)
  Depth,       \* number of bits of a key: 8 * getHashSize()
  Bit(_, _)    \* Bit(k, i): the bit of key k behind its first i bits

(* Keys that have all their bits in common are the same key. *)
ASSUME BitsAssumption ==
  /\ Depth \in Nat
  /\ IsFiniteSet(BitKeys)
  /\ \A k \in BitKeys, i \in 0 .. Depth - 1 : Bit(k, i) \in {0, 1}
  /\ \A j, k \in BitKeys : (\A i \in 0 .. Depth - 1 : Bit(j, i) = Bit(k, i)) => j = k

Similar(j, k, d) == \A i \in 0 .. d - 1 : Bit(j, i) = Bit(k, i)

(* The keys that agree with k on their first d bits. *)
Prefix(k, d) == {j \in BitKeys : Similar(j, k, d)}

PrefixBlocks == {Prefix(k, d) : k \in BitKeys, d \in 0 .. Depth}

Node == (SUBSET BitKeys) \ {{}}
HasChildren(h) == \E j, k \in h : j # k

(* The prefix_mask of a node: how many bits its keys have in common.  The  *)
(* bit behind them tells the two children apart.                           *)
CommonBits(h) ==
  CHOOSE d \in 0 .. Depth - 1 :
    /\ \A j, k \in h : Similar(j, k, d)
    /\ \E j, k \in h : Bit(j, d) # Bit(k, d)

SmallerChild(h) == {k \in h : Bit(k, CommonBits(h)) = 0}
LargerChild(h) == {k \in h : Bit(k, CommonBits(h)) = 1}

-----------------------------------------------------------------------------
(* What the recursion hands around: how many entries the call added, and   *)
(* the two vectors it shares with its callers.                             *)
Found(sum, inner, child) == [sum |-> sum, inner |-> inner, child |-> child]
Calls == Node \X Seq(Node) \X Seq(Node)

(* Faults: the inner node is not popped; its entry is not given back. *)
RefillOnceWithoutPop(cut, number, found) ==
  IF found.sum < number /\ found.inner # <<>>
  THEN LET sum == found.sum - 1
           more == cut[number - sum][<<Last(found.inner), found.inner, found.child>>]
       IN  Found(sum + more.sum, more.inner, more.child)
  ELSE found

RefillOnceWithoutReturn(cut, number, found) ==
  IF found.sum < number /\ found.inner # <<>>
  THEN LET more == cut[number - found.sum][<<Last(found.inner), Front(found.inner),
                                             found.child>>]
       IN  Found(found.sum + more.sum, more.inner, more.child)
  ELSE found

(* One round of the loop that spends entries left over by small subtries:  *)
(* it replaces the inner node found last - in whichever call - by a cut    *)
(* through it.                                                             *)
RefillOnce(cut, number, found) ==
  IF found.sum < number /\ found.inner # <<>>
  THEN LET sum == found.sum - 1
           more == cut[number - sum][<<Last(found.inner), Front(found.inner),
                                       found.child>>]
       IN  Found(sum + more.sum, more.inner, more.child)
  ELSE found

(* The loop.  A round that is not the last one adds an entry, so that it   *)
(* has ended after number of them.                                         *)
Refill(cut, number, found) ==
  LET after[i \in 0 .. number] ==
        IF i = 0 THEN found ELSE RefillOnce(cut, number, after[i - 1])
  IN  after[number]

(* The recursive getSubTrie for at most number entries below h; cut[n] is  *)
(* what it does when it is called for n entries, fewer than number.        *)
Collect(cut, number, h, inner, child) ==
  IF HasChildren(h) /\ number >= 2
  THEN LET smaller == cut[number \div 2][<<SmallerChild(h), inner, child>>]
           larger == cut[number - smaller.sum][<<LargerChild(h), smaller.inner,
                                                 smaller.child>>]
       IN  Refill(cut, number,
                  Found(smaller.sum + larger.sum, larger.inner, larger.child))
  ELSE IF HasChildren(h) THEN Found(1, Append(inner, h), child)
                         ELSE Found(1, inner, Append(child, h))

(* All calls for up to number entries, by the number. *)
CutsUpTo(number) ==
  LET cut[n \in 1 .. number] ==
        [call \in Calls |-> Collect([m \in 1 .. n - 1 |-> cut[m]], n,
                                    call[1], call[2], call[3])]
  IN  cut

(* The first call, with empty vectors. *)
Cutting(h, number) == CutsUpTo(number)[number][<<h, <<>>, <<>>>>]

(* The order of the hashes in the buffer: both vectors from their backs. *)
Written(found) == Reverse(found.inner) \o Reverse(found.child)

SubTrieCut(h, number) == Written(Cutting(h, number))

=============================================================================
