---------------------------- MODULE SubTrieCall ----------------------------
(***************************************************************************)
(* A caller of KeyValueTrie::getSubTrie (setsync/trie/KeyValueTrie.cpp),   *)
(* who asks for the cut of some node with some buffer.                     *)
(***************************************************************************)
EXTENDS SubTrie

VARIABLES node, buffer, hashes, size

vars == <<node, buffer, hashes, size>>

Init ==
  /\ node \in Node
  /\ buffer \in 2 .. Cardinality(BitKeys) + 1
  /\ hashes = <<>>
  /\ size = 0

(* hashes is what the buffer holds afterwards, size the return value. *)
GetSubTrieBuffer ==
  /\ hashes = <<>>
  /\ LET found == Cutting(node, buffer) IN
     /\ hashes' = Written(found)
     /\ size' = found.sum
  /\ UNCHANGED <<node, buffer>>

Next == GetSubTrieBuffer

Spec == Init /\ [][Next]_vars

(* The hashes sent are nodes of the trie and stand for every key of the    *)
(* node exactly once: no key is lost to a popped inner node and none is    *)
(* sent by two calls of the recursion, which share their vectors.          *)
CutPartitions ==
  hashes # <<>> =>
    /\ \A i \in DOMAIN hashes : hashes[i] \in {b \cap node : b \in PrefixBlocks} \ {{}}
    /\ \A k \in node : Cardinality({i \in DOMAIN hashes : k \in hashes[i]}) = 1

(* The recursion never writes past the buffer and, thanks to the refill    *)
(* loop, uses as much of it as the node has leaves to fill.  The number of *)
(* entries it counts, from which the caller takes the length to send, is   *)
(* the number of hashes it wrote: the counts of calls that pop each        *)
(* other's inner nodes add up.                                             *)
CutFillsBuffer ==
  /\ size = Len(hashes)
  /\ hashes # <<>> =>
       size = IF Cardinality(node) < buffer THEN Cardinality(node) ELSE buffer

=============================================================================
