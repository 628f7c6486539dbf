--------------------------- MODULE MCKeyValueTrie ---------------------------
(***************************************************************************)
(* Keys that are numbers: the trie of three bits is full enough for every  *)
(* case of insert and erase, the loops above the grandparent included.     *)
(* Between two operations getSubTrie is called for a node of the trie.     *)
(***************************************************************************)
EXTENDS KeyValueTrie

FiveKeys == {0, 1, 2, 4, 5}
FourKeys == {0, 1, 2, 4}
NumberBit(k, i) == (k \div 2 ^ (Depth - 1 - i)) % 2

-----------------------------------------------------------------------------
VARIABLES node, buffer, hashes, length   \* the last call of getSubTrie

cutVars == <<node, buffer, hashes, length>>

Reading == INSTANCE SubTrieCall WITH BitKeys <- Keys, size <- length

ReadingInit ==
  /\ Init
  /\ node = {} /\ buffer = 0 /\ hashes = <<>> /\ length = 0

(* What was read is forgotten with the next operation.                     *)
ChangeTrie ==
  /\ Next
  /\ node' = {} /\ buffer' = 0 /\ hashes' = <<>> /\ length' = 0

(* Some node of the trie, and buffers up to one that no node fills.  The   *)
(* size makes no difference to the cut: one of those that the size entry   *)
(* can have beside it is enough.                                           *)
ReadNode ==
  /\ request = NoRequest
  /\ crashes = 0
  /\ triesize = size
  /\ node = {}
  /\ \E hash \in SubtriesOf(root), n \in 2 .. Cardinality(Keys) + 1 :
       node' = LeavesOf(hash) /\ buffer' = n
  /\ UNCHANGED <<vars, hashes, length>>

GetSubTrieBuffer == node # {} /\ Reading!GetSubTrieBuffer /\ UNCHANGED vars

ReadingSpec ==
  ReadingInit /\ [][ChangeTrie \/ ReadNode \/ GetSubTrieBuffer]_<<vars, cutVars>>

CutPartitions == Reading!CutPartitions
CutFillsBuffer == Reading!CutFillsBuffer

=============================================================================
