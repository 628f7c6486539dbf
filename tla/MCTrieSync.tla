----------------------------- MODULE MCTrieSync -----------------------------
(***************************************************************************)
(* TrieSync with keys of Depth bits and the cut that getSubTrie computes.  *)
(***************************************************************************)
EXTENDS TrieSync, SubTrie

NumberBit(k, i) == (k \div 2 ^ (Depth - 1 - i)) % 2

(* Keys whose trie is as deep as it can be: below the root there is an     *)
(* inner node that a further key can split. *)
DeepKeys == {0, 1, 2, 4}
DeepBlocks == {{0, 1, 2, 4}, {0, 1, 2}, {0, 1}, {0}, {1}, {2}, {4}}

(* Keys whose trie has two inner nodes side by side, so that one of them   *)
(* has to wait while the other one is sent. *)
WideKeys == {0, 1, 4, 5}

(* Both, one at a time: all keys in use are among the deep ones or among   *)
(* the wide ones. *)
MixedKeys == DeepKeys \cup WideKeys
MixedBlocks ==
  {{0, 1, 2, 4, 5}, {0, 1, 2}, {0, 1}, {4, 5}, {0}, {1}, {2}, {4}, {5}}

(* They are the blocks that SubTrie computes from the bits. *)
ASSUME BlocksMatch == Blocks = PrefixBlocks

MixedInit ==
  /\ Init
  /\ \E K \in {DeepKeys, WideKeys} : \A p \in Peers : trie[p] \subseteq K
MixedSpec == MixedInit /\ [][Next]_vars

(* SubTrieCut, evaluated once for each of its arguments. *)
CutTable ==
  [arg \in Node \X Limits |-> SubTrieCut(arg[1], arg[2])]
    @@ <<>>

MCCut(h, n) == CutTable[<<h, n>>]

=============================================================================
