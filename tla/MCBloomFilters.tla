--------------------------- MODULE MCBloomFilters ---------------------------
(***************************************************************************)
(* Bytes of four bits, a filter of two full bytes and one with a last byte *)
(* of two bits, words of four bits, and three keys: one whose second hash  *)
(* value wraps around, one that has its bits in the last byte of the       *)
(* smaller filter, one that has a bit in common with each.                 *)
(***************************************************************************)
EXTENDS BloomFilters

Key(a, b) == [f1 |-> a, f2 |-> b]
ThreeKeys == {Key(3, 7), Key(15, 6), Key(4, 8)}

=============================================================================
