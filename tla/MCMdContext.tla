----------------------------- MODULE MCMdContext -----------------------------
(***************************************************************************)
(* Blocks of a few bytes, a length field that takes half of a block, words *)
(* that overflow within the longest message and digests of different       *)
(* lengths, up to a whole block.                                           *)
(***************************************************************************)
EXTENDS MdContext

TinyBlocks == [block |-> 4]
NarrowBlocks == [block |-> 4, field |-> 2, word |-> 16]
WideBlocks == [block |-> 8, field |-> 4, word |-> 16]
Sizes == [t \in Types |-> CASE t \in {"MD4", "MD5"} -> 2
                            [] t \in {"SHA1", "SHA224"} -> 3
                            [] t \in {"MD2", "SHA256"} -> 4
                            [] t = "SHA384" -> 6
                            [] t = "SHA512" -> 8]

(* Beyond one word for the algorithms that count in words. *)
Bounds == [t \in Types |-> IF t = "MD2" THEN 9 ELSE 17]

=============================================================================
