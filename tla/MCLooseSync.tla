----------------------------- MODULE MCLooseSync -----------------------------
(***************************************************************************)
(* A filter of three bits in bytes of two, so that the last byte is not    *)
(* full, and two keys that meet at position 0 and have a second position   *)
(* each, one in either byte.  What is read behind a tail gives the same    *)
(* position to both functions.                                             *)
(***************************************************************************)
EXTENDS LooseSync

MeetingPos ==
  [k \in Hashes |-> CASE k = "a" -> <<0, 1>>
                      [] k = "b" -> <<2, 0>>
                      [] k = "junk" -> <<1, 1>>]

(* Enough for one of the sets to append behind a tail: two insertions, an *)
(* erasure and another insertion, before or during the synchronization.   *)
Uneven == [p \in Peers |-> IF p = "A" THEN 4 ELSE 1]

=============================================================================
