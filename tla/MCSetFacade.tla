----------------------------- MODULE MCSetFacade -----------------------------
(***************************************************************************)
(* Four keys and two hash functions.  a, b and c meet at position 0, a and *)
(* b at position 1 as well, in another order of the functions, and d gets  *)
(* position 2, where it meets c, from both functions.                      *)
(***************************************************************************)
EXTENDS SetFacade

SharedPos ==
  [k \in Keys |-> CASE k = "a" -> <<0, 1>>
                    [] k = "b" -> <<1, 0>>
                    [] k = "c" -> <<0, 2>>
                    [] k = "d" -> <<2, 2>>]

=============================================================================
