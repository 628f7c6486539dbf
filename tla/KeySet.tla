------------------------------- MODULE KeySet -------------------------------
(***************************************************************************)
(* What a trie promises (setsync/trie/Trie.h): a set of keys.  A request   *)
(* has its whole effect at one moment between its call and its return:     *)
(* none returns without it. Only when the process crashes in between, and  *)
(* it is counted when it does, has the request had its effect or not.      *)
(***************************************************************************)
EXTENDS Naturals

CONSTANTS Keys, NoRequest
VARIABLES keys, request, crashes

vars == <<keys, request, crashes>>

Requests == [op : {"add", "remove"}, key : Keys] \cup [op : {"clear"}]

Effect(r, S) ==
  CASE r.op = "add" -> S \cup {r.key}
    [] r.op = "remove" -> S \ {r.key}
    [] r.op = "clear" -> {}

Init == keys = {} /\ request = NoRequest /\ crashes = 0

Call ==
  /\ request = NoRequest
  /\ request' \in Requests
  /\ UNCHANGED <<keys, crashes>>

Perform ==
  /\ request # NoRequest
  /\ keys' = Effect(request, keys)
  /\ UNCHANGED <<request, crashes>>

Return ==
  /\ request # NoRequest
  /\ keys = Effect(request, keys)
  /\ request' = NoRequest
  /\ UNCHANGED <<keys, crashes>>

Crash ==
  /\ request' = NoRequest
  /\ crashes' = crashes + 1
  /\ UNCHANGED keys

Next == Call \/ Perform \/ Return \/ Crash

Spec == Init /\ [][Next]_vars

=============================================================================
