---------------------------- MODULE Reconciliation ----------------------------
(***************************************************************************)
(* What strict synchronization promises to an application (done and        *)
(* processAcks of setsync/Set.hpp and the diff handler): each of two peers *)
(* is told which of its keys the other one lacks, is done when it has been *)
(* told of all of them, and what one is told the other adopts afterwards.  *)
(* How the peers find out, and what they exchange, is not seen here.       *)
(***************************************************************************)
CONSTANTS Keys, Peers, Other(_)

VARIABLES
  set,    \* the keys of each peer
  told,   \* what its diff handler was called with
  over    \* does its done() answer true?

vars == <<set, told, over>>

Lacking(p) == set[p] \ set[Other(p)]
Complete(p) == Lacking(p) \subseteq told[p]

(* A process may become done at any moment, and take it back when the      *)
(* other side asks again, but is never done before it is complete.         *)
Answers ==
  /\ over' \in [Peers -> BOOLEAN]
  /\ \A p \in Peers : over'[p] => Complete(p)'

Init ==
  /\ set \in [Peers -> SUBSET Keys]
  /\ told = [p \in Peers |-> {}]
  /\ over = [p \in Peers |-> FALSE]

(* The handler is called with a key that the other peer lacks now. *)
Tell(p, x) ==
  /\ x \in Lacking(p) \ told[p]
  /\ told' = [told EXCEPT ![p] = @ \cup {x}]
  /\ UNCHANGED set
  /\ Answers

(* Once nobody with any keys has anything left to say, what one peer was   *)
(* told is inserted at the other. *)
Adopt(p, x) ==
  /\ \A q \in Peers : over[q] \/ set[q] = {}
  /\ x \in told[Other(p)] \ set[p]
  /\ set' = [set EXCEPT ![p] = @ \cup {x}]
  /\ UNCHANGED told
  /\ Answers

(* Everything else: messages come and go. *)
Compare == UNCHANGED <<set, told>> /\ Answers

Next == Compare \/ \E p \in Peers, x \in Keys : Tell(p, x) \/ Adopt(p, x)

Spec == Init /\ [][Next]_vars

===============================================================================
