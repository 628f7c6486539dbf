---------------------------- MODULE MCStrictLoop ----------------------------
(***************************************************************************)
(* StrictLoop with the keys and the cut of MCTrieSync, next to an          *)
(* application that has no such loop and inserts reports when it likes.    *)
(***************************************************************************)
EXTENDS MCTrieSync, StrictLoop

AllPrograms == {TestSync, TestCAPI, RunStrictSync(FALSE), RunStrictSync(TRUE)}

(* All that TrieSync allows; it counts as an application behind its loop,  *)
(* which LoopEnds asks nothing of.                                         *)
Anything == [transfers |-> <<>>, drains |-> FALSE, inserts |-> "anytime"]

AnythingInit ==
  /\ Init
  /\ \A p \in Peers : trie[p] \subseteq DeepKeys
  /\ program = Anything
  /\ at = 5
  /\ served = FALSE

AnythingNext == program = Anything /\ Next /\ UNCHANGED <<program, at, served>>

ProgramNext == program # Anything /\ LoopNext

ApplicationInit == (MixedInit /\ LoopInit) \/ AnythingInit

(* The programs have one thread, which executes its next statement; an     *)
(* application may stop anywhere.                                          *)
ApplicationSpec ==
  /\ ApplicationInit
  /\ [][ProgramNext \/ AnythingNext]_loopVars
  /\ WF_loopVars(ProgramNext)

=============================================================================
