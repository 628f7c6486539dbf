----------------------------- MODULE StrictLoop -----------------------------
(***************************************************************************)
(* The programs of the repository that synchronize two sets strictly.      *)
(* TrieSync lets an application call what it likes.  Each of these         *)
(* programs is one loop,                                                   *)
(*                                                                         *)
(*     while (!A->done() && !B->done()) { ... }                            *)
(*                                                                         *)
(* whose rounds make four transfers in a fixed order: what one process has *)
(* for the other one is read and handed over at once.  The loop ends as    *)
(* soon as ONE of the processes is done, and asks only between two rounds. *)
(***************************************************************************)
EXTENDS TrieSync

CONSTANT Programs   \* those of the programs below that are looked at

Subtries(p) == [what |-> "subtries", from |-> p]
Answered(p) == [what |-> "acks", from |-> p]

(* testSync and testStrictSync, and testCAPI, whose callback inserts.      *)
TestOrder == <<Subtries(A), Answered(A), Subtries(B), Answered(B)>>
TestSync == [transfers |-> TestOrder, drains |-> FALSE, inserts |-> "end"]
TestCAPI == [transfers |-> TestOrder, drains |-> FALSE, inserts |-> "callback"]

(* runStrictSync, where the transfers are loops, unless synchron_ is set,  *)
(* and the list of reports is inserted after each call of processAcks.     *)
RunOrder == <<Answered(A), Answered(B), Subtries(B), Subtries(A)>>
RunStrictSync(synchron) ==
  [transfers |-> RunOrder, drains |-> ~synchron, inserts |-> "call"]
RunStrictSyncs == {RunStrictSync(FALSE), RunStrictSync(TRUE)}

ASSUME ProgramsAssumption == Programs \subseteq {TestSync, TestCAPI} \cup RunStrictSyncs

VARIABLES
  program,  \* the program that runs
  at,       \* the transfer it is at; 0 where it asks done(), Ended behind its loop
  served    \* has this transfer been made in this round?

loopVars == <<vars, program, at, served>>

Ended == at = 5

LoopInit ==
  /\ Init
  /\ program \in Programs
  /\ at = 0
  /\ served = FALSE

-----------------------------------------------------------------------------
(* A buffer that was read is handed over before anything else is called,   *)
(* and reports are inserted as soon as the program does so.                *)

Carrying == \E p \in Peers : subtrieChan[p] # <<>> \/ ackChan[p] # <<>>

Inserting ==
  /\ \/ program.inserts = "callback"
     \/ program.inserts = "call" /\ ~Carrying
     \/ Ended
  /\ \E p \in Peers : reported[Other(p)] \ trie[p] # {}

Ready == at \in 1 .. 4 /\ ~Carrying /\ ~Inserting
Transfer == program.transfers[at]

(* isSubtrieOutputAvailable and isAckOutputAvailable answer no. *)
NothingToRead ==
  LET p == Transfer.from IN
  IF Transfer.what = "acks" THEN pendingAcks[p] = <<>>
  ELSE pendingSubtries[p] = <<>> /\ ~(stat[p] = "START" /\ HasRoot(p))

(* Fault: the loop goes on until both processes are done. *)
AskForBoth ==
  /\ at = 0
  /\ at' = IF Done(A) /\ Done(B) THEN 5 ELSE 1
  /\ UNCHANGED <<vars, program, served>>

AskDone ==
  /\ at = 0
  /\ at' = IF Done(A) \/ Done(B) THEN 5 ELSE 1
  /\ UNCHANGED <<vars, program, served>>

(* The question for output that leaves START, and the call that reads it.  *)
Read ==
  /\ Ready
  /\ program.drains \/ ~served
  /\ LET p == Transfer.from IN
     \/ /\ Transfer.what = "acks"
        /\ \E length \in AckBuffers : ReadSomeTrieAcks(p, length)
        /\ served' = TRUE
     \/ /\ Transfer.what = "subtries"
        /\ IsSubtrieOutputAvailable(p)
        /\ UNCHANGED served
     \/ /\ Transfer.what = "subtries"
        /\ \E n \in Limits : GetSubTrie(p, n)
        /\ served' = TRUE
  /\ UNCHANGED <<program, at>>

(* The other process gets what was read. *)
HandOver ==
  /\ ~Inserting
  /\ \E p \in Peers : ProcessSubTrie(p) \/ ProcessAck(p)
  /\ UNCHANGED <<program, at, served>>

(* An insertion is the one of TrieSync with EarlyApply: testSync inserts    *)
(* behind its loop although one of the processes may not be done.          *)
InsertReports ==
  /\ Inserting
  /\ \E p \in Peers, x \in Keys : ApplyReported(p, x)
  /\ UNCHANGED <<program, at, served>>

(* The transfer is over; behind the last one done() is asked again. *)
GoOn ==
  /\ Ready
  /\ NothingToRead \/ (served /\ ~program.drains)
  /\ at' = (at + 1) % 5
  /\ served' = FALSE
  /\ UNCHANGED <<vars, program>>

LoopNext == AskDone \/ Read \/ HandOver \/ InsertReports \/ GoOn

LoopSpec == LoopInit /\ [][LoopNext]_loopVars

-----------------------------------------------------------------------------
(* The loop ends, unless both sets are empty: then no process ever leaves  *)
(* START, and the loop asks for done() and for output for ever.            *)
LoopEnds == (\E p \in Peers : orig[p] # {}) => <>Ended

(* The loop has ended and everything that was reported is inserted. *)
Over == Ended /\ ~Inserting

(* runStrictSync hands over acknowledgments first and then subtries: when  *)
(* it finds one process done, the other one has nothing left to hand over  *)
(* either, although nobody asked it. *)
LeavesNothing ==
  Ended /\ program.inserts = "call" =>
    \A p \in Peers : pendingSubtries[p] = <<>> /\ sentHashes[p] = <<>> /\ pendingAcks[p] = <<>>

(* What the tests' loop is good for: it ends with a process that is done,  *)
(* and that process's set is a part of the other set when the reports have *)
(* been inserted. *)
OneSideIsThrough ==
  Over /\ program.inserts = "end" =>
    \E p \in Peers : Done(p) /\ trie[p] \subseteq trie[Other(p)]

-----------------------------------------------------------------------------
(* The inductive invariant behind LeavesNothing, of runStrictSync.         *)

(* A process that has been asked for subtries in this round has none left  *)
(* or waits for the acknowledgments of those that it gave.                 *)
Waits(p) == pendingSubtries[p] = <<>> \/ sentHashes[p] # <<>>

RunForm ==
  /\ program \in RunStrictSyncs
  /\ at \in 0 .. 5 /\ served \in BOOLEAN

RunStatus ==
  /\ \A p \in Peers : stat[p] # "EQUAL"
  /\ QuietBeforeStart

(* Everything read in a round is handed over in it. *)
RunChannels ==
  /\ at \in {0, 3, 4, 5} => \A p \in Peers : ackChan[p] = <<>>
  /\ at \in {0, 5} => \A p \in Peers : subtrieChan[p] = <<>>

RunWaits ==
  /\ at \in {0, 4, 5} => Waits(B)
  /\ at \in {0, 5} => Waits(A)
  /\ at = 3 /\ served => Waits(B) /\ stat[B] = "TRIE"
  /\ at = 4 /\ served => Waits(A) /\ stat[A] = "TRIE"

RunInv ==
  /\ RunForm
  /\ RunStatus
  /\ RunChannels
  /\ RunWaits
  /\ Ended => \E p \in Peers : Done(p)

LoopInv == program.inserts = "call" => RunInv

=============================================================================
