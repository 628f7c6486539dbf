------------------------------ MODULE TrieSync ------------------------------
(***************************************************************************)
(* Strict (trie) synchronization of two sets: two SynchronizationProcess   *)
(* objects of setsync/Set.cpp, one per peer, and the application that      *)
(* carries subtries, acknowledgments and root hashes between them and      *)
(* inserts what the diff handlers report.                                  *)
(*                                                                         *)
(* A hash is represented by what it identifies.  Keys are leaf hashes.  A  *)
(* trie node is hashed over its whole subtree, and the shape of the trie   *)
(* is fixed by its keys, so under the absence of hash collisions a node's  *)
(* hash and the set of keys below it determine each other: a node IS its   *)
(* set of keys, a leaf is a singleton, the root is the whole key set.      *)
(***************************************************************************)
EXTENDS Integers, Sequences

CONSTANTS
  A, B,         \* the two peers
  Keys,         \* the keys (leaf hashes) that may occur in the sets
  Blocks,       \* the sets of keys that share a bit prefix
  Cut(_, _),    \* Cut(h, n): the hashes KeyValueTrie::getSubTrie writes for
                \* node h into a buffer that holds n hashes
  Limits,       \* numbers of hashes that the output buffers can hold
  AckBuffers,   \* lengths of the acknowledgment buffers, in bytes
  ByteBits,     \* acknowledgments per byte: 8 in the code
  EarlyApply    \* TRUE: the application may insert what a handler reported
                \* while the synchronization is still going on

Peers == {A, B}
Other(p) == IF p = A THEN B ELSE A

(* The nodes of the trie that holds the keys in S. *)
Nodes(S) == {b \cap S : b \in Blocks} \ {{}}

ASSUME PeersAssumption == A # B

ASSUME BlocksAssumption ==
  /\ Blocks \subseteq SUBSET Keys
  /\ Keys \in Blocks
  /\ \A x \in Keys : {x} \in Blocks
  /\ \A b, c \in Blocks : b \subseteq c \/ c \subseteq b \/ b \cap c = {}

ASSUME BuffersAssumption ==
  /\ Limits \subseteq Nat
  /\ AckBuffers \subseteq Nat \ {0}
  /\ ByteBits \in Nat \ {0}
  /\ EarlyApply \in BOOLEAN

(* What the protocol relies on: a cut consists of nodes below h that       *)
(* together hold all the keys of h.  Module SubTrie has the algorithm, and *)
(* MCTrieSync gives it to this constant.                                   *)
ASSUME CutAssumption ==
  \A h \in (SUBSET Keys) \ {{}}, n \in Limits : n >= 2 =>
    /\ Cut(h, n) \in Seq(Nodes(h))
    /\ \A x \in h : \E i \in DOMAIN Cut(h, n) : x \in Cut(h, n)[i]

VARIABLES
  trie,             \* trie[p]: the keys in the trie of p's set
  stat,             \* SynchronizationProcess::stat_ (BF is never assigned)
  pendingSubtries,  \* pendingSubtries_, a stack whose top is the last element
  sentHashes,       \* sentHashes_: sent, not yet acknowledged
  pendingAcks,      \* pendingAcks_: TRUE asks for the node, FALSE has it
  subtrieChan,      \* subtrieChan[p]: hashes on their way from p to the other
  ackChan,          \* ackChan[p]: acknowledgments on their way from p
  rootChan,         \* rootChan[p]: at most one root hash on its way from p
  reported,         \* reported[p]: keys that p's diff handler was called with
  orig              \* history: the keys of p when the synchronization began

process == <<stat, pendingSubtries, sentHashes, pendingAcks>>
channels == <<subtrieChan, ackChan, rootChan>>
vars == <<trie, process, channels, reported, orig>>

Stats == {"START", "TRIE", "EQUAL"}
Hashes == (SUBSET Keys) \ {{}}

TypeOK ==
  /\ trie \in [Peers -> SUBSET Keys]
  /\ stat \in [Peers -> Stats]
  /\ pendingSubtries \in [Peers -> Seq(Hashes)]
  /\ sentHashes \in [Peers -> Seq(Hashes)]
  /\ pendingAcks \in [Peers -> Seq(BOOLEAN)]
  /\ subtrieChan \in [Peers -> Seq(Hashes)]
  /\ ackChan \in [Peers -> Seq(BOOLEAN)]
  /\ rootChan \in [Peers -> Seq(Hashes)]
  /\ reported \in [Peers -> SUBSET Keys]
  /\ orig \in [Peers -> SUBSET Keys]

Init ==
  /\ trie \in [Peers -> SUBSET Keys]
  /\ stat = [p \in Peers |-> "START"]
  /\ pendingSubtries = [p \in Peers |-> <<>>]
  /\ sentHashes = [p \in Peers |-> <<>>]
  /\ pendingAcks = [p \in Peers |-> <<>>]
  /\ subtrieChan = [p \in Peers |-> <<>>]
  /\ ackChan = [p \in Peers |-> <<>>]
  /\ rootChan = [p \in Peers |-> <<>>]
  /\ reported = [p \in Peers |-> {}]
  /\ orig = trie

-----------------------------------------------------------------------------
(* KeyValueTrie::contains and getRoot, SynchronizationProcess::done.       *)

TrieContains(p, h) == h \in Nodes(trie[p])
IsLeaf(h) == \E x \in h : h = {x}
HasRoot(p) == trie[p] # {}

(* Fault: done() without its test of sentHashes_. *)
DoneIgnoringSent(p) ==
  \/ stat[p] = "EQUAL"
  \/ stat[p] # "START" /\ pendingAcks[p] = <<>> /\ pendingSubtries[p] = <<>>

Done(p) ==
  \/ stat[p] = "EQUAL"
  \/ /\ stat[p] # "START"
     /\ pendingAcks[p] = <<>>
     /\ pendingSubtries[p] = <<>>
     /\ sentHashes[p] = <<>>

-----------------------------------------------------------------------------
(* p reads its root hash and the application sends it. *)
GetRootHashForSending(p) ==
  /\ HasRoot(p)
  /\ rootChan[p] = <<>>
  /\ rootChan' = [rootChan EXCEPT ![p] = <<trie[p]>>]
  /\ UNCHANGED <<trie, process, subtrieChan, ackChan, reported, orig>>

(* Fault: memcmp taken for a test of equality. *)
IsEqualInverted(p) ==
  /\ rootChan[Other(p)] # <<>>
  /\ stat' = [stat EXCEPT ![p] =
       IF HasRoot(p) /\ Head(rootChan[Other(p)]) # trie[p] THEN "EQUAL" ELSE @]
  /\ rootChan' = [rootChan EXCEPT ![Other(p)] = <<>>]
  /\ UNCHANGED <<trie, pendingSubtries, sentHashes, pendingAcks,
                 subtrieChan, ackChan, reported, orig>>

(* The other peer's root hash arrives at p. *)
IsEqual(p) ==
  /\ rootChan[Other(p)] # <<>>
  /\ stat' = [stat EXCEPT ![p] =
       IF HasRoot(p) /\ Head(rootChan[Other(p)]) = trie[p] THEN "EQUAL" ELSE @]
  /\ rootChan' = [rootChan EXCEPT ![Other(p)] = <<>>]
  /\ UNCHANGED <<trie, pendingSubtries, sentHashes, pendingAcks,
                 subtrieChan, ackChan, reported, orig>>

(* Fault: the result of getRootHash is not looked at. *)
StartWithoutRoot(p) ==
  /\ stat[p] = "START"
  /\ stat' = [stat EXCEPT ![p] = "TRIE"]
  /\ pendingSubtries' = [pendingSubtries EXCEPT ![p] = Append(@, trie[p])]
  /\ UNCHANGED <<trie, sentHashes, pendingAcks, channels, reported, orig>>

(* The first call that finds a root starts with the root as the only       *)
(* pending subtrie; an empty trie leaves the process in START.             *)
IsSubtrieOutputAvailable(p) ==
  /\ stat[p] = "START"
  /\ HasRoot(p)
  /\ stat' = [stat EXCEPT ![p] = "TRIE"]
  /\ pendingSubtries' = [pendingSubtries EXCEPT ![p] = Append(@, trie[p])]
  /\ UNCHANGED <<trie, sentHashes, pendingAcks, channels, reported, orig>>

(* The pending subtries for which KeyValueTrie::getSubTrie does not throw: *)
(* their root must be stored, and the buffer must hold two hashes.         *)
Servable(p, n) ==
  {i \in DOMAIN pendingSubtries[p] : n >= 2 /\ TrieContains(p, pendingSubtries[p][i])}

(* Fault: the whole stack is emptied when its top has been sent. *)
GetSubTrieForgetting(p, n) ==
  /\ pendingSubtries[p] # <<>>
  /\ LET cut == Cut(pendingSubtries[p][Len(pendingSubtries[p])], n) IN
     /\ sentHashes' = [sentHashes EXCEPT ![p] = @ \o cut]
     /\ subtrieChan' = [subtrieChan EXCEPT ![p] = @ \o cut]
  /\ pendingSubtries' = [pendingSubtries EXCEPT ![p] = <<>>]
  /\ UNCHANGED <<trie, stat, pendingAcks, ackChan, rootChan, reported, orig>>

(* Sends the topmost servable subtrie.  The recursion in the catch block   *)
(* drops, with nothing reported, every pending one above it.               *)
GetSubTrie(p, n) ==
  /\ pendingSubtries[p] # <<>>
  /\ \/ /\ Servable(p, n) = {}
        /\ pendingSubtries' = [pendingSubtries EXCEPT ![p] = <<>>]
        /\ UNCHANGED <<sentHashes, subtrieChan>>
     \/ \E top \in Servable(p, n) :
          /\ \A i \in Servable(p, n) : i <= top
          /\ LET cut == Cut(pendingSubtries[p][top], n) IN
             /\ sentHashes' = [sentHashes EXCEPT ![p] = @ \o cut]
             /\ subtrieChan' = [subtrieChan EXCEPT ![p] = @ \o cut]
          /\ pendingSubtries' =
               [pendingSubtries EXCEPT ![p] = SubSeq(@, 1, top - 1)]
  /\ UNCHANGED <<trie, stat, pendingAcks, ackChan, rootChan, reported, orig>>

(* Fault: the two kinds of acknowledgment are exchanged. *)
ProcessSubTrieInverted(p) ==
  LET q == Other(p) IN
  /\ subtrieChan[q] # <<>>
  /\ pendingAcks' =
       [pendingAcks EXCEPT ![p] = Append(@, TrieContains(p, Head(subtrieChan[q])))]
  /\ subtrieChan' = [subtrieChan EXCEPT ![q] = Tail(@)]
  /\ UNCHANGED <<trie, stat, pendingSubtries, sentHashes, ackChan, rootChan,
                 reported, orig>>

(* One hash of a received subtrie is looked up and its ack is queued.  A   *)
(* call handles as many hashes as the application passes it.               *)
ProcessSubTrie(p) ==
  LET q == Other(p) IN
  /\ subtrieChan[q] # <<>>
  /\ pendingAcks' =
       [pendingAcks EXCEPT ![p] = Append(@, ~TrieContains(p, Head(subtrieChan[q])))]
  /\ subtrieChan' = [subtrieChan EXCEPT ![q] = Tail(@)]
  /\ UNCHANGED <<trie, stat, pendingSubtries, sentHashes, ackChan, rootChan,
                 reported, orig>>

Smaller(m, n) == IF m < n THEN m ELSE n

(* Faults: the last acknowledgment read stays in the queue; those that do  *)
(* not fit into the buffer are thrown away. *)
ReadAcksKeepingOne(p, length) ==
  LET number == Smaller(length * ByteBits, Len(pendingAcks[p])) IN
  /\ pendingAcks[p] # <<>>
  /\ ackChan' = [ackChan EXCEPT ![p] = @ \o SubSeq(pendingAcks[p], 1, number)]
  /\ pendingAcks' = [pendingAcks EXCEPT ![p] = SubSeq(@, number, Len(@))]
  /\ UNCHANGED <<trie, stat, pendingSubtries, sentHashes, subtrieChan, rootChan,
                 reported, orig>>

ReadAcksLosingRest(p, length) ==
  LET number == Smaller(length * ByteBits, Len(pendingAcks[p])) IN
  /\ pendingAcks[p] # <<>>
  /\ ackChan' = [ackChan EXCEPT ![p] = @ \o SubSeq(pendingAcks[p], 1, number)]
  /\ pendingAcks' = [pendingAcks EXCEPT ![p] = <<>>]
  /\ UNCHANGED <<trie, stat, pendingSubtries, sentHashes, subtrieChan, rootChan,
                 reported, orig>>

(* The oldest pending acks, as many as fit, go to the other peer. *)
ReadSomeTrieAcks(p, length) ==
  LET number == Smaller(length * ByteBits, Len(pendingAcks[p])) IN
  /\ pendingAcks[p] # <<>>
  /\ ackChan' = [ackChan EXCEPT ![p] = @ \o SubSeq(pendingAcks[p], 1, number)]
  /\ pendingAcks' =
       [pendingAcks EXCEPT ![p] = SubSeq(@, number + 1, Len(@))]
  /\ UNCHANGED <<trie, stat, pendingSubtries, sentHashes, subtrieChan, rootChan,
                 reported, orig>>

(* The three outcomes for a hash the other peer asked for.  The handler    *)
(* is called for a leaf; an inner node becomes pending; a node that has    *)
(* left the trie meanwhile restarts the descent from the current root.     *)
ReportLeaf(p, h) ==
  /\ IsLeaf(h)
  /\ TrieContains(p, h)
  /\ reported' = [reported EXCEPT ![p] = @ \cup h]
  /\ UNCHANGED pendingSubtries

PushInner(p, h) ==
  /\ ~IsLeaf(h)
  /\ TrieContains(p, h)
  /\ pendingSubtries' = [pendingSubtries EXCEPT ![p] = Append(@, h)]
  /\ UNCHANGED reported

Restart(p, h) ==
  /\ ~TrieContains(p, h)
  /\ pendingSubtries' = [pendingSubtries EXCEPT ![p] =
                            IF HasRoot(p) THEN <<trie[p]>> ELSE <<>>]
  /\ UNCHANGED reported

(* Fault: the hash of a node that nobody asked for is not popped. *)
ProcessAckKeepingSent(p) ==
  LET q == Other(p)
      h == Head(sentHashes[p])
  IN
  /\ ackChan[q] # <<>>
  /\ sentHashes[p] # <<>>
  /\ \/ /\ Head(ackChan[q])
        /\ ReportLeaf(p, h) \/ PushInner(p, h) \/ Restart(p, h)
        /\ sentHashes' = [sentHashes EXCEPT ![p] = Tail(@)]
     \/ /\ ~Head(ackChan[q])
        /\ UNCHANGED <<pendingSubtries, reported, sentHashes>>
  /\ ackChan' = [ackChan EXCEPT ![q] = Tail(@)]
  /\ UNCHANGED <<trie, stat, pendingAcks, subtrieChan, rootChan, orig>>

(* One iteration of the loop of processAcks.  The code rejects the call    *)
(* when more acks arrive than hashes are unacknowledged.                   *)
ProcessAck(p) ==
  LET q == Other(p)
      h == Head(sentHashes[p])
  IN
  /\ ackChan[q] # <<>>
  /\ sentHashes[p] # <<>>
  /\ \/ /\ Head(ackChan[q])
        /\ ReportLeaf(p, h) \/ PushInner(p, h) \/ Restart(p, h)
     \/ /\ ~Head(ackChan[q])
        /\ UNCHANGED <<pendingSubtries, reported>>
  /\ sentHashes' = [sentHashes EXCEPT ![p] = Tail(@)]
  /\ ackChan' = [ackChan EXCEPT ![q] = Tail(@)]
  /\ UNCHANGED <<trie, stat, pendingAcks, subtrieChan, rootChan, orig>>

(* A peer is settled when it is done or has had nothing to send. *)
Settled(p) == Done(p) \/ ~HasRoot(p)

(* The application inserts into p's set a key the other peer's handler was *)
(* called with: from a list when both peers are settled, or, with          *)
(* EarlyApply, straight from the callback, between two messages or when    *)
(* only one of them is. *)
ApplyReported(p, x) ==
  /\ EarlyApply \/ \A r \in Peers : Settled(r)
  /\ x \in reported[Other(p)] \ trie[p]
  /\ trie' = [trie EXCEPT ![p] = @ \cup {x}]
  /\ UNCHANGED <<process, channels, reported, orig>>

-----------------------------------------------------------------------------
(* What an application may call, in any order and for as long as it likes. *)
(* Module StrictLoop has the loops of the repository's programs.           *)
Step(p) ==
  \/ IsSubtrieOutputAvailable(p)
  \/ \E n \in Limits : GetSubTrie(p, n)
  \/ ProcessSubTrie(p)
  \/ \E length \in AckBuffers : ReadSomeTrieAcks(p, length)
  \/ ProcessAck(p)
  \/ \E x \in Keys : ApplyReported(p, x)

(* Comparing the roots is up to the application, at any time. *)
CompareRoots(p) == GetRootHashForSending(p) \/ IsEqual(p)

Next == \E p \in Peers : Step(p) \/ CompareRoots(p)

Spec == Init /\ [][Next]_vars

-----------------------------------------------------------------------------
(* What the properties are about.                                          *)

(* The answers of p that have not been processed, oldest first. *)
Acks(p) == ackChan[p] \o pendingAcks[p]

(* The application inserts only when the synchronization is over, and      *)
(* offers the buffer getMinTrieBuffer asks for.                            *)
Careful ==
  /\ ~EarlyApply
  /\ \A n \in Limits : n >= 2

(* Unacknowledged hashes of a peer, the answers under way, and the hashes  *)
(* the other peer has yet to look up. *)
InStep(sent, answers, unread) ==
  /\ Len(sent) = Len(answers) + Len(unread)
  /\ \A i \in 1 .. Len(unread) : unread[i] = sent[Len(answers) + i]

(* The acknowledgments carry no identification: which hash an answer is    *)
(* for follows from its position alone, through two queues, two channels   *)
(* and calls that cut them at different places.  At every moment the       *)
(* unacknowledged hashes of a peer are those whose answers are under way,  *)
(* followed by those the other peer has not received.                      *)
Aligned ==
  \A p \in Peers : InStep(sentHashes[p], Acks(Other(p)), subtrieChan[p])

(* What the answers under way say: a requested leaf was lacking from the   *)
(* beginning, a node that is not requested is there as a whole.            *)
AnswersHold(sent, answers, began, now) ==
  \A i \in 1 .. Len(answers) :
    /\ answers[i] => \A x \in Keys : sent[i] = {x} => x \notin began
    /\ ~answers[i] => sent[i] \subseteq now

(* processAcks never throws "illegal input length": there is an            *)
(* unacknowledged hash for every acknowledgment that is under way.         *)
AcksAccepted ==
  \A p \in Peers : Len(ackChan[Other(p)]) <= Len(sentHashes[p])

(* A handler is only ever called with keys that the peer had and the other *)
(* peer lacked when the synchronization began, even when what is reported  *)
(* is inserted at once and the tries change under the protocol.            *)
ReportSound ==
  \A p \in Peers : reported[p] \subseteq orig[p] \ orig[Other(p)]

(* isEqual marks a process EQUAL for good, without looking again, and the  *)
(* root it compares with may be outdated on arrival: nevertheless the sets *)
(* of the two peers are, and stay, the same.                               *)
EqualSound ==
  \A p \in Peers : stat[p] = "EQUAL" => trie[p] = trie[Other(p)]

(* done() means done: whoever sees done() on one side has been told of     *)
(* every key that the other side lacks.  This needs a careful application. *)
DoneComplete ==
  \A p \in Peers : Done(p) => trie[p] \ trie[Other(p)] \subseteq reported[p]

(* The branch of processAcks that restarts the descent is not taken: its   *)
(* comment says that it should never happen unless several instances       *)
(* synchronize.                                                            *)
NeverRestarts ==
  \A p \in Peers :
    /\ ackChan[Other(p)] # <<>>
    /\ sentHashes[p] # <<>>
    /\ Head(ackChan[Other(p)])
    => TrieContains(p, Head(sentHashes[p]))

(* Everything reported has been inserted and both processes are done.      *)
Finished ==
  \A p \in Peers : Done(p) /\ reported[Other(p)] \subseteq trie[p]

(* The point of it all.                                                    *)
FinishedEqual == Finished => trie[A] = trie[B]

(* With a careful application the protocol implements what it promises: a  *)
(* handler is only ever called with a key that the other peer lacks at     *)
(* that moment, done() is never true before all of them have been told,    *)
(* and inserting them disturbs neither.                                    *)
Promised == INSTANCE Reconciliation WITH
              set <- trie, told <- reported, over <- [p \in Peers |-> Done(p)]
Reconciles == Promised!Spec

-----------------------------------------------------------------------------
(* The inductive invariants behind these properties.                       *)

(* A trie keeps its keys and gains only what the other peer reported. *)
KeysKept ==
  \A p \in Peers :
    /\ orig[p] \subseteq trie[p]
    /\ trie[p] \subseteq orig[p] \cup reported[Other(p)]

(* A root on its way was the root at some time since the beginning. *)
RootsDated ==
  \A p \in Peers : \A i \in 1 .. Len(rootChan[p]) :
    /\ orig[p] \subseteq rootChan[p][i]
    /\ rootChan[p][i] \subseteq trie[p]

AnswersSound ==
  \A p \in Peers : AnswersHold(sentHashes[p], Acks(Other(p)),
                               orig[Other(p)], trie[Other(p)])

SafetyInv ==
  /\ TypeOK
  /\ KeysKept
  /\ RootsDated
  /\ AnswersSound
  /\ Aligned
  /\ ReportSound
  /\ EqualSound

StoredIn(hashes, S) == \A i \in 1 .. Len(hashes) : hashes[i] \in Nodes(S)
Below(hashes, x) == \E i \in 1 .. Len(hashes) : x \in hashes[i]

(* With a careful application no hash a peer remembers leaves its trie. *)
HashesStored ==
  \A p \in Peers :
    StoredIn(pendingSubtries[p], trie[p]) /\ StoredIn(sentHashes[p], trie[p])

QuietBeforeStart ==
  \A p \in Peers : stat[p] = "START" =>
    pendingSubtries[p] = <<>> /\ sentHashes[p] = <<>>

(* No difference gets lost: a key that the other side lacks is reported or *)
(* lies below a hash that is pending or unacknowledged.                    *)
Covered(p, x) ==
  \/ x \in reported[p]
  \/ Below(pendingSubtries[p], x)
  \/ Below(sentHashes[p], x)

DifferencesCovered ==
  \A p \in Peers : stat[p] = "TRIE" =>
    \A x \in trie[p] \ trie[Other(p)] : Covered(p, x)

CarefulInv ==
  /\ HashesStored
  /\ QuietBeforeStart
  /\ DifferencesCovered

=============================================================================
