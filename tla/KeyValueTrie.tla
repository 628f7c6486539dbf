---------------------------- MODULE KeyValueTrie ----------------------------
(***************************************************************************)
(* The trie of setsync/trie/KeyValueTrie.cpp in its key-value storage: one *)
(* record per node, looked up by the node's hash, a root entry that names  *)
(* the root's hash, and a size entry that is written when the trie is      *)
(* closed.  Every step is one write to the storage, and the process may    *)
(* crash between any two of them.                                          *)
(*                                                                         *)
(* The hash of a leaf is its key.  The hash of an inner node is computed   *)
(* from the hashes of its children and, without collisions, is as good as  *)
(* the pair of them.  A hash here says as well which keys and nodes it     *)
(* covers: the properties ask for that, no operation does.  A record adds  *)
(* how many bits the keys below have in common, a key that shows these     *)
(* bits, and the hash of the parent.                                       *)
(***************************************************************************)
EXTENDS Integers, Sequences, FiniteSets, Functions

CONSTANTS
  Keys,       \* the keys that are added and removed
  Depth,      \* number of bits of a key: 8 * getHashSize()
  Bit(_, _),  \* Bit(k, i): the bit of key k behind its first i bits
  Crashes,    \* how often the process may crash
  LaterOps    \* how many operations are looked at after a crash

(* Keys that have all their bits in common are the same key. *)
ASSUME KeysAssumption ==
  /\ Depth \in Nat \ {0}
  /\ IsFiniteSet(Keys)
  /\ \A k \in Keys, i \in 0 .. Depth - 1 : Bit(k, i) \in {0, 1}
  /\ \A j, k \in Keys : (\A i \in 0 .. Depth - 1 : Bit(j, i) = Bit(k, i)) => j = k

ASSUME BoundsAssumption == Crashes \in Nat /\ LaterOps \in Nat

VARIABLES
  store,      \* the node records: a function from hashes to records
  root,       \* the root entry
  triesize,   \* the size entry
  size,       \* Trie::size, in memory
  request,    \* the operation under way
  todo,       \* its writes that are not yet made
  crashes,    \* number of crashes so far
  later       \* number of operations since a crash

vars == <<store, root, triesize, size, request, todo, crashes, later>>

NoRequest == [op |-> "none"]

None == [leaves |-> {}, below |-> {}]
LeavesOf(hash) == hash.leaves
SubtriesOf(hash) == IF hash = None THEN {} ELSE {hash} \cup hash.below

Leaf(k) == [leaves |-> {k}, below |-> {}]
Inner(smaller, larger) ==
  [smaller |-> smaller, larger |-> larger,
   leaves |-> LeavesOf(smaller) \cup LeavesOf(larger),
   below |-> SubtriesOf(smaller) \cup SubtriesOf(larger)]
IsInner(hash) == hash.below # {}

(* A record that is in memory, together with its hash. *)
Node(hash, mask, prefix, parent) ==
  [hash |-> hash, mask |-> mask, prefix |-> prefix, parent |-> parent]
NewLeaf(k) == Node(Leaf(k), Depth, k, None)

Agree(j, k, d) == \A i \in 0 .. d - 1 : Bit(j, i) = Bit(k, i)
Similar(record, k) == Agree(record.prefix, k, record.mask)

CommonPrefixSize(j, k) ==
  CHOOSE d \in 0 .. Depth : Agree(j, k, d) /\ (d < Depth => Bit(j, d) # Bit(k, d))

-----------------------------------------------------------------------------
(* An operation reads the storage as its own writes leave it.  What it     *)
(* does is computed at once: the storage afterwards, its writes in order,  *)
(* and how it ends.  "notfound" and "broken" stand for the exceptions      *)
(* TrieNodeNotFoundException and DbTrieException.                          *)

Started == [store |-> store, writes |-> <<>>, end |-> "ok"]
Ends(op, end) == [op EXCEPT !.end = end]
Does(op, write) == [op EXCEPT !.writes = Append(@, write)]

PutWrite(node) ==
  [kind |-> "put", hash |-> node.hash,
   record |-> [mask |-> node.mask, prefix |-> node.prefix, parent |-> node.parent]]
DelWrite(hash) == [kind |-> "del", hash |-> hash]
RootWrite(hash) == [kind |-> "root", hash |-> hash]
ClearWrite == [kind |-> "clear"]

Written(records, write) ==
  CASE write.kind = "put" ->
         [h \in DOMAIN records \cup {write.hash} |->
            IF h = write.hash THEN write.record ELSE records[h]]
    [] write.kind = "del" ->
         [h \in DOMAIN records \ {write.hash} |-> records[h]]
    [] write.kind = "root" -> records
    [] write.kind = "clear" -> <<>>

ToDb(op, node) ==
  [Does(op, PutWrite(node)) EXCEPT !.store = Written(@, PutWrite(node))]

DeleteFromDb(op, hashes) ==
  [op EXCEPT !.store = [h \in DOMAIN @ \ Range(hashes) |-> @[h]],
             !.writes = @ \o [i \in DOMAIN hashes |-> DelWrite(hashes[i])]]

SetRoot(op, hash) == Does(op, RootWrite(hash))

Has(op, hash) == hash \in DOMAIN op.store
Load(op, hash) ==
  LET record == op.store[hash]
  IN  Node(hash, record.mask, record.prefix, record.parent)

(* Replaces the child old of a node; the other child. *)
WithChild(node, old, new) ==
  [node EXCEPT !.hash = IF @.smaller = old THEN Inner(new, @.larger)
                                           ELSE Inner(@.smaller, new)]
OtherChild(node, child) ==
  IF node.hash.larger = child THEN node.hash.smaller ELSE node.hash.larger
IsChild(node, child) == child \in {node.hash.smaller, node.hash.larger}

-----------------------------------------------------------------------------
(* TrieNode::insert.                                                       *)

(* The descent for k goes on below the child on k's side; it has ended     *)
(* after at most one step per bit.  None: a record is missing.             *)
Descend(hash, k) ==
  IF hash \notin DOMAIN store THEN None
  ELSE IF Similar(store[hash], k) /\ store[hash].mask < Depth
       THEN IF Bit(k, store[hash].mask) = 1 THEN hash.larger ELSE hash.smaller
  ELSE hash

Locate(hash, k) ==
  LET after[i \in 0 .. Depth + 1] == IF i = 0 THEN hash ELSE Descend(after[i - 1], k)
  IN  after[Depth + 1]

(* The variables of the loops that replace the ancestors of a node one by  *)
(* one, up to the root: the child before and after the change.             *)
Climb(op, oldchild, child, replaced) ==
  [op |-> op, oldchild |-> oldchild, child |-> child, replaced |-> replaced]
Climbing(climb) == climb.op.end = "ok" /\ climb.oldchild.parent # None
Fails(climb, end) == [climb EXCEPT !.op.end = end]

(* One round of the loop in insert. *)
ReplaceInserted(climb) ==
  LET op == climb.op
      oldchild == climb.oldchild
      oldparent == Load(op, oldchild.parent)
      other == OtherChild(oldparent, oldchild.hash)
      parent == WithChild(oldparent, oldchild.hash, climb.child.hash)
  IN
  IF ~Climbing(climb) THEN climb
  ELSE IF ~Has(op, oldchild.parent) THEN Fails(climb, "notfound")
  ELSE IF ~Has(op, oldparent.hash.larger) THEN Fails(climb, "notfound")
  ELSE IF ~IsChild(oldparent, oldchild.hash) THEN Fails(climb, "broken")
  ELSE IF ~Has(op, other) THEN Fails(climb, "notfound")
  ELSE Climb(ToDb(ToDb(ToDb(op, [Load(op, other) EXCEPT !.parent = parent.hash]),
                       [climb.child EXCEPT !.parent = parent.hash]),
                  parent),
             oldparent, parent, Append(climb.replaced, oldparent.hash))

(* The inner nodes above a node have different numbers of common bits, so  *)
(* that there are at most Depth rounds.                                    *)
ClimbedInserted(climb) ==
  LET after[i \in 0 .. Depth] ==
        IF i = 0 THEN climb ELSE ReplaceInserted(after[i - 1])
  IN  after[Depth]

(* Fault: the replaced ancestors are deleted before the root is set. *)
MoveRootDeletingFirst(climb) ==
  IF climb.op.end # "ok" THEN climb.op
  ELSE SetRoot(DeleteFromDb(climb.op, climb.replaced), climb.child.hash)

(* Fault: the root entry is not written, the request has no effect. *)
MoveRootStaying(climb) == climb.op

(* The replaced nodes are deleted when the new root has been set.          *)
MoveRoot(climb) ==
  IF climb.op.end # "ok" THEN climb.op
  ELSE DeleteFromDb(SetRoot(climb.op, climb.child.hash), climb.replaced)

(* Fault: the new leaf always becomes the larger child. *)
SplitUnordered(hash, k) ==
  LET oldnode == Load(Started, hash)
      intermediate == Node(Inner(hash, Leaf(k)), CommonPrefixSize(oldnode.prefix, k),
                           oldnode.prefix, oldnode.parent)
      children ==
        ToDb(ToDb(Started, [NewLeaf(k) EXCEPT !.parent = intermediate.hash]),
             [oldnode EXCEPT !.parent = intermediate.hash])
      before == IF oldnode.parent = None THEN ToDb(children, intermediate)
                                         ELSE children
  IN  MoveRoot(ClimbedInserted(Climb(before, oldnode, intermediate, <<>>)))

(* Puts a new inner node in the place of the node found, above that node   *)
(* and the new leaf.                                                       *)
Split(hash, k) ==
  LET oldnode == Load(Started, hash)
      mask == CommonPrefixSize(oldnode.prefix, k)
      intermediate ==
        Node(IF Bit(k, mask) = 1 THEN Inner(hash, Leaf(k)) ELSE Inner(Leaf(k), hash),
             mask, oldnode.prefix, oldnode.parent)
      children ==
        ToDb(ToDb(Started, [NewLeaf(k) EXCEPT !.parent = intermediate.hash]),
             [oldnode EXCEPT !.parent = intermediate.hash])
      before == IF oldnode.parent = None THEN ToDb(children, intermediate)
                                         ELSE children
  IN  MoveRoot(ClimbedInserted(Climb(before, oldnode, intermediate, <<>>)))

(* KeyValueTrie::add.  Whatever goes wrong on the way, the trie gets the   *)
(* new leaf as its only node. *)
IsDuplicate(k) ==
  root # None /\ LET hash == Locate(root, k)
                 IN  hash # None /\ Similar(store[hash], k)

Insertion(k) ==
  IF root = None THEN Ends(Started, "notfound")
  ELSE LET hash == Locate(root, k)
       IN  IF hash = None THEN Ends(Started, "notfound") ELSE Split(hash, k)

NewRoot(op, k) == SetRoot(ToDb(op, NewLeaf(k)), Leaf(k))

Adding(k) ==
  LET op == Insertion(k) IN IF op.end = "ok" THEN op ELSE NewRoot(op, k)

-----------------------------------------------------------------------------
(* TrieNode::erase.                                                        *)

(* One round of the loop in erase.                                         *)
ReplaceErased(climb) ==
  LET op == climb.op
      oldchild == climb.oldchild
      oldparent == Load(op, oldchild.parent)
      other == OtherChild(oldparent, oldchild.hash)
      parent == WithChild(oldparent, oldchild.hash, climb.child.hash)
  IN
  IF ~Climbing(climb) THEN climb
  ELSE IF ~Has(op, oldchild.parent) THEN Fails(climb, "notfound")
  ELSE IF ~IsChild(oldparent, oldchild.hash) THEN Fails(climb, "broken")
  ELSE IF ~Has(op, other) THEN Fails(climb, "notfound")
  ELSE Climb(ToDb(ToDb(ToDb(op, parent),
                       [climb.child EXCEPT !.parent = parent.hash]),
                  [Load(op, other) EXCEPT !.parent = parent.hash]),
             oldparent, parent, Append(climb.replaced, oldparent.hash))

ClimbedErased(climb) ==
  LET after[i \in 0 .. Depth] ==
        IF i = 0 THEN climb ELSE ReplaceErased(after[i - 1])
  IN  after[Depth]

(* Fault: the new root keeps its parent. *)
EraseKeepingParent(leaf, parent) ==
  LET other == OtherChild(parent, leaf.hash) IN
  DeleteFromDb(SetRoot(ToDb(Started, Load(Started, other)), other),
               <<parent.hash, leaf.hash>>)

(* The leaf is one of the two children of the root: the other one becomes  *)
(* the root.                                                               *)
EraseBelowRoot(leaf, parent) ==
  LET other == OtherChild(parent, leaf.hash) IN
  IF ~Has(Started, other) THEN Ends(Started, "notfound")
  ELSE DeleteFromDb(
         SetRoot(ToDb(Started, [Load(Started, other) EXCEPT !.parent = None]),
                 other),
         <<parent.hash, leaf.hash>>)

(* The other child takes the place of the parent below the grandparent,    *)
(* and so on up to the root: what the code does to the grandparent is one  *)
(* round of the loop.                                                      *)
EraseDeeper(leaf, parent) ==
  LET op == Started
      other == OtherChild(parent, leaf.hash)
  IN
  IF ~Has(op, parent.parent) THEN Ends(op, "notfound")
  ELSE IF ~IsChild(parent, leaf.hash) THEN Ends(op, "broken")
  ELSE IF ~Has(op, other) THEN Ends(op, "notfound")
  ELSE MoveRoot(ClimbedErased(Climb(op, parent, Load(op, other),
                                    <<parent.hash, leaf.hash>>)))

Erasure(k) ==
  LET leaf == Load(Started, Leaf(k)) IN
  IF ~Has(Started, Leaf(k)) THEN Ends(Started, "notfound")
  ELSE IF leaf.parent = None
         THEN DeleteFromDb(SetRoot(Started, None), <<Leaf(k)>>)
  ELSE IF ~Has(Started, leaf.parent) THEN Ends(Started, "notfound")
  ELSE LET parent == Load(Started, leaf.parent)
       IN  IF parent.parent = None THEN EraseBelowRoot(leaf, parent)
                                   ELSE EraseDeeper(leaf, parent)

-----------------------------------------------------------------------------
Init ==
  /\ store = <<>>
  /\ root = None
  /\ triesize = 0
  /\ size = 0
  /\ request = NoRequest
  /\ todo = <<>>
  /\ crashes = 0
  /\ later = 0

Begin(r) ==
  /\ request = NoRequest
  /\ crashes > 0 => later < LaterOps
  /\ later' = IF crashes > 0 THEN later + 1 ELSE 0
  /\ request' = r
  /\ UNCHANGED <<store, root, triesize, crashes>>

Add(k) ==
  /\ Begin([op |-> "add", key |-> k])
  /\ \/ IsDuplicate(k) /\ UNCHANGED <<todo, size>>
     \/ ~IsDuplicate(k) /\ todo' = Adding(k).writes /\ size' = size + 1

(* Fault: the size is decremented for every remove. *)
RemoveCountingAlways(k) ==
  /\ Begin([op |-> "remove", key |-> k])
  /\ IF root \in DOMAIN store THEN todo' = Erasure(k).writes ELSE UNCHANGED todo
  /\ size' = size - 1

(* KeyValueTrie::remove: a trie that is empty afterwards - or that was     *)
(* believed to be empty before - clears the storage.  A size below zero    *)
(* stands for the value that size_t wraps to.                              *)
Remove(k) ==
  /\ Begin([op |-> "remove", key |-> k])
  /\ \/ root \notin DOMAIN store /\ UNCHANGED <<todo, size>>
     \/ /\ root \in DOMAIN store
        /\ LET op == Erasure(k)
               left == IF op.end = "ok" THEN size - 1 ELSE size
           IN  IF op.end # "broken" /\ left = 0
               THEN todo' = Append(op.writes, ClearWrite) /\ size' = 0
               ELSE todo' = op.writes /\ size' = left

Clear ==
  /\ Begin([op |-> "clear"])
  /\ todo' = <<ClearWrite>>
  /\ size' = 0

(* One write reaches the storage.  clear() takes the entries as well. *)
Write ==
  /\ todo # <<>>
  /\ store' = Written(store, Head(todo))
  /\ root' = CASE Head(todo).kind = "root" -> Head(todo).hash
               [] Head(todo).kind = "clear" -> None
               [] OTHER -> root
  /\ triesize' = IF Head(todo).kind = "clear" THEN 0 ELSE triesize
  /\ todo' = Tail(todo)
  /\ UNCHANGED <<size, request, crashes, later>>

(* The operation returns when all its writes are made. *)
Return ==
  /\ request # NoRequest
  /\ todo = <<>>
  /\ request' = NoRequest
  /\ UNCHANGED <<store, root, triesize, size, todo, crashes, later>>

(* Fault: the destructor does not write the size entry. *)
ReopenUnsaved ==
  /\ request = NoRequest
  /\ size' = triesize
  /\ UNCHANGED <<store, root, triesize, request, todo, crashes, later>>

(* The destructor writes the size entry unless the size is zero; the       *)
(* constructor reads it. *)
Reopen ==
  /\ request = NoRequest
  /\ triesize' = IF size # 0 THEN size ELSE triesize
  /\ size' = triesize'
  /\ UNCHANGED <<store, root, request, todo, crashes, later>>

(* The process ends without the destructor and is started again. *)
Crash ==
  /\ crashes < Crashes
  /\ crashes' = crashes + 1
  /\ request' = NoRequest
  /\ todo' = <<>>
  /\ size' = triesize
  /\ UNCHANGED <<store, root, triesize, later>>

Next ==
  \/ \E k \in Keys : Add(k) \/ Remove(k)
  \/ Clear
  \/ Write
  \/ Return
  \/ Reopen
  \/ Crash

Spec == Init /\ [][Next]_vars

-----------------------------------------------------------------------------
(* What the properties are about.                                          *)

(* The number of bits that all keys in S have in common. *)
CommonBits(S) ==
  CHOOSE d \in 0 .. Depth :
    /\ \A j, k \in S : Agree(j, k, d)
    /\ d < Depth => \E j, k \in S : Bit(j, d) # Bit(k, d)

(* The trie of a set of keys, defined without any history: the keys are    *)
(* told apart bit by bit, and where there is nothing to tell apart there   *)
(* is no node.  Tries[n] is for keys that differ in their last n bits.     *)
Joined(smaller, larger) ==
  IF smaller = None THEN larger
  ELSE IF larger = None THEN smaller
  ELSE Inner(smaller, larger)

Tries[n \in 0 .. Depth] ==
  [S \in SUBSET Keys |->
     IF S = {} THEN None
     ELSE IF n = 0 THEN Leaf(CHOOSE k \in S : TRUE)
     ELSE Joined(Tries[n - 1][{k \in S : Bit(k, Depth - n) = 0}],
                 Tries[n - 1][{k \in S : Bit(k, Depth - n) = 1}])]

TrieOf(S) == Tries[Depth][S]

TypeOK ==
  /\ \A hash \in DOMAIN store :
       /\ store[hash].mask \in 0 .. Depth
       /\ store[hash].prefix \in Keys
       /\ LeavesOf(hash) \cup LeavesOf(store[hash].parent) \subseteq Keys
  /\ LeavesOf(root) \subseteq Keys
  /\ triesize \in Nat
  /\ size \in Int
  /\ crashes \in 0 .. Crashes
  /\ later \in 0 .. LaterOps

(* Equal sets have equal roots, whatever was added and removed before and  *)
(* in whichever order: without that isEqual, == and the descent of the     *)
(* synchronization are worth nothing.  It holds between any two writes, so *)
(* also after a crash.                                                     *)
RootIsCanonical == root = TrieOf(LeavesOf(root))

(* Between any two writes every node below the root is stored, with the    *)
(* bits by which add finds its way.                                        *)
RootReadable ==
  \A hash \in SubtriesOf(root) :
    /\ hash \in DOMAIN store
    /\ store[hash].mask = CommonBits(LeavesOf(hash))
    /\ \A k \in LeavesOf(hash) : Similar(store[hash], k)

(* As long as nothing has crashed, a finished operation leaves exactly the *)
(* nodes of the trie behind, each with its own parent: no replaced node    *)
(* remains that contains would find.                                       *)
StoreIsExact ==
  request = NoRequest /\ crashes = 0 =>
    /\ DOMAIN store = SubtriesOf(root)
    /\ \A hash \in DOMAIN store :
         store[hash].parent =
           IF hash = root THEN None
           ELSE CHOOSE p \in DOMAIN store : IsInner(p) /\ hash \in {p.smaller, p.larger}

(* The size, kept up by hand and written only on closing, is the number of *)
(* keys.                                                                   *)
SizeIsRight ==
  request = NoRequest /\ crashes = 0 => size = Cardinality(LeavesOf(root))

(* The trie implements a set of keys: an operation has its effect, and no  *)
(* other, with the one write of the root entry. None returns without it,   *)
(* and a crash leaves either the old set or the new one.                   *)
Abstract == INSTANCE KeySet WITH keys <- LeavesOf(root)
KeySetSpec == Abstract!Spec

(* The comment in insert: that the old child has not been a child of the   *)
(* old parent "should never occur".                                        *)
ParentsHaveTheirChildren ==
  request = NoRequest =>
    \A k \in Keys : ~IsDuplicate(k) => Insertion(k).end # "broken"

=============================================================================
