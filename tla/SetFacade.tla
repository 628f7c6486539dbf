------------------------------ MODULE SetFacade ------------------------------
(***************************************************************************)
(* setsync::Set of Set.cpp: the trie that holds the set, the counting      *)
(* Bloom filter that is asked first by find, and the index with the data   *)
(* of the elements that were inserted as data.  Each is changed by calls   *)
(* of its own, in an order that a crash or an exception may cut short.     *)
(*                                                                         *)
(* The trie is the set of keys that the module KeyValueTrie implements,    *)
(* with its size that is kept in memory and written on closing.            *)
(***************************************************************************)
EXTENDS CountingBloom

CONSTANTS
  DataKeys,   \* the keys that are inserted as data
  Crashes,    \* how often the process may crash
  Inserts     \* bound on the number of keys inserted

ASSUME FacadeAssumption ==
  /\ DataKeys \subseteq Keys
  /\ Crashes \in Nat /\ Inserts \in Nat

VARIABLES
  trie,        \* the keys in trie_
  size,        \* trie_->getSize()
  triesize,    \* the entry "triesize" of the trie's storage
  index,       \* the keys that index_ has data for
  indexInUse,  \* indexInUse_
  crashes,     \* number of crashes so far
  inserts,     \* number of keys inserted so far
  incomplete,  \* history: keys whose last add did not reach its end
  damaged      \* history: such a key has been erased

facadeVars == <<trie, size, triesize, index, indexInUse, crashes, inserts>>
history == <<incomplete, damaged>>
vars == <<bloomVars, facadeVars, history>>

Init ==
  /\ BloomInit
  /\ trie = {}
  /\ size = 0
  /\ triesize = 0
  /\ index = {}
  /\ indexInUse = FALSE
  /\ crashes = 0
  /\ inserts = 0
  /\ incomplete = {}
  /\ damaged = FALSE

-----------------------------------------------------------------------------
(* insert.  Insertable: the trie accepts the key.  A size below zero stands *)
(* for the value that size_t wraps to, which is beyond every maximum.      *)
Full == HardMaximum /\ (size < 0 \/ size >= MaxElements)
Insertable(k) == ~Full /\ k \notin trie

StartInsert(k, data) ==
  /\ Insertable(k)
  /\ inserts < Inserts
  /\ inserts' = inserts + 1
  /\ trie' = trie \cup {k}
  /\ size' = size + 1
  /\ StartAdd(k, data)
  /\ incomplete' = incomplete \ {k}
  /\ UNCHANGED <<records, bits, itemCount, bfsize, triesize, indexInUse, crashes,
                 damaged>>

Insert(k) ==
  /\ call = Idle
  /\ StartInsert(k, FALSE)
  /\ UNCHANGED index

(* With data: the index comes first, and is taken back when the insertion  *)
(* fails - also when it fails because the key is there already.            *)
InsertData(k) ==
  /\ call = Idle
  /\ \/ StartInsert(k, TRUE) /\ index' = index \cup {k}
     \/ /\ ~Insertable(k)
        /\ index' = index \ {k}
        /\ UNCHANGED <<bloomVars, trie, size, triesize, indexInUse, crashes, inserts, history>>

EndInsert ==
  /\ call.op \in {"added", "skipped", "thrown"}
  /\ call' = Idle
  /\ indexInUse' = (indexInUse \/ (call.data /\ call.op # "thrown"))
  /\ incomplete' = IF Running("added") THEN incomplete
                                       ELSE incomplete \cup {call.key}
  /\ UNCHANGED <<records, bits, itemCount, bfsize, trie, size, triesize, index,
                 crashes, inserts, damaged>>

-----------------------------------------------------------------------------
(* erase.  The trie clears its storage when its size becomes zero, or is   *)
(* zero without it having removed anything.                                *)
Erase(k) ==
  /\ call = Idle
  /\ trie # {}
  /\ LET left == IF k \in trie THEN size - 1 ELSE size IN
     /\ trie' = IF left = 0 THEN {} ELSE trie \ {k}
     /\ size' = left
     /\ triesize' = IF left = 0 THEN 0 ELSE triesize
  /\ \/ k \in trie /\ StartRemove(k) /\ damaged' = (damaged \/ k \in incomplete)
     \/ k \notin trie /\ UNCHANGED <<call, damaged>>
  /\ UNCHANGED <<records, bits, itemCount, bfsize, index, indexInUse, crashes, inserts,
                 incomplete>>

EndErase ==
  /\ Running("removed")
  /\ call' = Idle
  /\ index' = IF indexInUse THEN index \ {call.key} ELSE index
  /\ UNCHANGED <<records, bits, itemCount, bfsize, trie, size, triesize,
                 indexInUse, crashes, inserts, history>>

-----------------------------------------------------------------------------
Clear ==
  /\ call = Idle
  /\ trie' = {}
  /\ size' = 0
  /\ triesize' = 0
  /\ StartClear
  /\ UNCHANGED <<records, bits, itemCount, bfsize, index, indexInUse, crashes,
                 inserts, history>>

EndClear ==
  /\ Running("cleared")
  /\ call' = Idle
  /\ index' = {}
  /\ indexInUse' = FALSE
  /\ UNCHANGED <<records, bits, itemCount, bfsize, trie, size, triesize, crashes,
                 inserts, history>>

(* The steps of the filter. *)
FilterStep ==
  /\ AddRecord \/ AddBits \/ RemoveRecord
  /\ UNCHANGED <<facadeVars, history>>

FilterCleared ==
  /\ ClearFilter
  /\ incomplete' = {}
  /\ damaged' = FALSE
  /\ UNCHANGED facadeVars

(* The set is closed and opened again. *)
Reopen ==
  /\ call = Idle
  /\ ReopenFilter
  /\ triesize' = IF size # 0 THEN size ELSE triesize
  /\ size' = triesize'
  /\ indexInUse' = FALSE
  /\ UNCHANGED <<trie, index, crashes, inserts, history>>

(* The process ends without the destructors and the set is opened again. *)
Crash ==
  /\ crashes < Crashes
  /\ crashes' = crashes + 1
  /\ RestartFilter
  /\ size' = triesize
  /\ indexInUse' = FALSE
  /\ incomplete' = IF call.op \in {"add", "skipped", "thrown"}
                     THEN incomplete \cup {call.key} ELSE incomplete
  /\ UNCHANGED <<trie, triesize, index, inserts, damaged>>

Next ==
  \/ \E k \in Keys : Insert(k) \/ Erase(k)
  \/ \E k \in DataKeys : InsertData(k)
  \/ Clear
  \/ FilterStep
  \/ FilterCleared
  \/ EndInsert
  \/ EndErase
  \/ EndClear
  \/ Reopen
  \/ Crash

Spec == Init /\ [][Next]_vars

-----------------------------------------------------------------------------
TypeOK ==
  /\ records \in [Positions -> Record]
  /\ bits \subseteq Positions
  /\ itemCount \in Nat
  /\ bfsize \in Nat
  /\ call \in Calls
  /\ call.op \in AddOps \cup RemoveOps => call.key \in Keys
  /\ trie \subseteq Keys
  /\ size \in Int
  /\ triesize \in Int
  /\ index \subseteq Keys
  /\ indexInUse \in BOOLEAN
  /\ crashes \in 0 .. Crashes
  /\ inserts \in 0 .. Inserts
  /\ incomplete \subseteq Keys
  /\ damaged \in BOOLEAN

(* No bit of the filter is set without a record.  diff, which looks at the *)
(* bits, always finds the hashes behind them, and a set that is opened     *)
(* again answers as before.                                                *)
BitsHaveRecords == bits \subseteq Recorded

(* The members whose insertion was not cut short. *)
Settled ==
  trie \ (IF call.op \in {"add", "skipped", "thrown"}
            THEN incomplete \cup {call.key} ELSE incomplete)

(* find, which believes the filter, finds every member - unless add gave   *)
(* up on that member half way, at a hash of its own that it met in a       *)
(* record, at the maximum or in a crash, or such a member has been erased. *)
FindsMembers == ~damaged => \A k \in Settled : Contains(k)

(* The filter's part of insert and erase for key k and function i has been *)
(* done, or is not yet undone.                                             *)
Claimed(k, i) ==
  CASE Running("add") /\ call.key = k -> i < call.func
    [] Running("remove") /\ call.key = k -> i >= call.func
    [] OTHER -> k \in Settled
Claims(p) ==
  {c \in Keys \X HashFunctions : Pos[c[1]][c[2]] = p /\ Claimed(c[1], c[2])}

(* A record counts: although remove shortens it by a byte only and leaves  *)
(* hashes of removed keys in it, it never has fewer entries than keys rely *)
(* on its position.                                                        *)
RecordsCount == ~damaged => \A p \in Positions : Count(p) >= Cardinality(Claims(p))

(* What was found before the set was closed, or the process crashed, is    *)
(* found when it is opened again.                                          *)
RestartHidesNothing ==
  [][Reopen \/ Crash => \A k \in trie : Contains(k) => Contains(k)']_vars

(* How far the call under way has come.  With the properties above this    *)
(* makes an inductive invariant.                                           *)
CallInStep ==
  /\ Running("add") =>
       \A i \in HashFunctions : i < call.func => Pos[call.key][i] \in Recorded
  /\ call.op \in {"add", "added"} => call.key \in trie \ incomplete
  /\ Running("remove") => call.func \in HashFunctions /\ call.key \notin trie
  /\ call.op \in ClearOps => trie = {}

SetInv ==
  TypeOK /\ CallInStep /\ BitsHaveRecords /\ RecordsCount /\ FindsMembers

-----------------------------------------------------------------------------
(* The unit tests insert and find: a key that is in the set is found.      *)
InsertedIsFound == call = Idle => \A k \in trie : Contains(k)

=============================================================================
