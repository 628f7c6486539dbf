---------------------------- MODULE CountingBloom ----------------------------
(***************************************************************************)
(* The counting Bloom filter of bloom/KeyValueCountingBloomFilter.cpp, on  *)
(* top of the bit array of bloom/FSBloomFilter.cpp.  For every position    *)
(* whose bit is set, the storage holds a record: an array of the hashes    *)
(* that were added there.  Each step is one record written.                *)
(***************************************************************************)
EXTENDS BloomRecords

CONSTANTS
  FunctionCount,  \* functionCount_
  Positions,      \* 0 .. filterSize_ - 1
  Pos,            \* Pos[k][i]: the position that hash function i gives to k
  HardMaximum,    \* hardMaximum_
  MaxElements     \* maxElements_

HashFunctions == 1 .. FunctionCount

ASSUME BloomAssumption ==
  /\ IsFiniteSet(Keys)
  /\ FunctionCount \in Nat \ {0}
  /\ Pos \in [Keys -> [HashFunctions -> Positions]]
  /\ HardMaximum \in BOOLEAN
  /\ MaxElements \in Nat

VARIABLES
  records,    \* the record of every position, NoRecord if there is none
  bits,       \* bitArray_: the positions whose bit is set
  itemCount,  \* itemCount_
  bfsize,     \* the entry "bfsize" of the storage, 0 if there is none
  call        \* the operation under way

bloomVars == <<records, bits, itemCount, bfsize, call>>

(* A call: what it does, for which key, and the hash function that it has  *)
(* come to.                                                                *)
AddOps == {"add", "added", "skipped", "thrown"}
RemoveOps == {"remove", "removed"}
ClearOps == {"clear", "cleared"}
NoKey == Junk
Call(op, key, data) == [op |-> op, key |-> key, func |-> 1, data |-> data]
Idle == Call("idle", NoKey, FALSE)
Calls == [op : {"idle"} \cup AddOps \cup RemoveOps \cup ClearOps,
          key : Keys \cup {NoKey}, func : 1 .. FunctionCount + 1, data : BOOLEAN]
Running(op) == call.op = op

Count(p) == Len(records[p].entries)
Recorded == {p \in Positions : Count(p) > 0}

Contains(k) == \A i \in HashFunctions : Pos[k][i] \in bits

BloomInit ==
  /\ records = [p \in Positions |-> NoRecord]
  /\ bits = {}
  /\ itemCount = 0
  /\ bfsize = 0
  /\ call = Idle

-----------------------------------------------------------------------------
(* add                                                                     *)

StartAdd(k, data) == call' = Call("add", k, data)

(* The loop over the hash functions.  It returns from add altogether when  *)
(* it meets the key.                                                       *)
AddRecord ==
  /\ Running("add")
  /\ call.func <= FunctionCount
  /\ LET p == Pos[call.key][call.func] IN
     \/ /\ call.key \in Range(records[p].entries)
        /\ call' = [call EXCEPT !.op = "skipped"]
        /\ UNCHANGED records
     \/ /\ call.key \notin Range(records[p].entries)
        /\ records' = [records EXCEPT ![p] = Appended(@, call.key)]
        /\ call' = [call EXCEPT !.func = @ + 1]
  /\ UNCHANGED <<bits, itemCount, bfsize>>

(* FSBloomFilter::add, at the end of add.  It throws at the hard maximum.  *)
AddBits ==
  /\ Running("add")
  /\ call.func > FunctionCount
  /\ \/ /\ HardMaximum /\ itemCount >= MaxElements
        /\ call' = [call EXCEPT !.op = "thrown"]
        /\ UNCHANGED <<bits, itemCount>>
     \/ /\ ~(HardMaximum /\ itemCount >= MaxElements)
        /\ call' = [call EXCEPT !.op = "added"]
        /\ bits' = bits \cup Range(Pos[call.key])
        /\ itemCount' = itemCount + 1
  /\ UNCHANGED <<records, bfsize>>

-----------------------------------------------------------------------------
(* remove                                                                  *)

StartRemove(k) ==
  call' = Call(IF Contains(k) THEN "remove" ELSE "removed", k, FALSE)

(* Fault: the bit stays set when the record is deleted. *)
RemoveKeepingBit ==
  /\ Running("remove")
  /\ LET p == Pos[call.key][call.func] IN
     \/ Count(p) > 1 /\ records' = [records EXCEPT ![p] = Shortened(@, call.key)]
                     /\ UNCHANGED bits
     \/ Count(p) = 1 /\ records' = [records EXCEPT ![p] = NoRecord]
                     /\ UNCHANGED bits
     \/ Count(p) = 0 /\ UNCHANGED <<records, bits>>
  /\ call' = IF call.func = FunctionCount THEN [call EXCEPT !.op = "removed"]
                                          ELSE [call EXCEPT !.func = @ + 1]
  /\ UNCHANGED <<itemCount, bfsize>>

(* Fault: the bit is cleared although other hashes are left. *)
RemoveClearingBit ==
  /\ Running("remove")
  /\ LET p == Pos[call.key][call.func] IN
     \/ Count(p) > 1 /\ records' = [records EXCEPT ![p] = Shortened(@, call.key)]
                     /\ bits' = bits \ {p}
     \/ Count(p) = 1 /\ records' = [records EXCEPT ![p] = NoRecord]
                     /\ bits' = bits \ {p}
     \/ Count(p) = 0 /\ UNCHANGED <<records, bits>>
  /\ call' = IF call.func = FunctionCount THEN [call EXCEPT !.op = "removed"]
                                          ELSE [call EXCEPT !.func = @ + 1]
  /\ UNCHANGED <<itemCount, bfsize>>

(* The loop over the hash functions. *)
RemoveRecord ==
  /\ Running("remove")
  /\ LET p == Pos[call.key][call.func] IN
     \/ Count(p) > 1 /\ records' = [records EXCEPT ![p] = Shortened(@, call.key)]
                     /\ UNCHANGED bits
     \/ Count(p) = 1 /\ records' = [records EXCEPT ![p] = NoRecord]
                     /\ bits' = bits \ {p}
     \/ Count(p) = 0 /\ UNCHANGED <<records, bits>>
  /\ call' = IF call.func = FunctionCount THEN [call EXCEPT !.op = "removed"]
                                          ELSE [call EXCEPT !.func = @ + 1]
  /\ UNCHANGED <<itemCount, bfsize>>

-----------------------------------------------------------------------------
StartClear == call' = Call("clear", NoKey, FALSE)

ClearFilter ==
  /\ Running("clear")
  /\ records' = [p \in Positions |-> NoRecord]
  /\ bits' = {}
  /\ itemCount' = 0
  /\ bfsize' = 0
  /\ call' = Call("cleared", NoKey, FALSE)

(* Fault: the bits are not loaded from the storage. *)
OpenEmpty ==
  /\ bits' = {}
  /\ itemCount' = bfsize'
  /\ call' = Idle
  /\ UNCHANGED records

(* The constructor: an empty bit array, then one bit for each record. *)
Open ==
  /\ bits' = Recorded
  /\ itemCount' = bfsize'
  /\ call' = Idle
  /\ UNCHANGED records

(* The destructor, then the constructor. *)
ReopenFilter ==
  /\ bfsize' = IF itemCount > 0 THEN itemCount ELSE bfsize
  /\ Open

(* The constructor alone, after a crash. *)
RestartFilter ==
  /\ UNCHANGED bfsize
  /\ Open

=============================================================================
