--------------------------- MODULE SetFacadeProofs ---------------------------
(***************************************************************************)
(* Proofs about SetFacade, for any keys, any hash functions, any hash size *)
(* and maximum, and any number of insertions and crashes.                  *)
(***************************************************************************)
EXTENDS SetFacade, FiniteSetTheorems, SequenceTheorems, TLAPS

-----------------------------------------------------------------------------
(* Records of the counting filter.                                        *)

(* NoRecord is a record without entries. *)
LEMMA NoRecordType == NoRecord \in Record /\ Len(NoRecord.entries) = 0
BY RecordsAssumption, EmptySeq DEF NoRecord, Record

(* add makes a record longer by one entry. *)
LEMMA AppendedType ==
  ASSUME NEW r \in Record, NEW k \in Keys \cup {Junk}
  PROVE  /\ Appended(r, k) \in Record
         /\ Len(Appended(r, k).entries) = Len(r.entries) + 1
<1> DEFINE e == IF r.tail = 0 THEN k ELSE Junk
<1>1. e \in Keys \cup {Junk} /\ r.entries \in Seq(Keys \cup {Junk})
  BY DEF Record
<1> HIDE DEF e
<1>2. /\ Append(r.entries, e) \in Seq(Keys \cup {Junk})
      /\ Len(Append(r.entries, e)) = Len(r.entries) + 1
  BY <1>1, AppendProperties
<1>3. Appended(r, k) = [r EXCEPT !.entries = Append(r.entries, e)]
  BY DEF Appended, e
<1> QED
  BY <1>2, <1>3 DEF Record

(* Moving the other hashes up keeps the number of entries. *)
LEMMA MovedUpType ==
  ASSUME NEW s \in Seq(Keys \cup {Junk}), NEW k \in Keys \cup {Junk}
  PROVE  MovedUp(s, k) \in Seq(Keys \cup {Junk}) /\ Len(MovedUp(s, k)) = Len(s)
<1> DEFINE S == Keys \cup {Junk}
           others == Cardinality(OthersUpTo(s, k, Len(s)))
           m == [i \in 1 .. Len(s) |->
                   IF IthOther(s, k, i) # {}
                     THEN s[CHOOSE j \in IthOther(s, k, i) : TRUE]
                   ELSE IF i = others + 1 /\ s[Len(s)] = k THEN k
                   ELSE s[i]]
<1>1. Len(s) \in Nat /\ DOMAIN s = 1 .. Len(s)
  BY LenProperties
<1>2. \A i \in 1 .. Len(s) : s[i] \in S
  BY ElementOfSeq
<1>3. \A i : IthOther(s, k, i) \subseteq 1 .. Len(s)
  BY <1>1 DEF IthOther
<1>4. \A i : IthOther(s, k, i) # {} =>
        s[CHOOSE j \in IthOther(s, k, i) : TRUE] \in S
  BY <1>2, <1>3
<1>5. m \in [1 .. Len(s) -> S]
  BY <1>2, <1>4
<1>6. MovedUp(s, k) = m
  BY <1>1 DEF MovedUp
<1> HIDE DEF m, S
<1>7. m \in Seq(S) /\ Len(m) = Len(s)
  BY <1>1, <1>5, SeqDef, LenProperties
<1> QED
  BY <1>6, <1>7 DEF S

(* remove makes a record shorter by at most one entry. *)
LEMMA ShortenedType ==
  ASSUME NEW r \in Record, NEW k \in Keys \cup {Junk}, Len(r.entries) > 1
  PROVE  /\ Shortened(r, k) \in Record
         /\ Len(Shortened(r, k).entries) \in {Len(r.entries), Len(r.entries) - 1}
<1> DEFINE m == MovedUp(r.entries, k)
<1>1. r.entries \in Seq(Keys \cup {Junk}) /\ r.tail \in 0 .. HashSize - 1
  BY DEF Record
<1>2. m \in Seq(Keys \cup {Junk}) /\ Len(m) = Len(r.entries)
  BY <1>1, MovedUpType
<1> HIDE DEF m
<1>3. Len(m) \in Nat
  BY <1>2, LenProperties
<1>4. CASE r.tail > 0
  <2>1. Shortened(r, k) = [entries |-> m, tail |-> r.tail - 1]
    BY <1>4 DEF Shortened, m
  <2> QED
    BY <2>1, <1>1, <1>2, <1>4, RecordsAssumption DEF Record
<1>5. CASE ~(r.tail > 0)
  <2>1. Shortened(r, k) =
          [entries |-> SubSeq(m, 1, Len(m) - 1), tail |-> HashSize - 1]
    BY <1>5 DEF Shortened, m
  <2>2. /\ SubSeq(m, 1, Len(m) - 1) \in Seq(Keys \cup {Junk})
        /\ Len(SubSeq(m, 1, Len(m) - 1)) = Len(m) - 1
    BY <1>2, <1>3, SubSeqProperties
  <2> QED
    BY <2>1, <2>2, <1>2, RecordsAssumption DEF Record
<1> QED
  BY <1>4, <1>5

-----------------------------------------------------------------------------
(* Every position that a hash function gives is a position of the filter.  *)
LEMMA PosType ==
  ASSUME NEW k \in Keys, NEW i \in HashFunctions
  PROVE  Pos[k][i] \in Positions
BY BloomAssumption

-----------------------------------------------------------------------------
(* Type correctness.                                                       *)

LEMMA InitType == Init => TypeOK
<1> SUFFICES ASSUME Init PROVE TypeOK
  OBVIOUS
<1>1. call \in Calls
  BY BloomAssumption
  DEF Init, BloomInit, Calls, Idle, Call, NoKey
<1>2. records \in [Positions -> Record]
  BY NoRecordType DEF Init, BloomInit
<1>3. ~(call.op \in AddOps \cup RemoveOps)
  BY DEF Init, BloomInit, Idle, Call, AddOps, RemoveOps
<1>4. indexInUse \in BOOLEAN /\ damaged \in BOOLEAN
  BY Zenon DEF Init
<1>5. crashes \in 0 .. Crashes /\ inserts \in 0 .. Inserts
  BY FacadeAssumption DEF Init
<1> QED
  BY <1>1, <1>2, <1>3, <1>4, <1>5 DEF Init, BloomInit, TypeOK

(* The records that a call may be. *)
LEMMA CallType ==
  ASSUME NEW op \in {"idle"} \cup AddOps \cup RemoveOps \cup ClearOps,
         NEW k \in Keys \cup {NoKey}, NEW data \in BOOLEAN
  PROVE  /\ Call(op, k, data) \in Calls
         /\ Call(op, k, data).op = op
         /\ Call(op, k, data).key = k
         /\ Call(op, k, data).func = 1
BY BloomAssumption DEF Call, Calls

(* TypeOK in three parts. *)
FilterType ==
  /\ records \in [Positions -> Record]
  /\ bits \subseteq Positions
  /\ call \in Calls
  /\ call.op \in AddOps \cup RemoveOps => call.key \in Keys
FacadeType ==
  /\ itemCount \in Nat
  /\ bfsize \in Nat
  /\ trie \subseteq Keys
  /\ size \in Int
  /\ triesize \in Int
  /\ index \subseteq Keys
  /\ crashes \in 0 .. Crashes
  /\ inserts \in 0 .. Inserts
  /\ incomplete \subseteq Keys
FlagType == indexInUse \in BOOLEAN /\ damaged \in BOOLEAN

LEMMA TypeParts == TypeOK => FilterType /\ FacadeType /\ FlagType
BY DEF TypeOK, FilterType, FacadeType, FlagType

LEMMA AddRecordType == TypeOK /\ AddRecord => FilterType'
<1> SUFFICES ASSUME TypeOK, AddRecord PROVE FilterType'
  OBVIOUS
<1> DEFINE k == call.key  p == Pos[k][call.func]
<1>1. k \in Keys /\ call.func \in HashFunctions /\ call \in Calls
  BY BloomAssumption
  DEF TypeOK, AddRecord, Running, AddOps, Calls, HashFunctions
<1>2. p \in Positions /\ records[p] \in Record
  BY <1>1, PosType DEF TypeOK
<1>3. Appended(records[p], k) \in Record
  BY <1>1, <1>2, AppendedType
<1>4. records' \in [Positions -> Record]
  BY <1>2, <1>3 DEF AddRecord, TypeOK
<1>5. call' \in Calls /\ call'.key = k
  BY <1>1, BloomAssumption DEF AddRecord, Calls, AddOps, HashFunctions
<1> QED
  BY <1>1, <1>4, <1>5 DEF FilterType, AddRecord, TypeOK

LEMMA AddBitsType == TypeOK /\ AddBits => FilterType' /\ itemCount' \in Nat
<1> SUFFICES ASSUME TypeOK, AddBits PROVE FilterType' /\ itemCount' \in Nat
  OBVIOUS
<1>1. call.key \in Keys /\ call \in Calls
  BY DEF TypeOK, AddBits, Running, AddOps
<1>2. Range(Pos[call.key]) \subseteq Positions
  BY <1>1, BloomAssumption DEF Range
<1>3. call' \in Calls /\ call'.key = call.key
  BY <1>1 DEF AddBits, Calls, AddOps
<1> QED
  BY <1>1, <1>2, <1>3 DEF FilterType, AddBits, TypeOK

LEMMA RemoveRecordType ==
  TypeOK /\ call.func \in HashFunctions /\ RemoveRecord => FilterType'
<1> SUFFICES ASSUME TypeOK, call.func \in HashFunctions, RemoveRecord
             PROVE  FilterType'
  OBVIOUS
<1> DEFINE k == call.key  p == Pos[k][call.func]
<1>1. k \in Keys /\ call \in Calls
  BY DEF TypeOK, RemoveRecord, Running, RemoveOps
<1>2. p \in Positions /\ records[p] \in Record
  BY <1>1, PosType DEF TypeOK
<1>3. Count(p) > 1 => Shortened(records[p], k) \in Record
  BY <1>1, <1>2, ShortenedType DEF Count
<1>4. records' \in [Positions -> Record] /\ bits' \subseteq Positions
  BY <1>2, <1>3, NoRecordType DEF RemoveRecord, TypeOK
<1>5. call' \in Calls /\ call'.key = k
  BY <1>1, BloomAssumption DEF RemoveRecord, Calls, RemoveOps, HashFunctions
<1> QED
  BY <1>1, <1>4, <1>5 DEF FilterType

(* An invariant of the calls: remove stays within the hash functions. *)
LEMMA NextType == TypeOK /\ CallInStep /\ [Next]_vars => TypeOK'
<1> SUFFICES ASSUME TypeOK, CallInStep, [Next]_vars
             PROVE  FilterType' /\ FacadeType' /\ FlagType'
  BY DEF TypeOK, FilterType, FacadeType, FlagType
<1>1. FilterType /\ FacadeType /\ FlagType
  BY TypeParts
<1>2. Idle \in Calls /\ Idle.op = "idle" /\ "idle" \notin AddOps \cup RemoveOps
  BY CallType DEF Idle, AddOps, RemoveOps, NoKey
<1>3. ASSUME NEW k \in Keys, NEW data \in BOOLEAN, StartInsert(k, data),
             index' \subseteq Keys
      PROVE  FilterType' /\ FacadeType' /\ FlagType'
  <2>1. FilterType'
    BY <1>1, <1>3, CallType DEF StartInsert, StartAdd, FilterType, AddOps
  <2>2. FacadeType'
    BY <1>1, <1>3, FacadeAssumption DEF StartInsert, FacadeType
  <2>3. FlagType'
    BY <1>1, <1>3 DEF StartInsert, FlagType
  <2> QED
    BY <2>1, <2>2, <2>3
<1>4. ASSUME NEW k \in Keys, Insert(k)
      PROVE  FilterType' /\ FacadeType' /\ FlagType'
  BY <1>1, <1>3, <1>4 DEF Insert, FacadeType
<1>5. ASSUME NEW k \in Keys, InsertData(k)
      PROVE  FilterType' /\ FacadeType' /\ FlagType'
  <2>1. CASE StartInsert(k, TRUE) /\ index' = index \cup {k}
    BY <1>1, <1>3, <2>1 DEF FacadeType
  <2>2. CASE UNCHANGED <<bloomVars, trie, size, triesize, indexInUse, crashes,
                         inserts, history>> /\ index' = index \ {k}
    BY <1>1, <2>2
    DEF bloomVars, history, FilterType, FacadeType, FlagType, Count, Recorded
  <2> QED
    BY <1>5, <2>1, <2>2 DEF InsertData
<1>6. ASSUME NEW k \in Keys, Erase(k)
      PROVE  FilterType' /\ FacadeType' /\ FlagType'
  <2>1. FilterType'
    <3>1. CASE k \in trie
      <4>1. \/ call' = Call("remove", k, FALSE)
            \/ call' = Call("removed", k, FALSE)
        BY <1>6, <3>1 DEF Erase, StartRemove
      <4>2. /\ Call("remove", k, FALSE) \in Calls
            /\ Call("removed", k, FALSE) \in Calls
        BY BloomAssumption DEF Call, Calls, RemoveOps
      <4>3. /\ Call("remove", k, FALSE).key = k
            /\ Call("removed", k, FALSE).key = k
        BY DEF Call
      <4> QED
        BY <1>1, <1>6, <4>1, <4>2, <4>3 DEF Erase, FilterType
    <3>2. CASE k \notin trie
      BY <1>1, <1>6, <3>2 DEF Erase, FilterType
    <3> QED
      BY <3>1, <3>2
  <2>2. FacadeType'
    BY <1>1, <1>6 DEF Erase, FacadeType
  <2>3. FlagType'
    BY <1>1, <1>6, Zenon DEF Erase, FlagType
  <2> QED
    BY <2>1, <2>2, <2>3
<1>7. CASE Clear
  <2>1. call' \in Calls /\ call'.op \notin AddOps \cup RemoveOps
    BY <1>7, BloomAssumption
    DEF Clear, StartClear, Call, Calls, NoKey, ClearOps, AddOps, RemoveOps
  <2> QED
    BY <1>1, <1>7, <2>1 DEF Clear, FilterType, FacadeType, FlagType, history
<1>8. CASE FilterStep
  <2>1. FilterType' /\ itemCount' \in Nat
    BY <1>8, AddRecordType, AddBitsType, RemoveRecordType
    DEF FilterStep, TypeOK, AddRecord, RemoveRecord, CallInStep
  <2> QED
    BY <1>1, <1>8, <2>1
    DEF FilterStep, FacadeType, FlagType, facadeVars, history, AddRecord,
        AddBits, RemoveRecord
<1>9. CASE FilterCleared
  BY <1>1, <1>9, CallType, NoRecordType
  DEF FilterCleared, ClearFilter, FilterType, FacadeType, FlagType, ClearOps,
      AddOps, RemoveOps, NoKey, facadeVars
<1>10. CASE EndInsert
  <2>1. FilterType'
    BY <1>1, <1>2, <1>10 DEF EndInsert, FilterType
  <2>2. call.key \in Keys
    BY <1>1, <1>10 DEF EndInsert, FilterType, AddOps
  <2>3. FacadeType'
    BY <1>1, <1>10, <2>2 DEF EndInsert, FacadeType
  <2>4. FlagType'
    BY <1>1, <1>10, Zenon DEF EndInsert, FlagType
  <2> QED
    BY <2>1, <2>3, <2>4
<1>11. CASE EndErase
  BY <1>1, <1>2, <1>11 DEF EndErase, FilterType, FacadeType, FlagType, history
<1>12. CASE EndClear
  <2>1. FilterType' /\ FacadeType'
    BY <1>1, <1>2, <1>12 DEF EndClear, FilterType, FacadeType, history
  <2>2. FlagType'
    BY <1>1, <1>12, Zenon DEF EndClear, FlagType, history
  <2> QED
    BY <2>1, <2>2
<1>13. CASE Reopen
  <2>1. FilterType' /\ FacadeType'
    BY <1>1, <1>2, <1>13
    DEF Reopen, ReopenFilter, Open, FilterType, FacadeType, history, Recorded
  <2>2. FlagType'
    BY <1>1, <1>13, Zenon DEF Reopen, FlagType, history
  <2> QED
    BY <2>1, <2>2
<1>14. CASE Crash
  <2>1. FilterType'
    BY <1>1, <1>2, <1>14 DEF Crash, RestartFilter, Open, FilterType, Recorded
  <2>2. call.op \in {"add", "skipped", "thrown"} => call.key \in Keys
    BY <1>1 DEF FilterType, AddOps
  <2>3. FacadeType'
    BY <1>1, <1>14, <2>2, FacadeAssumption
    DEF Crash, RestartFilter, Open, FacadeType
  <2>4. FlagType'
    BY <1>1, <1>14, Zenon DEF Crash, FlagType
  <2> QED
    BY <2>1, <2>3, <2>4
<1>15. CASE UNCHANGED vars
  BY <1>1, <1>15
  DEF vars, bloomVars, facadeVars, history, FilterType, FacadeType, FlagType
<1> QED
  BY <1>4, <1>5, <1>6, <1>7, <1>8, <1>9, <1>10, <1>11, <1>12, <1>13, <1>14,
     <1>15, FacadeAssumption
  DEF Next

-----------------------------------------------------------------------------
(* The counts of the records, and the claims on them.                      *)

LEMMA CountType == TypeOK => \A p \in Positions : Count(p) \in Nat
<1> SUFFICES ASSUME TypeOK, NEW p \in Positions PROVE Count(p) \in Nat
  OBVIOUS
<1>1. records[p].entries \in Seq(Keys \cup {Junk})
  BY DEF TypeOK, Record
<1> QED
  BY <1>1, LenProperties DEF Count

(* What add does to the counts when it does not meet its key. *)
LEMMA AddRecordCounts ==
  ASSUME TypeOK, AddRecord, call'.op = "add",
         NEW p, p = Pos[call.key][call.func]
  PROVE  /\ call.key \in Keys /\ call.func \in HashFunctions
         /\ call' = [call EXCEPT !.func = call.func + 1]
         /\ p \in Positions /\ Count(p)' = Count(p) + 1
         /\ \A q \in Positions : q # p => Count(q)' = Count(q)
<1> DEFINE k == call.key
<1>1. k \in Keys /\ call.func \in HashFunctions /\ call \in Calls
  BY BloomAssumption
  DEF TypeOK, AddRecord, Running, AddOps, Calls, HashFunctions
<1>2. p \in Positions /\ records[p] \in Record
  BY <1>1, PosType DEF TypeOK
<1>3. call' # [call EXCEPT !.op = "skipped"]
  BY <1>1 DEF Calls
<1>4. /\ records' = [records EXCEPT ![p] = Appended(records[p], k)]
      /\ call' = [call EXCEPT !.func = call.func + 1]
  BY <1>3 DEF AddRecord
<1>5. records'[p] = Appended(records[p], k)
  BY <1>2, <1>4 DEF TypeOK
<1>6. \A q \in Positions : q # p => records'[q] = records[q]
  BY <1>4 DEF TypeOK
<1> QED
  BY <1>1, <1>2, <1>4, <1>5, <1>6, AppendedType DEF Count

(* What remove does to the counts. *)
LEMMA RemoveRecordCounts ==
  ASSUME TypeOK, RemoveRecord, call.func \in HashFunctions,
         NEW p, p = Pos[call.key][call.func]
  PROVE  /\ call.key \in Keys /\ p \in Positions
         /\ Count(p) > 1 => Count(p)' >= Count(p) - 1 /\ Count(p)' > 0
         /\ Count(p) <= 1 => Count(p)' = 0
         /\ \A q \in Positions : q # p => Count(q)' = Count(q)
<1> DEFINE k == call.key
<1>1. k \in Keys
  BY DEF TypeOK, RemoveRecord, Running, RemoveOps
<1>2. p \in Positions /\ records[p] \in Record /\ Count(p) \in Nat
  BY <1>1, PosType, CountType DEF TypeOK
<1>3. \A q \in Positions : q # p => records'[q] = records[q]
  BY DEF RemoveRecord, TypeOK
<1>4. CASE Count(p) > 1
  <2>1. records'[p] = Shortened(records[p], k)
    BY <1>2, <1>4 DEF RemoveRecord, TypeOK
  <2> QED
    BY <2>1, <1>1, <1>2, <1>3, <1>4, ShortenedType DEF Count
<1>5. CASE Count(p) = 1
  <2>1. records'[p] = NoRecord
    BY <1>2, <1>5 DEF RemoveRecord, TypeOK
  <2> QED
    BY <2>1, <1>1, <1>2, <1>3, <1>5, NoRecordType DEF Count
<1>6. CASE Count(p) = 0
  <2>1. records' = records
    BY <1>2, <1>6 DEF RemoveRecord
  <2> QED
    BY <2>1, <1>1, <1>2, <1>3, <1>6 DEF Count
<1> QED
  BY <1>2, <1>4, <1>5, <1>6

(* There are finitely many claims on a position. *)
LEMMA ClaimsFinite ==
  \A p : IsFiniteSet(Claims(p)) /\ Cardinality(Claims(p)) \in Nat
<1> SUFFICES ASSUME NEW p
             PROVE  IsFiniteSet(Claims(p)) /\ Cardinality(Claims(p)) \in Nat
  OBVIOUS
<1>1. IsFiniteSet(HashFunctions)
  BY BloomAssumption, FS_Interval DEF HashFunctions
<1>2. IsFiniteSet(Keys \X HashFunctions)
  BY <1>1, BloomAssumption, FS_Product
<1>3. Claims(p) \in SUBSET (Keys \X HashFunctions)
  BY DEF Claims
<1> QED
  BY <1>2, <1>3, FS_Subset, FS_CardinalityType

(* One more element. *)
LEMMA AddedElement ==
  ASSUME NEW S, IsFiniteSet(S), NEW x
  PROVE  /\ IsFiniteSet(S \cup {x})
         /\ Cardinality(S \cup {x}) <= Cardinality(S) + 1
         /\ Cardinality(S \cup {x}) \in Nat
<1>1. Cardinality(S) \in Nat
  BY FS_CardinalityType
<1>2. /\ IsFiniteSet(S \cup {x})
      /\ \/ Cardinality(S \cup {x}) = Cardinality(S)
         \/ Cardinality(S \cup {x}) = Cardinality(S) + 1
  BY FS_AddElement
<1> QED
  BY <1>1, <1>2

(* A key whose claim is granted has a record at its position. *)
LEMMA ClaimIsCounted ==
  ASSUME TypeOK, RecordsCount, ~damaged,
         NEW k \in Keys, NEW i \in HashFunctions, Claimed(k, i)
  PROVE  Pos[k][i] \in Recorded
<1> DEFINE p == Pos[k][i]
<1>1. p \in Positions /\ Count(p) \in Nat
  BY PosType, CountType
<1>2. <<k, i>> \in Claims(p)
  BY DEF Claims
<1>3. Cardinality(Claims(p)) # 0
  BY <1>2, ClaimsFinite, FS_EmptySet
<1>4. Count(p) >= Cardinality(Claims(p))
  BY <1>1 DEF RecordsCount
<1> QED
  BY <1>1, <1>3, <1>4, ClaimsFinite DEF Recorded

(* Most steps write no record and grant no claim. *)
NoNewClaims ==
  /\ ~damaged' => ~damaged
  /\ ~damaged' => \A k \in Settled' : k \in Settled
  /\ ~damaged' =>
       \A k \in Keys, i \in HashFunctions : Claimed(k, i)' => Claimed(k, i)

LEMMA FewerClaims ==
  ASSUME TypeOK, RecordsCount, UNCHANGED records, NoNewClaims
  PROVE  RecordsCount'
<1> SUFFICES ASSUME ~damaged', NEW p \in Positions
             PROVE  Count(p)' >= Cardinality(Claims(p)')
  BY DEF RecordsCount
<1>1. Count(p)' = Count(p) /\ Count(p) >= Cardinality(Claims(p))
  BY DEF RecordsCount, Count, NoNewClaims
<1>2. Claims(p)' \in SUBSET Claims(p)
  BY DEF Claims, NoNewClaims
<1>3. Cardinality(Claims(p)') <= Cardinality(Claims(p))
  BY <1>2, ClaimsFinite, FS_Subset
<1>4. IsFiniteSet(Claims(p)') /\ Cardinality(Claims(p)') \in Nat
  BY <1>2, ClaimsFinite, FS_Subset, FS_CardinalityType
<1> QED
  BY <1>1, <1>3, <1>4, ClaimsFinite, CountType

LEMMA QuietStep ==
  ASSUME TypeOK, BitsHaveRecords, RecordsCount, FindsMembers,
         UNCHANGED <<records, bits>>, NoNewClaims
  PROVE  BitsHaveRecords' /\ RecordsCount' /\ FindsMembers'
<1>1. BitsHaveRecords'
  BY DEF BitsHaveRecords, Recorded, Count
<1>2. RecordsCount'
  BY FewerClaims
<1>3. FindsMembers'
  BY DEF FindsMembers, NoNewClaims, Contains
<1> QED
  BY <1>1, <1>2, <1>3

-----------------------------------------------------------------------------
(* The steps that are quiet in this sense.                                 *)

LEMMA CallFields ==
  ASSUME NEW op, NEW k, NEW data
  PROVE  /\ Call(op, k, data).op = op
         /\ Call(op, k, data).key = k
         /\ Call(op, k, data).func = 1
BY DEF Call

LEMMA IdleFields == Idle.op = "idle"
BY DEF Idle, Call

LEMMA StartInsertQuiet ==
  ASSUME SetInv, call = Idle, NEW k \in Keys, NEW data, StartInsert(k, data)
  PROVE  NoNewClaims /\ CallInStep'
<1>1. call.op = "idle" /\ call'.op = "add" /\ call'.key = k /\ call'.func = 1
  BY CallFields, IdleFields DEF StartInsert, StartAdd
<1>2. Settled = trie \ incomplete /\ Settled' = trie' \ (incomplete' \cup {k})
  BY <1>1 DEF Settled
<1>3. Settled' \subseteq Settled /\ k \notin Settled'
  BY <1>2 DEF StartInsert
<1>4. ASSUME NEW j \in Keys, NEW i \in HashFunctions, Claimed(j, i)'
      PROVE  Claimed(j, i)
  <2>1. j = k => i < 1
    BY <1>1, <1>4 DEF Claimed, Running
  <2>2. j # k => j \in Settled'
    BY <1>1, <1>4 DEF Claimed, Running
  <2> QED
    BY <1>1, <1>3, <2>1, <2>2, BloomAssumption
    DEF Claimed, Running, HashFunctions
<1>5. damaged' = damaged
  BY DEF StartInsert
<1>6. CallInStep'
  BY <1>1, BloomAssumption
  DEF CallInStep, Running, StartInsert, ClearOps, HashFunctions
<1> QED
  BY <1>3, <1>4, <1>5, <1>6 DEF NoNewClaims

LEMMA AddGivesUpQuiet ==
  ASSUME SetInv, FilterStep, Running("add"), call'.op \in {"skipped", "thrown"}
  PROVE  NoNewClaims /\ CallInStep' /\ UNCHANGED <<records, bits>>
<1>1. /\ call \in Calls
      /\ AddRecord \/ AddBits
      /\ UNCHANGED <<trie, incomplete, damaged>>
  BY DEF SetInv, TypeOK, FilterStep, RemoveRecord, Running, facadeVars, history
<1>2. /\ UNCHANGED <<records, bits>>
      /\ call'.key = call.key
  BY <1>1 DEF AddRecord, AddBits, Calls, Running
<1>3. Settled' = Settled
  BY <1>1, <1>2 DEF Settled, Running
<1>4. ASSUME NEW j \in Keys, NEW i \in HashFunctions, Claimed(j, i)'
      PROVE  Claimed(j, i)
  <2>1. j \in Settled
    BY <1>3, <1>4 DEF Claimed, Running
  <2> QED
    BY <2>1 DEF Claimed, Running, Settled
<1>5. CallInStep'
  BY <1>1 DEF CallInStep, Running, ClearOps
<1> QED
  BY <1>1, <1>2, <1>3, <1>4, <1>5 DEF NoNewClaims

LEMMA EndInsertQuiet ==
  ASSUME SetInv, EndInsert
  PROVE  NoNewClaims /\ CallInStep'
<1>1. /\ call.op \in {"added", "skipped", "thrown"}
      /\ call'.op = "idle"
      /\ UNCHANGED <<trie, damaged>>
  BY IdleFields DEF EndInsert
<1>2. Settled' = Settled
  BY <1>1 DEF Settled, EndInsert, Running
<1>3. \A j, i : Claimed(j, i)' <=> Claimed(j, i)
  BY <1>1, <1>2 DEF Claimed, Running
<1>4. CallInStep'
  BY <1>1 DEF CallInStep, Running, ClearOps
<1> QED
  BY <1>1, <1>2, <1>3, <1>4 DEF NoNewClaims

LEMMA EraseQuiet ==
  ASSUME SetInv, NEW k \in Keys, Erase(k)
  PROVE  NoNewClaims /\ CallInStep'
<1>1. call.op = "idle" /\ Settled = trie \ incomplete /\ trie' \subseteq trie
  BY IdleFields DEF Erase, Settled
<1>2. \A j, i : Claimed(j, i) <=> j \in Settled
  BY <1>1 DEF Claimed, Running
<1>3. CASE k \in trie
  <2>1. /\ call'.op \in RemoveOps /\ call'.key = k /\ call'.func = 1
        /\ trie' \subseteq trie \ {k}
        /\ UNCHANGED incomplete
    BY <1>3 DEF Erase, StartRemove, RemoveOps, Call
  <2>2. Settled' = trie' \ incomplete
    BY <2>1 DEF Settled, RemoveOps
  <2>3. Settled' \subseteq Settled /\ k \notin Settled'
    BY <1>1, <2>1, <2>2
  <2>4. ~damaged' => ~damaged /\ k \notin incomplete
    BY <1>3, Zenon DEF Erase
  <2>5. ASSUME ~damaged', NEW j \in Keys, NEW i \in HashFunctions, Claimed(j, i)'
        PROVE  Claimed(j, i)
    <3>1. j = k \/ j \in Settled'
      BY <2>5, <2>1 DEF Claimed, Running, RemoveOps
    <3> QED
      BY <1>1, <1>2, <1>3, <2>3, <2>4, <2>5, <3>1
  <2>6. CallInStep'
    BY <2>1, BloomAssumption
    DEF CallInStep, Running, RemoveOps, ClearOps, HashFunctions
  <2> QED
    BY <2>3, <2>4, <2>5, <2>6 DEF NoNewClaims
<1>4. CASE k \notin trie
  <2>1. UNCHANGED <<call, damaged, incomplete>>
    BY <1>4 DEF Erase
  <2>2. Settled' \subseteq Settled
    BY <1>1, <2>1 DEF Settled
  <2>3. \A j, i : Claimed(j, i)' <=> j \in Settled'
    BY <1>1, <2>1 DEF Claimed, Running
  <2>4. CallInStep'
    BY <1>1, <2>1 DEF CallInStep, Running, ClearOps
  <2> QED
    BY <1>2, <2>1, <2>2, <2>3, <2>4 DEF NoNewClaims
<1> QED
  BY <1>3, <1>4

LEMMA EndEraseQuiet ==
  ASSUME SetInv, EndErase
  PROVE  NoNewClaims /\ CallInStep'
<1>1. /\ call.op = "removed" /\ call'.op = "idle"
      /\ UNCHANGED <<trie, incomplete, damaged>>
  BY IdleFields DEF EndErase, history, Running
<1>2. Settled' = Settled
  BY <1>1 DEF Settled
<1>3. \A j, i : Claimed(j, i)' <=> Claimed(j, i)
  BY <1>1, <1>2 DEF Claimed, Running
<1>4. CallInStep'
  BY <1>1 DEF CallInStep, Running, ClearOps
<1> QED
  BY <1>1, <1>2, <1>3, <1>4 DEF NoNewClaims

LEMMA ClearQuiet ==
  ASSUME SetInv, Clear \/ EndClear
  PROVE  NoNewClaims /\ CallInStep'
<1>1. /\ call'.op \in {"clear", "idle"} /\ trie' = {} /\ UNCHANGED damaged
  <2>1. CASE Clear
    BY <2>1 DEF Clear, StartClear, Call, history
  <2>2. CASE EndClear
    BY <2>2, IdleFields
    DEF EndClear, SetInv, CallInStep, Running, ClearOps, history
  <2> QED
    BY <2>1, <2>2
<1>2. Settled' = {}
  BY <1>1 DEF Settled
<1>3. \A j, i : ~Claimed(j, i)'
  BY <1>1, <1>2 DEF Claimed, Running
<1>4. CallInStep'
  BY <1>1 DEF CallInStep, Running, ClearOps
<1> QED
  BY <1>1, <1>2, <1>3, <1>4 DEF NoNewClaims

LEMMA RestartClaims ==
  ASSUME SetInv, Reopen \/ Crash
  PROVE  NoNewClaims /\ CallInStep' /\ UNCHANGED records /\ bits' = Recorded
<1>1. /\ call'.op = "idle" /\ UNCHANGED <<records, trie, damaged>>
      /\ bits' = Recorded
  BY IdleFields
  DEF Reopen, Crash, ReopenFilter, RestartFilter, Open, history
<1>2. Settled' = trie \ incomplete'
  BY <1>1 DEF Settled
<1>3. incomplete' = IF call.op \in {"add", "skipped", "thrown"}
                      THEN incomplete \cup {call.key} ELSE incomplete
  BY IdleFields DEF Reopen, Crash, history
<1>4. Settled' = Settled
  BY <1>2, <1>3 DEF Settled
<1>5. ASSUME NEW j \in Keys, NEW i \in HashFunctions, Claimed(j, i)'
      PROVE  Claimed(j, i)
  <2>1. j \in Settled
    BY <1>1, <1>4, <1>5 DEF Claimed, Running
  <2> QED
    BY <2>1 DEF Claimed, Running, Settled, SetInv, CallInStep
<1>6. CallInStep'
  BY <1>1 DEF CallInStep, Running, ClearOps
<1> QED
  BY <1>1, <1>4, <1>5, <1>6 DEF NoNewClaims

-----------------------------------------------------------------------------
(* The steps that write records or bits.                                   *)

Rest == CallInStep /\ BitsHaveRecords /\ RecordsCount /\ FindsMembers

LEMMA RestartStep ==
  ASSUME SetInv, Reopen \/ Crash
  PROVE  Rest'
<1>1. NoNewClaims /\ CallInStep' /\ UNCHANGED records /\ bits' = Recorded
  BY RestartClaims
<1>2. RecordsCount'
  BY <1>1, FewerClaims DEF SetInv
<1>3. BitsHaveRecords'
  BY <1>1 DEF BitsHaveRecords, Recorded, Count
<1>4. ASSUME ~damaged', NEW k \in Settled', NEW i \in HashFunctions
      PROVE  Pos[k][i] \in bits'
  <2>1. ~damaged /\ k \in Settled /\ k \in Keys
    BY <1>1, <1>4 DEF NoNewClaims, Settled, SetInv, TypeOK
  <2>2. Claimed(k, i)
    BY <2>1 DEF Claimed, Running, Settled, SetInv, CallInStep
  <2> QED
    BY <1>1, <2>1, <2>2, ClaimIsCounted DEF SetInv
<1>5. FindsMembers'
  BY <1>4 DEF FindsMembers, Contains
<1> QED
  BY <1>1, <1>2, <1>3, <1>5 DEF Rest

LEMMA FilterClearedStep ==
  ASSUME SetInv, FilterCleared
  PROVE  Rest'
<1>1. /\ trie' = {} /\ call'.op = "cleared" /\ bits' = {}
      /\ records' = [p \in Positions |-> NoRecord]
  BY DEF FilterCleared, ClearFilter, Call, SetInv, CallInStep, Running, ClearOps,
         facadeVars
<1>2. Settled' = {}
  BY <1>1 DEF Settled
<1>3. \A p : Claims(p)' = {}
  BY <1>1, <1>2 DEF Claims, Claimed, Running
<1>4. \A p \in Positions : Count(p)' = 0
  BY <1>1, NoRecordType DEF Count
<1>5. RecordsCount'
  BY <1>3, <1>4, FS_EmptySet DEF RecordsCount
<1>6. CallInStep'
  BY <1>1 DEF CallInStep, Running, ClearOps
<1> QED
  BY <1>1, <1>2, <1>5, <1>6 DEF Rest, BitsHaveRecords, FindsMembers

LEMMA AddRecordStep ==
  ASSUME SetInv, FilterStep, AddRecord, call'.op = "add"
  PROVE  Rest'
<1> DEFINE k == call.key  f == call.func
<1>1. PICK p : p = Pos[k][f]
  OBVIOUS
<1>2. /\ k \in Keys /\ f \in HashFunctions /\ p \in Positions
      /\ call' = [call EXCEPT !.func = f + 1]
      /\ Count(p)' = Count(p) + 1
      /\ \A q \in Positions : q # p => Count(q)' = Count(q)
  BY <1>1, AddRecordCounts DEF SetInv
<1>3. /\ call.op = "add" /\ call'.key = k /\ call'.func = f + 1
      /\ UNCHANGED <<bits, trie, incomplete, damaged>>
  BY <1>2 DEF SetInv, TypeOK, Calls, AddRecord, Running, FilterStep, facadeVars,
              history
<1>4. \A q \in Positions : Count(q) \in Nat
  BY CountType DEF SetInv
<1>5. Recorded \cup {p} \subseteq Recorded'
  BY <1>2, <1>4 DEF Recorded
<1>6. Settled' = Settled
  BY <1>3 DEF Settled
<1>7. \A j \in Keys, i \in HashFunctions :
        Claimed(j, i)' => Claimed(j, i) \/ (j = k /\ i = f)
  BY <1>2, <1>3, <1>6 DEF Claimed, Running, HashFunctions
<1>8. RecordsCount'
  <2> SUFFICES ASSUME ~damaged', NEW q \in Positions
               PROVE  Count(q)' >= Cardinality(Claims(q)')
    BY DEF RecordsCount
  <2>1. Count(q) >= Cardinality(Claims(q))
    BY <1>3 DEF SetInv, RecordsCount
  <2>2. CASE q = p
    <3>1. Claims(q)' \in SUBSET (Claims(q) \cup {<<k, f>>})
      <4>1. ASSUME NEW c \in Claims(q)' PROVE c \in Claims(q) \cup {<<k, f>>}
        <5>1. /\ c \in Keys \X HashFunctions /\ Pos[c[1]][c[2]] = q
              /\ Claimed(c[1], c[2]) \/ (c[1] = k /\ c[2] = f)
          BY <1>7, <4>1 DEF Claims
        <5>2. c = <<c[1], c[2]>>
          BY <5>1
        <5> QED
          BY <5>1, <5>2 DEF Claims
      <4> QED
        BY <4>1
    <3>2. /\ IsFiniteSet(Claims(q) \cup {<<k, f>>})
          /\ Cardinality(Claims(q) \cup {<<k, f>>}) <= Cardinality(Claims(q)) + 1
          /\ Cardinality(Claims(q) \cup {<<k, f>>}) \in Nat
      BY ClaimsFinite, AddedElement
    <3>3. /\ Cardinality(Claims(q)') <= Cardinality(Claims(q) \cup {<<k, f>>})
          /\ Cardinality(Claims(q)') \in Nat
      BY <3>1, <3>2, FS_Subset, FS_CardinalityType
    <3> QED
      BY <1>2, <1>4, <2>1, <2>2, <3>2, <3>3, ClaimsFinite
  <2>3. CASE q # p
    <3>1. Claims(q)' \in SUBSET Claims(q)
      BY <1>1, <1>7, <2>3 DEF Claims
    <3>2. /\ Cardinality(Claims(q)') <= Cardinality(Claims(q))
          /\ Cardinality(Claims(q)') \in Nat
      BY <3>1, ClaimsFinite, FS_Subset, FS_CardinalityType
    <3> QED
      BY <1>2, <1>4, <2>1, <2>3, <3>2, ClaimsFinite
  <2> QED
    BY <2>2, <2>3
<1>9. CallInStep'
  <2>1. \A i \in HashFunctions : i < f + 1 => Pos[k][i] \in Recorded'
    BY <1>1, <1>2, <1>3, <1>5 DEF SetInv, CallInStep, Running, HashFunctions
  <2> QED
    BY <1>3, <2>1 DEF SetInv, CallInStep, Running, ClearOps
<1>10. BitsHaveRecords' /\ FindsMembers'
  BY <1>3, <1>5, <1>6 DEF SetInv, BitsHaveRecords, FindsMembers, Contains
<1> QED
  BY <1>8, <1>9, <1>10 DEF Rest

LEMMA AddBitsStep ==
  ASSUME SetInv, FilterStep, AddBits, call'.op = "added"
  PROVE  Rest'
<1> DEFINE k == call.key
<1>1. /\ call \in Calls /\ call.op = "add" /\ k \in Keys
      /\ call.func > FunctionCount
      /\ UNCHANGED <<records, trie, incomplete, damaged>>
  BY DEF SetInv, TypeOK, AddBits, Running, AddOps, FilterStep, facadeVars, history
<1>2. call'.key = k /\ bits' = bits \cup Range(Pos[k])
  BY <1>1 DEF AddBits, Calls
<1>3. \A i \in HashFunctions : i < call.func
  BY <1>1, BloomAssumption DEF HashFunctions, Calls
<1>4. Range(Pos[k]) = {Pos[k][i] : i \in HashFunctions}
  BY <1>1, BloomAssumption DEF Range
<1>5. BitsHaveRecords'
  <2>1. Range(Pos[k]) \subseteq Recorded
    BY <1>1, <1>3, <1>4 DEF SetInv, CallInStep, Running
  <2> QED
    BY <1>1, <1>2, <2>1 DEF SetInv, BitsHaveRecords, Recorded, Count
<1>6. k \in trie \ incomplete
  BY <1>1 DEF SetInv, CallInStep
<1>7. Settled' = Settled \cup {k}
  BY <1>1, <1>2, <1>6 DEF Settled
<1>8. \A j \in Keys, i \in HashFunctions : Claimed(j, i)' => Claimed(j, i)
  BY <1>1, <1>2, <1>3, <1>7 DEF Claimed, Running
<1>9. RecordsCount'
  <2> SUFFICES ASSUME ~damaged', NEW q \in Positions
               PROVE  Count(q)' >= Cardinality(Claims(q)')
    BY DEF RecordsCount
  <2>1. Count(q) >= Cardinality(Claims(q)) /\ Count(q)' = Count(q)
    BY <1>1 DEF SetInv, RecordsCount, Count
  <2>2. Claims(q)' \in SUBSET Claims(q)
    BY <1>8 DEF Claims
  <2>3. /\ Cardinality(Claims(q)') <= Cardinality(Claims(q))
        /\ Cardinality(Claims(q)') \in Nat
    BY <2>2, ClaimsFinite, FS_Subset, FS_CardinalityType
  <2> QED
    BY <2>1, <2>3, ClaimsFinite, CountType DEF SetInv
<1>10. FindsMembers'
  BY <1>1, <1>2, <1>4, <1>7 DEF SetInv, FindsMembers, Contains
<1>11. CallInStep'
  BY <1>1, <1>2, <1>6 DEF CallInStep, Running, ClearOps
<1> QED
  BY <1>5, <1>9, <1>10, <1>11 DEF Rest

(* The heart of the matter: when remove deletes a record and clears its    *)
(* bit, the claim of its own key was the only one.                         *)
LEMMA RemoveRecordStep ==
  ASSUME SetInv, FilterStep, RemoveRecord
  PROVE  Rest'
<1> DEFINE k == call.key  f == call.func
<1>1. PICK p : p = Pos[k][f]
  OBVIOUS
<1>2. f \in HashFunctions /\ k \notin trie /\ call.op = "remove" /\ call \in Calls
  BY DEF SetInv, TypeOK, CallInStep, RemoveRecord, Running
<1>3. /\ k \in Keys /\ p \in Positions
      /\ Count(p) > 1 => Count(p)' >= Count(p) - 1 /\ Count(p)' > 0
      /\ Count(p) <= 1 => Count(p)' = 0
      /\ \A q \in Positions : q # p => Count(q)' = Count(q)
  BY <1>1, <1>2, RemoveRecordCounts DEF SetInv
<1>4. /\ UNCHANGED <<trie, incomplete, damaged>>
      /\ call'.key = k
      /\ \/ f = FunctionCount /\ call'.op = "removed"
         \/ f # FunctionCount /\ call'.op = "remove" /\ call'.func = f + 1
  BY <1>2 DEF RemoveRecord, Calls, FilterStep, facadeVars, history
<1>5. \A q \in Positions : Count(q) \in Nat
  BY CountType DEF SetInv
<1>6. Settled' = Settled /\ k \notin Settled
  BY <1>2, <1>4 DEF Settled
<1>7. Claimed(k, f)
  BY <1>2 DEF Claimed, Running, HashFunctions
<1>8. \A j \in Keys, i \in HashFunctions :
        Claimed(j, i)' => Claimed(j, i) /\ ~(j = k /\ i = f)
  BY <1>2, <1>4, <1>6, BloomAssumption DEF Claimed, Running, HashFunctions
<1>9. <<k, f>> \in Claims(p)
  BY <1>1, <1>2, <1>3, <1>7 DEF Claims
<1>10. /\ \A q : Claims(q)' \in SUBSET Claims(q)
       /\ Claims(p)' \in SUBSET (Claims(p) \ {<<k, f>>})
  BY <1>8 DEF Claims
<1>11. \A q : /\ Cardinality(Claims(q)') <= Cardinality(Claims(q))
              /\ IsFiniteSet(Claims(q)')
              /\ Cardinality(Claims(q)') \in Nat
  BY <1>10, ClaimsFinite, FS_Subset, FS_CardinalityType
<1>12. Cardinality(Claims(p)') <= Cardinality(Claims(p)) - 1
  <2>1. /\ IsFiniteSet(Claims(p) \ {<<k, f>>})
        /\ Cardinality(Claims(p) \ {<<k, f>>}) = Cardinality(Claims(p)) - 1
    BY <1>9, ClaimsFinite, FS_RemoveElement
  <2> QED
    BY <1>10, <2>1, FS_Subset
<1>13. RecordsCount'
  <2> SUFFICES ASSUME ~damaged', NEW q \in Positions
               PROVE  Count(q)' >= Cardinality(Claims(q)')
    BY DEF RecordsCount
  <2>1. Count(q) >= Cardinality(Claims(q)) /\ Cardinality(Claims(q)) \in Nat
    BY <1>4, ClaimsFinite DEF SetInv, RecordsCount
  <2>2. CASE q # p
    BY <1>3, <1>5, <1>11, <2>1, <2>2
  <2>3. CASE q = p /\ Count(p) > 1
    <3>1. Count(p)' \in Nat
      <4>1. records' \in [Positions -> Record]
        BY RemoveRecordType, <1>2 DEF SetInv, FilterType
      <4>2. records'[p].entries \in Seq(Keys \cup {Junk})
        BY <4>1, <1>3 DEF Record
      <4> QED
        BY <4>2, LenProperties DEF Count
    <3> QED
      BY <1>3, <1>5, <1>11, <1>12, <2>1, <2>3, <3>1
  <2>4. CASE q = p /\ Count(p) <= 1
    BY <1>3, <1>5, <1>11, <1>12, <2>1, <2>4
  <2> QED
    BY <1>3, <1>5, <2>2, <2>3, <2>4
<1>14. bits' = bits \/ (bits' = bits \ {p} /\ Count(p) = 1)
  BY <1>1 DEF RemoveRecord
<1>15. BitsHaveRecords'
  <2> SUFFICES ASSUME NEW q \in bits' PROVE q \in Recorded'
    BY DEF BitsHaveRecords
  <2>1. q \in bits /\ q \in Positions /\ Count(q) > 0
    BY <1>14 DEF SetInv, BitsHaveRecords, Recorded
  <2>2. q = p => Count(p) > 1
    BY <1>1, <1>3, <1>5, <2>1 DEF RemoveRecord
  <2> QED
    BY <1>3, <2>1, <2>2 DEF Recorded
<1>16. FindsMembers'
  <2> SUFFICES ASSUME ~damaged', NEW j \in Settled', NEW i \in HashFunctions
               PROVE  Pos[j][i] \in bits'
    BY DEF FindsMembers, Contains
  <2>1. Pos[j][i] \in bits
    BY <1>4, <1>6 DEF SetInv, FindsMembers, Contains
  <2>2. CASE Pos[j][i] = p
    <3>1. j \in Keys /\ j # k
      BY <1>6 DEF Settled, SetInv, TypeOK
    <3>2. Claimed(j, i)'
      BY <1>4, <3>1 DEF Claimed, Running
    <3>3. <<j, i>> \in Claims(p)'
      BY <2>2, <3>1, <3>2 DEF Claims
    <3>4. Cardinality(Claims(p)') # 0
      BY <1>11, <3>3, FS_EmptySet
    <3>5. Count(p) > 1
      BY <1>3, <1>4, <1>5, <1>11, <1>12, <3>4, ClaimsFinite
      DEF SetInv, RecordsCount
    <3> QED
      BY <1>14, <2>1, <3>5
  <2> QED
    BY <1>14, <2>1, <2>2
<1>17. CallInStep'
  BY <1>2, <1>4, BloomAssumption DEF CallInStep, Running, ClearOps, HashFunctions
<1> QED
  BY <1>13, <1>15, <1>16, <1>17 DEF Rest

-----------------------------------------------------------------------------
(* The inductive invariant, and what follows from it.                      *)

LEMMA InitSetInv == Init => SetInv
<1> SUFFICES ASSUME Init PROVE SetInv
  OBVIOUS
<1>1. TypeOK
  BY InitType
<1>2. call.op = "idle" /\ trie = {} /\ bits = {}
  BY IdleFields DEF Init, BloomInit
<1>3. Settled = {}
  BY <1>2 DEF Settled
<1>4. \A p : Claims(p) = {}
  BY <1>2, <1>3 DEF Claims, Claimed, Running
<1>5. RecordsCount
  BY <1>1, <1>4, FS_EmptySet, CountType DEF RecordsCount
<1> QED
  BY <1>1, <1>2, <1>3, <1>5
  DEF SetInv, CallInStep, Running, ClearOps, BitsHaveRecords, FindsMembers

LEMMA NextSetInv == SetInv /\ [Next]_vars => SetInv'
<1> SUFFICES ASSUME SetInv, [Next]_vars PROVE SetInv'
  OBVIOUS
<1>1. TypeOK'
  BY NextType DEF SetInv
<1> SUFFICES Rest'
  BY <1>1 DEF SetInv, Rest
<1>2. ASSUME NoNewClaims, CallInStep', UNCHANGED <<records, bits>> PROVE Rest'
  BY <1>2, QuietStep DEF SetInv, Rest
<1>3. ASSUME NEW k \in Keys, Insert(k) PROVE Rest'
  BY <1>2, <1>3, StartInsertQuiet DEF Insert, StartInsert
<1>4. ASSUME UNCHANGED <<records, bits, call, trie, incomplete, damaged>>
      PROVE  Rest'
  <2>1. Settled' = Settled
    BY <1>4 DEF Settled
  <2>2. \A j, i : Claimed(j, i)' <=> Claimed(j, i)
    BY <1>4, <2>1 DEF Claimed, Running
  <2>3. CallInStep'
    BY <1>4 DEF SetInv, CallInStep, Running, Recorded, Count
  <2> QED
    BY <1>2, <1>4, <2>1, <2>2, <2>3 DEF NoNewClaims
<1>5. ASSUME NEW k \in Keys, InsertData(k) PROVE Rest'
  <2>1. CASE StartInsert(k, TRUE)
    BY <1>2, <1>5, <2>1, StartInsertQuiet DEF InsertData, StartInsert
  <2>2. CASE UNCHANGED <<bloomVars, trie, size, triesize, indexInUse, crashes,
                         inserts, history>>
    BY <1>4, <2>2 DEF bloomVars, history
  <2> QED
    BY <1>5, <2>1, <2>2 DEF InsertData
<1>6. ASSUME NEW k \in Keys, Erase(k) PROVE Rest'
  BY <1>2, <1>6, EraseQuiet DEF Erase
<1>7. CASE Clear \/ EndClear
  BY <1>2, <1>7, ClearQuiet DEF Clear, EndClear
<1>8. CASE FilterStep
  <2>1. CASE AddRecord
    <3>1. call'.op \in {"add", "skipped"} /\ Running("add")
      BY <2>1 DEF AddRecord, Running, SetInv, TypeOK, Calls
    <3> QED
      BY <1>2, <1>8, <2>1, <3>1, AddRecordStep, AddGivesUpQuiet
  <2>2. CASE AddBits
    <3>1. call'.op \in {"added", "thrown"} /\ Running("add")
      BY <2>2 DEF AddBits, Running, SetInv, TypeOK, Calls
    <3> QED
      BY <1>2, <1>8, <2>2, <3>1, AddBitsStep, AddGivesUpQuiet
  <2>3. CASE RemoveRecord
    BY <1>8, <2>3, RemoveRecordStep
  <2> QED
    BY <1>8, <2>1, <2>2, <2>3 DEF FilterStep
<1>9. CASE FilterCleared
  BY <1>9, FilterClearedStep
<1>10. CASE EndInsert
  BY <1>2, <1>10, EndInsertQuiet DEF EndInsert
<1>11. CASE EndErase
  BY <1>2, <1>11, EndEraseQuiet DEF EndErase
<1>12. CASE Reopen \/ Crash
  BY <1>12, RestartStep
<1>13. CASE UNCHANGED vars
  BY <1>4, <1>13 DEF vars, bloomVars, facadeVars, history
<1> QED
  BY <1>3, <1>5, <1>6, <1>7, <1>8, <1>9, <1>10, <1>11, <1>12, <1>13,
     FacadeAssumption
  DEF Next

(* The invariant holds throughout.                                         *)
LEMMA SetInvAlways == Spec => []SetInv
BY InitSetInv, NextSetInv, PTL DEF Spec

(* Every variable of the set, its trie, its filter and its index keeps its *)
(* type; in particular a record of the filter always has whole entries and *)
(* less than a hash behind them, although remove cuts off single bytes.    *)
THEOREM TypeCorrect == Spec => []TypeOK
<1>1. SetInv => TypeOK
  BY DEF SetInv
<1> QED
  BY <1>1, SetInvAlways, PTL

(* KeyValueCountingBloomFilter: no bit is set without a record behind it,  *)
(* between any two writes and whatever exception or crash cuts an          *)
(* operation short.                                                        *)
THEOREM BitsAlwaysHaveRecords == Spec => []BitsHaveRecords
<1>1. SetInv => BitsHaveRecords
  BY DEF SetInv
<1> QED
  BY <1>1, SetInvAlways, PTL

(* KeyValueCountingBloomFilter::remove: cutting a byte off a record in the *)
(* place of a hash never makes the record too short for the keys that rely *)
(* on it.                                                                  *)
THEOREM RecordsAlwaysCount == Spec => []RecordsCount
<1>1. SetInv => RecordsCount
  BY DEF SetInv
<1> QED
  BY <1>1, SetInvAlways, PTL

(* Set::find has no false negatives but those that begin with an insertion *)
(* that was cut short - for every assignment of positions to keys, every   *)
(* hash size, and any sequence of insertions, erasures, restarts and       *)
(* crashes.                                                                *)
THEOREM FindIsRight == Spec => []FindsMembers
<1>1. SetInv => FindsMembers
  BY DEF SetInv
<1> QED
  BY <1>1, SetInvAlways, PTL

(* Opening a set again, in order or after a crash, hides no key that was   *)
(* found before.                                                           *)
THEOREM RestartsHideNothing == Spec => RestartHidesNothing
<1>1. SetInv /\ [Next]_vars =>
        [Reopen \/ Crash => \A k \in trie : Contains(k) => Contains(k)']_vars
  <2> SUFFICES ASSUME SetInv, Reopen \/ Crash, NEW k \in trie, Contains(k)
               PROVE  Contains(k)'
    BY DEF vars
  <2>1. bits' = Recorded /\ bits \subseteq Recorded
    BY RestartClaims DEF SetInv, BitsHaveRecords
  <2> QED
    BY <2>1 DEF Contains
<1> QED
  BY <1>1, SetInvAlways, PTL DEF Spec, RestartHidesNothing

=============================================================================
