------------------------------ MODULE LooseSync ------------------------------
(***************************************************************************)
(* Loose synchronization: two SynchronizationProcess objects exchange the  *)
(* bit arrays of their sets' Bloom filters in chunks, and each reports the *)
(* hashes behind the bits that are set here and not there (Set.cpp, lines  *)
(* 57 to 83; diff and getChunk of KeyValueCountingBloomFilter.cpp).  The   *)
(* application of tests/evaluation/SetSync.cpp reads a chunk, hands it     *)
(* over and inserts the reports into the other set before the next one.    *)
(* Here chunks may also be under way, reports wait, and the users of both  *)
(* sets go on inserting and erasing.                                       *)
(*                                                                         *)
(* Set::insert and Set::erase are single steps: their inner steps are the  *)
(* subject of CountingBloom and SetFacade, and nothing of a set runs       *)
(* concurrently.  A record is the one of BloomRecords, whole hashes and a  *)
(* tail; what stands behind a tail is read as the hash Junk, and reported  *)
(* like every other.                                                       *)
(***************************************************************************)
EXTENDS BloomRecords

CONSTANTS
    FunctionCount,     \* functionCount_
    FilterSize,        \* filterSize_, in bits
    Pos,               \* Pos[k][i]: the position that hash function i gives to k
    ByteSize,          \* BYTESIZE
    Buffers,           \* the buffer lengths that the application uses
    Operations,        \* bound: insertions and erasures by the users of each set
    ChunkBound         \* bound: chunks on their way to a peer

Hashes == Keys \union {Junk}
HashFunctions == 1 .. FunctionCount
Positions == 0 .. FilterSize - 1

ASSUME LooseAssumption ==
    /\ FunctionCount \in Nat \ {0}
    /\ FilterSize \in Nat \ {0}
    /\ ByteSize \in Nat \ {0}
    /\ Pos \in [Hashes -> [HashFunctions -> Positions]]
    /\ Buffers \subseteq Nat \ {0}
    /\ Operations \in [{"A", "B"} -> Nat]
    /\ ChunkBound \in Nat

Peers == {"A", "B"}
Other(p) == CHOOSE q \in Peers : q # p

VARIABLES
    members,     \* the keys of each trie
    records,     \* the record of each position of each filter
    bits,        \* bitArray_: the positions whose bit is set
    outPos,      \* bloomfilterOut_pos, and what sentBytes_ counts
    inPos,       \* bloomfilterIn_pos, and what receivedBytes_ counts
    outFinished, \* bfOutIsFinished_
    chunks,      \* the chunks on their way to each peer
    reported,    \* the list of each peer's handler
    thrown,      \* has diff thrown?
    operations,  \* operations of the users so far
    started,     \* have the processes been created?
    known,       \* at the creation: what each filter contained
    readable,    \* at the creation: the members that were found and have all their records
    erased       \* the peers that have erased something since

setVars == <<members, records, bits>>
syncVars == <<outPos, inPos, outFinished, chunks, reported, thrown>>
vars == <<setVars, syncVars, operations, started, known, readable, erased>>

PositionsOf(k) == Range(Pos[k])
Contains(p, k) == PositionsOf(k) \subseteq bits[p]
WholeAt(p, x) == Range(records[p][x].entries)

(* FSBloomFilter::size. *)
Size == (FilterSize + ByteSize - 1) \div ByteSize

Init ==
    /\ members = [p \in Peers |-> {}]
    /\ records = [p \in Peers |-> [x \in Positions |-> NoRecord]]
    /\ bits = [p \in Peers |-> {}]
    /\ outPos = [p \in Peers |-> 0]
    /\ inPos = [p \in Peers |-> 0]
    /\ outFinished = [p \in Peers |-> FALSE]
    /\ chunks = [p \in Peers |-> <<>>]
    /\ reported = [p \in Peers |-> {}]
    /\ thrown = FALSE
    /\ operations = [p \in Peers |-> 0]
    /\ started = FALSE
    /\ known = [p \in Peers |-> {}]
    /\ readable = [p \in Peers |-> {}]
    /\ erased = {}

-----------------------------------------------------------------------------
(* The sets.                                                               *)

(***************************************************************************)
(* The loop of the filter's add: the records after the first i functions,  *)
(* and whether it has met the key and returned.                            *)
(***************************************************************************)
AddStep(before, k, x) ==
    IF before.met \/ k \in Range(before.records[x].entries)
    THEN [before EXCEPT !.met = TRUE]
    ELSE [before EXCEPT !.records[x] = Appended(@, k)]

AddLoop(recs, k) ==
    LET loop[i \in 0 .. FunctionCount] ==
          IF i = 0 THEN [records |-> recs, met |-> FALSE] ELSE AddStep(loop[i - 1], k, Pos[k][i])
    IN loop

AddedTo(recs, k) == AddLoop(recs, k)[FunctionCount]

SetInsert(p, k) ==
    /\ k \notin members[p]
    /\ members' = [members EXCEPT ![p] = @ \union {k}]
    /\ LET added == AddedTo(records[p], k) IN
          /\ records' = [records EXCEPT ![p] = added.records]
          /\ bits' = [bits EXCEPT ![p] = IF added.met THEN @ ELSE @ \union PositionsOf(k)]

(* The loop of the filter's remove. *)
RemoveStep(before, k, x) ==
    LET count == Len(before.records[x].entries) IN
    IF count > 1 THEN [before EXCEPT !.records[x] = Shortened(@, k)]
    ELSE IF count = 1 THEN [records |-> [before.records EXCEPT ![x] = NoRecord],
                            bits |-> before.bits \ {x}]
    ELSE before

RemoveLoop(recs, set, k) ==
    LET loop[i \in 0 .. FunctionCount] ==
          IF i = 0 THEN [records |-> recs, bits |-> set] ELSE RemoveStep(loop[i - 1], k, Pos[k][i])
    IN loop

RemovedFrom(recs, set, k) == RemoveLoop(recs, set, k)[FunctionCount]

SetErase(p, k) ==
    /\ k \in members[p]
    /\ members' = [members EXCEPT ![p] = @ \ {k}]
    /\ IF Contains(p, k)
       THEN LET rest == RemovedFrom(records[p], bits[p], k) IN
            /\ records' = [records EXCEPT ![p] = rest.records]
            /\ bits' = [bits EXCEPT ![p] = rest.bits]
       ELSE UNCHANGED <<records, bits>>

(* The users of the sets, before and during the synchronization. *)
Insert(p, k) ==
    /\ operations[p] < Operations[p]
    /\ SetInsert(p, k)
    /\ operations' = [operations EXCEPT ![p] = @ + 1]
    /\ UNCHANGED <<syncVars, started, known, readable, erased>>

Erase(p, k) ==
    /\ operations[p] < Operations[p]
    /\ SetErase(p, k)
    /\ operations' = [operations EXCEPT ![p] = @ + 1]
    /\ erased' = IF started THEN erased \union {p} ELSE erased
    /\ UNCHANGED <<syncVars, started, known, readable>>

-----------------------------------------------------------------------------
(* The synchronization.                                                    *)

(* The constructors of both processes. *)
Start ==
    /\ ~started
    /\ started' = TRUE
    /\ known' = [p \in Peers |-> {k \in Hashes : Contains(p, k)}]
    /\ readable' = [p \in Peers |->
                      {k \in members[p] : Contains(p, k) /\ \A x \in PositionsOf(k) : k \in WholeAt(p, x)}]
    /\ UNCHANGED <<setVars, syncVars, operations, erased>>

(* Fault: a chunk is as long as the buffer. *)
ChunkSizeUnbounded(length, offset) == IF offset >= Size THEN 0 ELSE length

(* getChunk: how much it copies. *)
ChunkSize(length, offset) ==
    IF offset >= Size THEN 0
    ELSE IF length < Size - offset THEN length ELSE Size - offset

(* The bits of a piece of the array, counted from its beginning. *)
Piece(set, offset, length) ==
    {j \in 0 .. length * ByteSize - 1 : offset * ByteSize + j \in set}

(* Faults: the output ends with the first chunk, or never. *)
IsLastAtOnce(written, length) == written <= length
IsLastNever(written, length) == FALSE

(* The output is finished when a chunk is shorter than the buffer. *)
IsLast(written, length) == written < length

ReadNextBloomFilterChunk(p, length) ==
    LET written == ChunkSize(length, outPos[p]) IN
    /\ started /\ ~thrown
    /\ Len(chunks[Other(p)]) < ChunkBound
    /\ ~outFinished[p]                                   \* isBloomFilterOutputAvail
    /\ chunks' = [chunks EXCEPT ![Other(p)] =
                    Append(@, [length |-> written, set |-> Piece(bits[p], outPos[p], written)])]
    /\ outPos' = [outPos EXCEPT ![p] = @ + written]
    /\ outFinished' = [outFinished EXCEPT ![p] = IsLast(written, length)]
    /\ UNCHANGED <<setVars, inPos, reported, thrown, operations, started, known, readable, erased>>

(* Fault: the chunk is compared with the beginning of the array. *)
MissingWithoutOffset(set, chunk, offset) ==
    {j \in Piece(set, 0, chunk.length) \ chunk.set : j <= FilterSize}

(* Fault: only the first byte of a chunk is compared. *)
MissingInFirstByte(set, chunk, offset) ==
    {x \in {offset * ByteSize + j : j \in Piece(set, offset, chunk.length) \ chunk.set} :
       x < (offset + 1) * ByteSize}

(***************************************************************************)
(* diff: the positions at which the array here has a bit that the chunk    *)
(* has not, and the whole hashes in their records.  The handler keeps each *)
(* hash once.                                                              *)
(***************************************************************************)
Missing(set, chunk, offset) ==
    {x \in {offset * ByteSize + j : j \in Piece(set, offset, chunk.length) \ chunk.set} : x <= FilterSize}

Handle(list, hashes) == list \union hashes

ProcessBloomFilterChunk(p) ==
    /\ chunks[p] # <<>> /\ ~thrown
    /\ LET chunk == Head(chunks[p]) IN
       IF chunk.length + inPos[p] > Size
       THEN /\ thrown' = TRUE
            /\ UNCHANGED <<reported, inPos>>
       ELSE /\ reported' = [reported EXCEPT ![p] =
                              Handle(@, UNION {WholeAt(p, x) : x \in Missing(bits[p], chunk, inPos[p])})]
            /\ inPos' = [inPos EXCEPT ![p] = @ + chunk.length]
            /\ UNCHANGED thrown
    /\ chunks' = [chunks EXCEPT ![p] = Tail(@)]
    /\ UNCHANGED <<setVars, outPos, outFinished, operations, started, known, readable, erased>>

(***************************************************************************)
(* runLooseSync inserts each hash of a handler's list into the other set.  *)
(* (It then clears the list; here it keeps what has been reported.)        *)
(***************************************************************************)
InsertReported(p, k) ==
    /\ k \in reported[p]
    /\ SetInsert(Other(p), k)
    /\ UNCHANGED <<syncVars, operations, started, known, readable, erased>>

-----------------------------------------------------------------------------
Exchange(p) ==
    \/ \E length \in Buffers : ReadNextBloomFilterChunk(p, length)
    \/ ProcessBloomFilterChunk(p)

Next ==
    \/ Start
    \/ \E p \in Peers :
          \/ \E k \in Keys : Insert(p, k) \/ Erase(p, k)
          \/ \E k \in Hashes : InsertReported(p, k)
          \/ Exchange(p)

(* The loop of runLooseSync calls both processes again and again. *)
Fairness == WF_vars(Start) /\ \A p \in Peers : WF_vars(Exchange(p))

Spec == Init /\ [][Next]_vars /\ Fairness

-----------------------------------------------------------------------------
Finished(p) == outFinished[p] /\ chunks[Other(p)] = <<>>

(***************************************************************************)
(* The positions of readNextBloomFilterChunk and processBloomFilterChunk   *)
(* stay inside the filter, and the records keep their form.                *)
(***************************************************************************)
TypeOK ==
    /\ members \in [Peers -> SUBSET Hashes]
    /\ \A p \in Peers, x \in Positions :
          /\ WholeAt(p, x) \subseteq Hashes
          /\ records[p][x].tail \in 0 .. HashSize - 1
    /\ bits \in [Peers -> SUBSET Positions]
    /\ {outPos, inPos} \subseteq [Peers -> 0 .. Size]
    /\ outFinished \in [Peers -> BOOLEAN]
    /\ reported \in [Peers -> SUBSET Hashes]

(***************************************************************************)
(* diff never throws: whatever buffers the two sides use, and although the *)
(* receiver learns its position from the lengths of the chunks alone, no   *)
(* chunk reaches behind the end of its filter, and at the end it has seen  *)
(* all of it.                                                              *)
(***************************************************************************)
ChunksFit ==
    /\ ~thrown
    /\ \A p \in Peers : Finished(p) => outPos[p] = Size /\ inPos[Other(p)] = Size

(***************************************************************************)
(* Loose synchronization misses nothing but false positives: when all of a *)
(* filter has been compared and nothing was erased meanwhile, every        *)
(* element that was found and readable in all its records has been         *)
(* reported, or the other filter contains it, although insertions changed  *)
(* both filters between the chunks.                                        *)
(***************************************************************************)
NothingMissed ==
    \A p \in Peers :
       Finished(Other(p)) /\ erased = {} =>
          \A k \in readable[p] : k \in reported[p] \/ Contains(Other(p), k)

(***************************************************************************)
(* A report is needed: a key that diff reports was not contained in the    *)
(* other filter when the synchronization began, unless the other side has  *)
(* erased something since, so that the other set is never asked to insert  *)
(* what it has had all the time and finds.                                 *)
(***************************************************************************)
ReportsAreNeeded ==
    \A p \in Peers : Other(p) \notin erased =>
       (reported[p] \ {Junk}) \intersect known[Other(p)] = {}

(***************************************************************************)
(* Both outputs end, also when a chunk ends exactly at the end of the      *)
(* filter: isBloomFilterOutputAvail becomes false on both sides and every  *)
(* chunk is compared.                                                      *)
(***************************************************************************)
Terminates == <>(\A p \in Peers : Finished(p))

-----------------------------------------------------------------------------
(* What makes these invariants inductive.                                  *)

ChunkRecords == [length : Nat, set : SUBSET Nat]
Shape ==
    /\ members \in [Peers -> SUBSET Hashes]
    /\ records \in [Peers -> [Positions -> Record]]
    /\ bits \in [Peers -> SUBSET Positions]
    /\ outPos \in [Peers -> 0 .. Size] /\ inPos \in [Peers -> 0 .. Size]
    /\ outFinished \in [Peers -> BOOLEAN]
    /\ chunks \in [Peers -> Seq(ChunkRecords)]
    /\ reported \in [Peers -> SUBSET Hashes]
    /\ known \in [Peers -> SUBSET Hashes] /\ readable \in [Peers -> SUBSET Hashes]
    /\ started \in BOOLEAN
    /\ ~started => /\ erased = {}
                   /\ \A p \in Peers : /\ chunks[p] = <<>> /\ inPos[p] = 0
                                        /\ reported[p] \union known[p] \union readable[p] = {}

(* A key is seen only in the records of its own positions. *)
KeysInPlace ==
    \A p \in Peers, x \in Positions : \A k \in WholeAt(p, x) \ {Junk} : x \in PositionsOf(k)

(* Until a peer erases something, its filter keeps what it knew. *)
KnownBits(p) == UNION {PositionsOf(k) : k \in known[p]}
KnownKept == \A p \in Peers \ erased : KnownBits(p) \subseteq bits[p]
ReadableKept ==
    \A p \in Peers \ erased : \A k \in readable[p] : \A x \in PositionsOf(k) :
        x \in bits[p] /\ k \in WholeAt(p, x)

(* A chunk shows every bit that its sender knew, and none that the sender  *)
(* does not have by now, unless he has erased something.                   *)
Tells(p, chunk, offset) ==
    /\ \A j \in chunk.set : offset * ByteSize + j \in bits[p]
    /\ \A j \in 0 .. chunk.length * ByteSize - 1 :
          offset * ByteSize + j \in KnownBits(p) => j \in chunk.set

(* The chunks under way to q lie one behind the other, from the position   *)
(* up to which q has compared to the one up to which the other has sent;   *)
(* offset[i] is where the i-th begins.                                     *)
InLine(q, offset) ==
    /\ offset[1] = inPos[q] /\ offset[Len(chunks[q]) + 1] = outPos[Other(q)]
    /\ \A i \in 1 .. Len(chunks[q]) :
          /\ offset[i + 1] = offset[i] + chunks[q][i].length
          /\ Other(q) \notin erased => Tells(Other(q), chunks[q][i], offset[i])
ChunksInLine ==
    \A q \in Peers : \E offset \in [1 .. Len(chunks[q]) + 1 -> 0 .. Size] : InLine(q, offset)

OutputEnds == \A p \in Peers : outFinished[p] => outPos[p] = Size

(* What has been compared was reported, or is not missing. *)
Compared ==
    erased = {} => \A p \in Peers : \A k \in readable[p] : \A x \in PositionsOf(k) :
        x < inPos[p] * ByteSize => k \in reported[p] \/ x \in bits[Other(p)]

LooseInv ==
    /\ Shape /\ KeysInPlace /\ KnownKept /\ ReadableKept
    /\ ChunksInLine /\ OutputEnds /\ Compared /\ ReportsAreNeeded /\ ~thrown

=============================================================================
