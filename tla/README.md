# Verification of libsetsync

libsetsync keeps a set of cryptographic hashes and finds out, with little
traffic, in which elements two such sets differ. This directory holds TLA+
models of its core, the TLC configurations that check them, and proofs of their
main properties that TLAPS checks. Paths below are relative to `src/setsync/`.

## The system

### Parts, state and operations

| Part | Source | State | Operations that change it |
|---|---|---|---|
| Set facade | `Set.cpp` 286-607 | trie, filter, index, `indexInUse_`, maximum | constructor, destructor, `insert` (key, data), `erase`, `clear` |
| Key-value trie | `trie/KeyValueTrie.cpp` | node records by hash, entries `root` and `triesize`, size in memory | `add`, `remove`, `clear`, opening, closing |
| Subtrie cut | `trie/KeyValueTrie.cpp` 813-868 | two vectors during the recursion | `getSubTrie` (pure) |
| Counting Bloom filter | `bloom/KeyValueCountingBloomFilter.cpp`, `bloom/FSBloomFilter.cpp` | one record of hashes per position, bit array, `itemCount_`, entry `bfsize` | `add`, `remove`, `clear`, opening, closing |
| Data index | `index/KeyValueIndex.cpp` | data by hash | `put`, `remove`, `clear` |
| Synchronization process, strict | `Set.cpp` 85-245 | `stat_`, `pendingSubtries_`, `sentHashes_`, `pendingAcks_` | `isEqual`, `isSubtrieOutputAvailable`, `getSubTrie`, `processSubTrie`, `readSomeTrieAcks`, `processAcks` |
| Synchronization process, loose | `Set.cpp` 57-83 | positions in the filters | `readNextBloomFilterChunk`, `processBloomFilterChunk` |
| Diff handlers | `DiffHandler.cpp` | a list of reported hashes | `handle`, `clear` |
| Storage backends | `storage/` | a database | `put`, `del`, `clear` |
| Plain Bloom filters | `bloom/BloomFilter.cpp`, `bloom/FSBloomFilter.cpp`, `bloom/DoubleHashingScheme.cpp` | bit array, `itemCount_`, `hardMaximum_` | `add`, `addAll`, `clear`, set operations, assignment, `load`, `save` |
| Cryptographic hashes | `crypto/` | a context: counts, chaining state, buffer, pads | `md_init_ctx`, `md_starts`, `md_update`, `md_finish`, the same with `hmac`, `md_hmac_reset`, `md_free_ctx`; `CryptoHash::hash` |
| C interface | `Set.cpp` 630-1203, `set.h` | two pointers in each structure of the caller, what they point at | `set_init`, `set_free`, `set_sync_init_handle`, `set_sync_free_handle`, and one function per method |
| Configuration, utilities | `config/`, `utils/` | none of interest | - |

`Set` calls the trie first, then the filter, then the index. The trie, the
filter and the index each have a storage of their own and write it record by
record. A synchronization has a process on each side; the application carries
subtries, acknowledgments and root hashes between the two in any order and in
pieces of its own choice, and is called back through a diff handler with each
difference found. What it is told it may insert at once or later.

There are no threads and no locks. The application drives everything, so the
interleavings are those of the calls on the two sides, of the messages between
them, and of insertions with a synchronization that is under way.

### What is hard

* Acknowledgments are bits without identification. Which hash one belongs to
  follows from its position, through two queues and two channels that are cut
  at different places.
* Nodes of the trie are looked up by their hash, and each insertion gives every
  node above the new leaf another hash. A hash that was sent, or is pending, may
  no longer exist when it comes up.
* `done()` looks at the queues of one side only, and the applications' loops stop
  when one side says it.
* An operation on the trie or on the filter is a sequence of writes; a crash
  keeps any prefix of it. Sizes and `indexInUse_` are in memory only, or written
  by destructors only.
* `Set` changes three structures one after the other, and the second can throw
  (`FSBloomFilter::add` at the hard maximum).
* `remove` of the filter shortens a record by a byte where it takes a hash out.
* The loose synchronization sends a filter piece by piece while it changes; the
  receiver knows where it is from the lengths alone. It reports what records
  hold, also what should no longer be in them.
* Digests buffer, count and pad across calls of any length; boundaries and the
  carry of the count are hit rarely, and six files each have their own copy.
* The C structures hold pointers that nobody resets, and texts of failures that
  any later failure may overwrite.

`PROJECT.json` lists these and further hazards with their lines, each with the
properties that would catch it, or with the reason why none does yet.

### What makes the parts correct

* Trie: it is a set of keys, and each request has its effect; its root depends on the set only; whatever moment
  the process ends at, the root that is stored can be read.
* Cut: the hashes sent for a node stand for every key below it exactly once and
  fit into the buffer.
* Strict synchronization: what is reported is a difference; when it is done,
  every difference has been reported. The loops that drive it end, and `runStrictSync`
  leaves nothing to hand over.
* Set and filter: `find`, which believes the filter, finds what is in the trie;
  the filter's bits and its records agree; opening the set again hides nothing.
* Loose synchronization: apart from false positives nothing is missed, nobody is
  told to insert what he has, and it ends.
* Plain filters: no false negatives, the maximum holds.
* Hashes: the digest depends on the message and the key only, and is the
  standard's.
* C interface: no pointer is followed that does not point at anything, a failure
  is told with its own text, what is freed is freed completely.

## Modules

| Module | What it models |
|---|---|
| `TrieSync` | two synchronization processes, the channels between them and the application |
| `SubTrie` | the recursion of `getSubTrie`, on keys of any number of bits |
| `SubTrieProofs` | theorems about `SubTrie` |
| `SubTrieCall` | one call of it, for any node and buffer |
| `MCTrieSync` | `TrieSync` with the cut of `SubTrie`, for TLC |
| `StrictLoop` | the loops of the repository that drive it (`EXTENDS TrieSync`) |
| `MCStrictLoop` | these loops, and an application without one, with the keys and the cut of `MCTrieSync` |
| `Reconciliation` | what strict synchronization promises; `TrieSync` implements it |
| `TrieSyncProofs` | theorems about `TrieSync`, with that refinement, and about `StrictLoop` |
| `KeyValueTrie` | the trie in its storage, one step per write |
| `KeySet` | what a trie promises; `KeyValueTrie` implements it |
| `KeyValueTrieProofs` | theorems about `KeyValueTrie`, with that refinement |
| `MCKeyValueTrie` | keys that are numbers of three bits, and calls of `getSubTrie` between the operations, for TLC |
| `BloomRecords` | the record of one position and what `add` and `remove` of the counting filter make of it |
| `CountingBloom` | the counting Bloom filter, one step per record |
| `SetFacade` | `Set`: trie, filter (`EXTENDS CountingBloom`) and index together |
| `MCSetFacade` | keys that share positions of the filter, for TLC |
| `SetFacadeProofs` | theorems about `SetFacade` |
| `LooseSync` | two filters exchanged in chunks, with the sets behind them (`EXTENDS BloomRecords`) |
| `LooseSyncProofs` | theorems about `LooseSync` |
| `MCLooseSync` | keys that share positions, for TLC |
| `BloomFilters` | the plain filters in memory and in a mapped file |
| `BloomFiltersProofs` | theorems about `BloomFilters` |
| `MCBloomFilters` | keys by their two words, for TLC |
| `Digests` | MD2, MD4, MD5, SHA-1, SHA-224/256, SHA-384/512 and their HMACs, as functions on contexts |
| `MdContext` | a context in the hands of a caller of `md.c`, the standards to compare with, `CryptoHash` |
| `MdContextProofs` | theorems about `MdContext` |
| `MCMdContext` | blocks, length fields and words of a few bytes, for TLC |
| `CInterface` | the functions with C linkage and the structures of `set.h` |
| `CInterfaceProofs` | theorems about `CInterface` |

Definitions whose comment begins with "Fault" are wrong on purpose: a
plausible mistake in the code each. No specification uses them; `PROJECT.json`
names, for each property, the definition that has to be replaced by a fault to
make TLC find the property violated.

### Strict synchronization: `TrieSync`, `SubTrie`

Hashes. Without collisions, a node's hash and the set of keys below it
determine each other, so a hash **is** its set of keys: a key is a singleton,
the root is the whole set, and the nodes of a trie are the intersections of its
keys with the sets of keys that share a prefix (`Blocks`). That a node's hash
depends on the keys only is what `RootIsCanonical` says of the trie below.

| Model | Code |
|---|---|
| `stat`, `pendingSubtries`, `sentHashes`, `pendingAcks` | the members of the same name, per peer |
| `trie` | the leaves of `set_->trie_` |
| `subtrieChan`, `ackChan`, `rootChan` | what the application carries |
| `reported` | calls of the diff handler |
| `IsSubtrieOutputAvailable` | the call that finds a root and leaves START |
| `GetSubTrie(p, n)` | `getSubTrie` with a buffer of n hashes, with the recursion of its catch block |
| `ProcessSubTrie`, `ProcessAck` | one hash of `processSubTrie`, one iteration of `processAcks` with its three outcomes |
| `ReadSomeTrieAcks(p, length)` | `readSomeTrieAcks` with a buffer of length bytes |
| `GetRootHashForSending`, `IsEqual` | the comparison of roots |
| `ApplyReported` | the application inserts a reported key |

A call that handles several hashes or acknowledgments is that many steps, which
allows more interleavings than the code has. The constant `EarlyApply` says
whether the application inserts reports while the synchronization goes on, as
`testCAPI` and `tests/evaluation/SetSync.cpp` do, or afterwards, as `testSync` does.
`Cut` is a constant operator with an assumption (a cut consists of nodes that
hold all the keys). `MCTrieSync` gives it the recursion of `SubTrie`, where TLC
evaluates the assumption; `SubTrieProofs` shows it for all keys and buffers.

`SubTrie` has the keys and their bits as constants; a node is a set of keys, its
children differ in the bit behind the common ones. The recursion of `getSubTrie`
always asks for fewer entries than it was asked for, so `CutsUpTo` is a recursive
function over that number: what it gives for n maps a node and the two shared vectors
(`inner`, `child`) to the vectors afterwards and the count. `Refill` is the loop that
pops the inner node found last, in whichever call, and cuts through it. `SubTrieCall` is one
call; `MCKeyValueTrie` makes it for each node of the tries that `KeyValueTrie` builds.

`TrieSync` says what an application **may** call, in any order, and has no fairness: no
program has to call anything. What the repository's own programs call is `StrictLoop`. Each is
one loop `while (!A->done() && !B->done())` of four transfers; a transfer reads from one
process and hands what was read to the other at once.

| Model | Code |
|---|---|
| `TestSync`, `TestCAPI` | the loops of `testSync` and `testStrictSync` (`SetTest.cpp` 132, 279), and of `testCAPI` (401), whose callback inserts |
| `RunStrictSync(synchron)` | `SetSync.cpp` 138-200: each transfer is a loop itself, unless `synchron_` is set, and reports are inserted after each call of `processAcks` |
| `at` | 0: the loop asks `done()`; 1 to 4: the transfer it is at; 5 (`Ended`): behind the loop |
| `AskDone` | the condition of the loop, which one process is enough to end |
| `Read`, `HandOver` | `isSubtrieOutputAvailable`, `getSubTrie` and `processSubTrie`; `isAckOutputAvailable`, `readSomeTrieAcks` and `processAcks` |
| `GoOn` | the `if` or `while` of a transfer is over |
| `InsertReports` | the callback; the `for` behind `processAcks`; the `for` behind a test's loop |

`Reconciliation` knows two sets, what each side was told (`DiffHandler.h`: a handler is
called with a hash that is here and not on the remote side) and whether it says that it
is done. `Reconciles` is the claim that `TrieSync`, with its queues and channels hidden,
implements it when the application inserts reports afterwards.

### The trie: `KeyValueTrie`, `KeySet`

The storage is a map from hashes to records (length of the common prefix, a key
that shows it, the parent) with the entries `root` and `triesize`. Keys are any
set, with their bits given by the constants `Depth` and `Bit`. An inner hash is
the pair of the children's hashes; it also carries the set of keys and of nodes
that it covers, which the properties ask for and no operation looks at (whether
there are children is the code's flag `hasChildren_`). `Add`, `Remove` and `Clear` compute
the writes that `TrieNode::insert`, `TrieNode::erase` and the methods around
them make, in the code's order and with the storage as the operation's own
writes leave it; `Write` takes one of them to the storage. The loops that replace the
ancestors of a node are `ReplaceInserted` and `ReplaceErased`, once for each round; what
`erase` does to the grandparent is a first round of its loop. `Crash` drops the
rest and the size in memory. Exceptions end an operation as in the code;
in particular `add` answers each with a new root. `KeySet` is a set of keys
whose requests take effect at one moment, and none of which returns without its effect;
only a crash, which it counts as the trie does, may cut one short. `KeySetSpec` says that
the trie, seen through the leaves below its root entry, implements it.

### The set: `BloomRecords`, `CountingBloom`, `SetFacade`

A record is a sequence of whole hashes and the number of bytes behind them
(`tail`), so that shortening it by one byte is modelled as what it is: either
the tail shrinks or the last hash is broken. A hash that is appended behind a
tail, and which the code therefore sees shifted, is `Junk`. `MovedUp` is the
copying inside the buffer of `remove`, with what it leaves behind. The loops
over hash functions are one step per function. `SetFacade` adds the trie as a
set with its size and the index as the set of keys that have data; its actions
begin and end the filter's calls where `Set` does. `incomplete` and `damaged`
are history: keys whose `add` did not come to its end (it met the key in a
record, threw, or crashed), and whether such a key has been erased.

### Loose synchronization: `LooseSync`

| Model | Code |
|---|---|
| `outPos`, `inPos`, `outFinished` | `bloomfilterOut_pos`, `bloomfilterIn_pos`, `bfOutIsFinished_` |
| `records`, `bits` | the storage and `bitArray_` of each side's counting filter |
| `chunks`, `reported` | what the application carries; the handlers' lists |
| `ReadNextBloomFilterChunk(p, length)` | the method with a buffer of length bytes, with `getChunk` |
| `ProcessBloomFilterChunk` | the method with `diff`: bits that are set here and not in the chunk, every whole hash of their records |
| `Insert`, `Erase` | the users of both sets, at any moment |
| `InsertReported` | `runLooseSync` inserts a report into the other set |

`Set::insert` and `Set::erase` are one step each, with the loops of the filter
inside (`AddLoop`, `RemoveLoop`), because nothing runs between two records of one
call. Remains of removed keys and the hash `Junk` behind a shortened record are reported
and inserted like any other hash. `known` and `readable` remember the moment at
which the synchronization began: the properties relate its end to that moment.

### Plain filters: `BloomFilters`

Two filters of one class and size. A bit is its number, byte by byte, so that
the two versions of `compute_indices` differ where they do in the code: the file's
takes the bit within the byte from the value that was not reduced. Hash values
are those of `DoubleHashingScheme`, in words that wrap around. `held` is what a
filter has to contain after the calls so far, whatever call has put it there.
`containsAll` and `operator ==` are operators (they change nothing). `NoFalseNegatives`
speaks of filters that are `Exact`: in memory, or in a file with a size that fills its
last byte. The headers promise the same of all filters, and the code does not keep it; what
goes wrong in the others is proved (`BatchesNeedFullBytes`, `LastBitsAreNotCompared`) and
described under "Further observations".

### Hashes: `Digests`, `MdContext`

Each byte says where it comes from (message, key, padding, a digest). The
compression functions are free: a chaining state is the list of blocks that went into
it, so two digests are equal exactly if the same blocks were compressed in the same
order from the same initial value. What remains is everything a caller
can disturb: buffering, the two words of the count, padding, the length field and
its byte order, pads and keys, the variant of SHA-2, the tables of `md_wrap.c`.
`MdContext` is one context under every sequence of calls, and states the
standards (RFC 1319 to 1321, FIPS 180, RFC 2104) on whole messages, without any
buffer. It describes the build without OpenSSL.

### C interface: `CInterface`

The state is what a C program can make of a pointer: never written, null, valid, or
left over after a deletion; and which blocks of the heap are in use. Each function
is an action: `Guarded` for those with catch blocks, `Plain` for those without, which
end the program when the method throws. What methods compute is left open: a
call may return any value of its type or fail. `set.h` states no rules for its
callers, so the model states the ones it needs, as guards marked "Rule":

1. a structure that owns something is freed before it is initialised again;
2. a structure given to `set_init_with_path` is cleared by the program (that
   function, unlike `set_init`, does not do it);
3. only what was made, or cleared, is freed, and only once; after a failed
   `set_init` too, if the structure had been cleared;
4. a handle is made from a set that exists, and is not used after that set is freed;
5. the last error is read from a structure that was initialised or cleared.

## Runs

| Run | Question | Bounds | States |
|---|---|---|---|
| `trie_sync` | reports after the end: the promise of `Reconciliation` is kept, done means complete, no descent is restarted | every pair of sets over 4 keys, in a trie with two inner nodes side by side or in one of full depth; buffers of 2 hashes and 2 acks | 520 691 |
| `early_unequal` | violation: done on both sides, and different sets | | |
| `strict_loops` | reports at once: what still holds in any order of the calls; the repository's loops: they end, what they leave behind | any order: every pair of sets over 4 keys in a trie of full depth; four programs: the pairs of sets and tries of `trie_sync`; buffers of 2 hashes, of 2 and of 8 acks | 1 026 584 |
| `kv_trie` | the trie is a set, canonical, readable at every write; a cut stands for each key once, fills the buffer, its size is right | 5 keys of 3 bits, every history, one crash; every node before a crash, buffers of 2 to 6 hashes | 166 154 |
| `kv_crash` | violation: after a crash, a parent lacks its child | 4 keys, one operation after the crash | |
| `set_facade` | filter and records agree, members are found, restarts hide nothing | 4 keys, 3 positions, 2 functions, hash of 2 bytes, maximum 3, 4 insertions, one crash | 1 314 496 |
| `set_find` | violation: an inserted key is not found | 3 keys, one with both functions at one position | |
| `loose_sync` | positions in step, only false positives missed, no needless report, both outputs end | 2 keys and junk, 3 positions in bytes of 2 bits, buffers of 1 and 3 bytes, 4 and 1 operations of the users, one chunk under way in each direction | 593 613 |
| `bloom_filters` | indices and the maximum; no false negatives in exact filters | both classes, with and without a full last byte and a maximum, 3 keys, batches of 2, every 6 calls on two filters | 1 024 316 |
| `digests` | digests and HMACs are the standards' | 8 algorithms, blocks of 4 or 8 bytes, pieces of 5 lengths, 3 messages per context, keys shorter, equal and longer than a block | 44 907 |
| `stream_hash` | violation: the hash of a stream is not that of its bytes | the same | |
| `c_interface` | pointers, texts, ownership | a set and 2 handles, no bound on the number of calls | 557 696 |

Why the bounds are enough. *Cut*: five keys give three levels of inner nodes, so that calls
refill from inner nodes that a call two levels away has left; the theorems are about any
number of keys. *Synchronization*:
a buffer of two hashes and two acknowledgments is the smallest that the code
accepts and makes the descent as long and the cuts as different as they can
be; four keys give pending subtries that wait (wide keys), and inner nodes that
disappear under a pending hash (deep keys). A buffer of 8 acknowledgments holds all that
there are at one time, as the 20 bytes of the tests do. Any larger number of keys is
covered by the theorems. *Trie*: three bits give a leaf, its parent, its
grandparent and a root above, which are the cases `erase` and `insert`
distinguish; five keys allow each of them on both sides. *Set*: the positions
are chosen so that every record is shared, one key has both functions at one
position, and records reach three entries; with a hash of two bytes a record
can be shortened through a whole hash. *Loose synchronization*: three positions
are two bytes, the second not full, so that a buffer of one byte ends exactly at
the end and one of three behind it; four operations on one side are what it takes
to leave the remains of a key in a shortened record and to insert or erase during
the exchange. *Plain filters*: the sizes 6 and 8 with bytes of 4 bits are one with and
one without a full last byte; six calls fill both filters, combine them, save one
and load it. *Hashes*: lengths of pieces lie before, at and behind the
boundaries of block and length field, and words are so small that the count of a
message carries over. Words are larger than every piece, as 4 GiB are in the code;
with a longer piece the carry would be lost. *C interface*: a set with two
handles has every order of making and freeing; the state is finite.

Deadlock is not checked except in `digests` and `c_interface`: the others may stop
when their users have nothing more to ask, or at the bound on calls.

Fairness. `TrieSync` has none: it is about what may be called. `ApplicationSpec` of
`MCStrictLoop` has weak fairness of a program's next step (`ProgramNext`): the programs have one
thread, which executes its next statement, and there is no choice that fairness would have
to decide but the one of the sets. The loop's own condition decides when it stops, with `&&` as in the code.
`LooseSync` assumes weak fairness of starting and of each peer's `Exchange`: the loop of
`runLooseSync`, whose condition is a disjunction, asks each process in every
round whether it has output, reads it and hands it over at once. Users need not do
anything, and reports need not be inserted.

### What the violations show

1. `early_unequal`: when a report is inserted during the descent, `getSubTrie`'s
   `catch (...)` (`Set.cpp:117`) drops a pending subtrie whose root has another
   hash by now. Both sides are done, all reports inserted, and the sets differ,
   where `SetTest.cpp:435` expects them to be equal. A second synchronization is needed.
2. `kv_crash`: insert overwrites the parents of nodes that the old and the new
   trie share before it moves the root entry. After a crash in between, the old
   root is readable downwards but cannot be climbed; the next `add` runs into
   the case that a comment excludes (`KeyValueTrie.cpp:288`), its exception is
   taken for an empty trie, and the new key becomes the only one.
3. `set_find`: when two hash functions give a key the same position, `add` finds
   the key in the record that it has written for the first one, takes it for a
   key that was added before, and returns without setting a bit. The trie has the
   key and `find` denies it until the set is opened again. The remains of a removed key
   in a shortened record stop a second insertion of that key in the same way.
4. `stream_hash`: `CryptoHash::hash` of a stream, without OpenSSL, reads nothing: its loop
   (`crypto/CryptoHash.cpp:133`) asks for a result of 1 and `md_starts` answers 0. It
   gives the digest of no bytes, where `CryptoHash.h:56` promises that of the stream.

### Further observations

What the models contain because the code does it, without a run of its own:

* The tests' loops ask for subtries before acknowledgments, and stop when one process is
  done. For A = {0, 1, 2, 4} and B = {2}, B is through when its one key is acknowledged; A
  still has the node {0, 1} pending, the loop ends, and the assertion behind it
  (`SetTest.cpp:178`, `329`: the sets are equal) would fail. What such a loop does achieve is
  `OneSideIsThrough`: the set of a process that is done is a part of the other one, once the
  reports are inserted. The order of the transfers in `runStrictSync`, acknowledgments
  first, is what gives `LeavesNothing`. Its sets, and those of `testCAPI`, may differ all the
  same, for the reason of `early_unequal`.
* Strict synchronization: the branch of `Set.cpp:189` that "should never happen"
  unless several instances synchronize is taken by one pair when reports are
  inserted early (`NeverRestarts` holds in `trie_sync` only). `done()` is false for
  ever on a process whose set is empty and which has received nothing: with two empty sets
  each of the loops runs for ever, the one case that `LoopEnds` leaves out.
* Set: `remove` of the filter does not lower `itemCount_`; after an erasure from a
  full set, `insert` passes `Set`'s own test, changes the trie and throws.
  `indexInUse_` is not restored on opening, so data of elements erased then
  stays in the index. `get` answers false in every case.
* Loose synchronization: `diff` reports remains of erased keys and shifted bytes,
  and the application inserts them into the other set.
* Plain filters: `FSBloomFilter::addAll` (line 174) hands `compute_indices` hash values that
  are not reduced. Unless the size is a multiple of 8 it sets other bits than `contains` asks
  for, and a key of a batch is not contained, against `FSBloomFilter.h:59`
  (`BatchesNeedFullBytes`). `operator ==` shifts the bits in use out of a last byte that is
  not full (`FSBloomFilter.cpp:282`, `BloomFilter.cpp` alike), so that different arrays are
  equal, against "exact the same bit array" of `FSBloomFilter.h:70`
  (`LastBitsAreNotCompared`). The file's `containsAll` ends with `return true`, so it answers
  1 where `FSBloomFilter.h:65` and `BloomFilter.h:104` say the number of keys. Union,
  intersection and difference leave `itemCount_` alone.
* C interface: `set_insert`, `set_erase`, `set_find` and `set_get_data` let exceptions
  out; `set_sync_bf_read_next_chunk` answers 0 for a failure, which is also the
  length of a last chunk; the text behind a handle's error pointer cannot be read
  through `set.h`.

## Proofs

Eight modules hold theorems (the lemmas about records of the Bloom filter are in both
`SetFacadeProofs` and `LooseSyncProofs`). They hold for every value of the constants that the named assumptions
allow: any sets of keys and prefixes, any cut that keeps its contract, any buffers; any
number of bits, hash functions and positions, any hash size and filter size, any number of
crashes, of chunks under way, of handles; blocks, length fields and words of any size.

| Theorem | Property | Inductive invariant |
|---|---|---|
| `TypeCorrect` | `TrieSync!TypeOK` | itself |
| `ReportsAreSound`, `EqualIsSound` | `ReportSound`, `EqualSound` | `SafetyInv` |
| `AcksMeetTheirHashes`, `AcksNeverExceedHashes` | `Aligned`, `AcksAccepted` | `SafetyInv` |
| `DoneIsComplete`, `RestartIsNotTaken`, `FinishedSetsAreEqual` | `DoneComplete`, `NeverRestarts`, `FinishedEqual` | `SafetyInv`, `CarefulInv`, if `Careful` |
| `PromiseIsKept` | `Reconciles`, the refinement of `Reconciliation` | the same |
| `LoopsAreAllowed` | `LoopSpec` implies `Spec`: all of the above for the four programs | `Placed` |
| `RunLeavesNothingBehind` | `LeavesNothing` | `SafetyInv`, `LoopInv` |
| `CutPartitionsAlways`, `CutFillsBufferAlways` | `CutPartitions`, `CutFillsBuffer` of `SubTrieCall` | `IInv` and `CutsUpToCut` |
| `CutKeepsItsContract`, `PrefixesAreATree` | what `CutAssumption` and `BlocksAssumption` of `TrieSync` assume | - |
| `Canonical`, `Readable`, `ExactStore`, `RightSize`, `TypeCorrect` | `RootIsCanonical`, `RootReadable`, `StoreIsExact`, `SizeIsRight`, `KeyValueTrie!TypeOK` | `KvInv`, if `LaterOps = 0` |
| `ImplementsKeySet` | `KeySetSpec`, the refinement of `KeySet` | the same |
| `TypeCorrect` | `SetFacade!TypeOK` | `SetInv` |
| `BitsAlwaysHaveRecords`, `RecordsAlwaysCount`, `FindIsRight`, `RestartsHideNothing` | `BitsHaveRecords`, `RecordsCount`, `FindsMembers`, `RestartHidesNothing` | `SetInv` |
| `PositionsStayInside` | `LooseSync!TypeOK` | `LooseInv` |
| `DiffNeverThrows`, `NothingIsMissed`, `NoNeedlessReport` | `ChunksFit`, `NothingMissed`, `ReportsAreNeeded` | `LooseInv` |
| `IndicesStayInside`, `NothingAddedIsMissed` | `BloomFilters!TypeOK`, `NoFalseNegatives` | `FilterInv` |
| `BatchesNeedFullBytes` | a batch means the bits that `contains` asks for if and only if the filter is `Exact` | `FilterInv` |
| `EqualityIsExact` | `==` is equality of the bits if the last byte is full | `FilterInv` |
| `LastBitsAreNotCompared` | in other sizes, two filters that are equal and not the same | - |
| `PointersMatchTheHeap`, `RulesMakeCallsSafe`, `FailuresLeaveTheirText`, `FreeingLeavesNothing` | `CInterface!TypeOK`, `MemorySafe`, `FailureHasMessage`, `ReleasedOwnsNothing` | `CInv` |
| `TypeCorrect`, `HoldsMessage` | `MdContext!TypeOK`, `ContextHoldsMessage` | `MdInv` |
| `StandardDigests`, `StandardHmacs`, `OneShots` | `DigestIsStandard`, `HmacIsStandard`, `OneShotAgrees` | `MdInv` |

TLC has checked each of the inductive invariants on the instance of its run before it
was proved, but for `MdInv`, which quantifies over all strings, and `KvInv`, which speaks
of runs through every write that is left; of these two TLC has checked the properties
that follow.

**Synchronization.** `SafetyInv` is inductive and holds with both kinds of
application. Beside the properties it has three parts that they need:
`KeysKept` (a trie only gains what the other side reported), `RootsDated` (a
root under way lies between the first and the present set of its sender), and
`AnswersSound` (an unprocessed answer still means what it says: a requested leaf
was lacking at the beginning, a node that was not requested is contained as a
whole). `Aligned` carries it: the unacknowledged hashes are those with an
answer under way followed by those not yet received. Lemmas `InStepSend`,
`InStepLookup` and `InStepAnswer` show what sending, looking up and answering do
to such a triple, so that each action's proof only says which of them it is.
From it follow `TypeCorrect`, `ReportsAreSound`, `EqualIsSound`,
`AcksMeetTheirHashes` and `AcksNeverExceedHashes`.

`CarefulInv` adds what holds when reports are inserted afterwards (`Careful`):
the remembered hashes stay in the trie, and each difference is reported or lies
below a hash that is pending or unacknowledged (`DifferencesCovered`). When all
queues are empty, the last leaves only "reported": `DoneIsComplete`,
`RestartIsNotTaken`, `FinishedSetsAreEqual`. The violations above show that
these need the hypothesis. `FinishedEqual` is a property of
`early_unequal` only, where it fails; with a careful application it is the theorem.

`PromiseIsKept` is the refinement: the mapping hides everything but the tries, the reports
and `Done`. A step that reports a leaf is a `Tell`, because the answer says that the other
side lacked the leaf at the beginning, and what it has gained since are keys that were
reported before (`KeysKept`); an insertion is an `Adopt`; every other step leaves tries and
reports alone. That `Done` stays honest over each of them is `DoneComplete` of the next
state, which `CarefulInv` gives.

`LoopsAreAllowed` says that the programs of `StrictLoop` call nothing that `TrieSync` does not
allow, so `SafetyInv` holds in their loops. `RunLeavesNothingBehind` asks why
`runStrictSync` may stop when one process p is done. `LoopInv` follows a round: where `done()` is
asked, nothing is under way (`RunChannels`), and a process without anything pending
is one that has been asked for subtries in this round, so what is pending still waits for
acknowledgments of what was sent (`RunWaits`; a cut is never empty). Now p waits for nothing, so
by `Aligned` the other one owes it no acknowledgment, and p owes none either; so the
other one waits for none, and then has nothing pending. It holds although reports are inserted
during the descent.

**The cut.** The state machine has one step; what has to be proved is the recursion.
`Cuts` says what a call for n entries below a node returns, given two vectors of other
calls: between one and n entries more, the vectors' keys with those of the node and no
key twice, at least two entries if the node has children and two were asked for, and
fewer than n only if no inner node is left to pop, of whichever call. The second last
part is why the refill loop ends: each round gives one entry up and gets two or more
(`RefillOnceFills`), so that after n rounds it has stopped (`RefillFills`). `CollectCuts`
is the step for n from all smaller numbers, and `CutsUpToCut` the induction, over a set of
numbers. That the recursive functions obey their equations at all is proved too
(`RefillRuns`, `CutsRun`). `CutKeepsItsContract` and `PrefixesAreATree` discharge, for the
code's cut and the prefixes of any keys, the assumptions under which the theorems about
`TrieSync` hold.

**Trie.** `TrieOf(S)`, defined without any history, is injective, and its nodes are the
tries of the sets of keys that share a prefix (`Blocks`, `SubtriesAreNodes`), so a record
can be judged by itself: it `Fits` a node whatever trie that node is in, and only its parent
says which trie it was last part of. That is why the root stays readable while parents are
overwritten. A sequence of writes `Leads` from one moment of the storage to another with a
set G in mind if every trie on the way can be read (`Safe`) and the root entry moves to the
trie of G only; puts of fitting records, the write of the root when the new trie is
complete, and deletions of nodes that the new root does not cover are such sequences
(`DoingPut`, `DoingRoot`, `DoingDelete`), and whatever prefix of one a crash keeps is safe.

`Reached` is the loop invariant of the climb, common to `insert` and `erase`: below the node
that the climb has come to, the new trie is stored with its parents, and everything else is
as it was. `RoundDone` is one round in terms of sets, `RoundInserted` and `RoundErased` show that
the two loops' different orders of writes are such rounds; the number of common bits falls
in each, so that `Depth` rounds are enough. The climb begins after `SplitsOff` (a key that leaves
the keys it was found among) or `LeafHasSibling`, and ends in `MovesRoot`. That the descent of
`insert` ends at the node that has to be split, or at the key itself, is `Locates` and
`DuplicateIsKnown`. `Inserts`, `Adds` and `Erases` put these together: on an `Exact` storage (the
nodes of the trie with their own parents, nothing else) an operation meets none of its
exceptions, and its writes lead to the exact storage of the set that it should make.

`KvInv` says that the storage is safe at any moment; between operations, as long as nothing
has crashed, it is exact and the size is right (`Resting`); during an operation the writes that
are left lead to the trie of its effect (`UnderWay`). The refinement follows: the step of `KeySet`
is the write of the root entry, or the clearing, every other write is a stutter. When no write is
left, the trie is that of the effect, which `KeySet` asks of a `Return`; a `Crash` is no
excuse for it, because both count crashes. The hypothesis
`LaterOps = 0` says that nothing is added or removed after a crash (reopening and further
crashes are allowed), as in `kv_trie`; `kv_crash` shows that without it the claims are wrong.

**Set.** Lengths of records go astray, so no invariant can say which hashes a
record holds. `SetInv` counts instead: a *claim* on a position is a key and a
hash function that has put the key there and has not taken it away, and a record
has at least as many entries as its position has claims (`RecordsCount`).
`Shortened` drops at most one entry and `remove` gives up one claim per step, so
the inequality is kept; a record that is deleted had one entry and that one claim,
so nobody relies on the bit that is cleared with it. The lemma `RemoveRecordStep`
is this argument; the other actions make no new claims (`QuietStep`,
`NoNewClaims`) or append one entry for one claim. From `SetInv` follow
`BitsAlwaysHaveRecords`, `RecordsAlwaysCount`, `FindIsRight` and `TypeCorrect`, and
`RestartsHideNothing` because opening sets a bit for every record.

**Loose synchronization.** None of the three properties is inductive. `LooseInv` adds
where the chunks are: those under way to a peer lie one behind the other, from its own
`inPos` to the sender's `outPos` (`ChunksInLine`, with a sequence of offsets that the code
does not have and the receiver never learns), each with a length that fits; so the next
one cannot reach behind the end, and when none is left and the output has ended
(`OutputEnds`) both positions are the size: `DiffNeverThrows`. A chunk under way *tells*
two things of its sender (`Tells`): every bit in it is still set there, and every bit that
was set when the synchronization began is in it. Both hold only until he erases something,
which is why the properties are about peers that have not. From the first follows that a
position that was compared is either reported or set on the other side (`Compared`), hence
`NothingIsMissed`; from the second, with `KeysInPlace` (a whole hash stands only in
records of its own positions, whatever is shortened or moved), that `diff` never
reports what the other side knew: `NoNeedlessReport`. The loops of `add` and `remove` over
the hash functions are recursive functions; `AddedToKeeps` and `RemovedFromKeeps` are
their loop invariants. Their induction is over a *set* of numbers (`SetInduction`, from
the theorem of the library that a well-founded set has minimal elements), because the
induction rules of the library take a predicate as a parameter.

**Plain filters.** `FilterInv` says of each filter that is `Exact` that it has the bits of every
element it has to contain (`Holds`), and of a stream what a filter loaded from it would have;
`CountOK` bounds `itemCount_` by the maximum. The argument is arithmetic: an index is a
byte and a bit in it, and a value below the size, divided by the width of a byte, is
below the number of bytes (`TypeOK`) although `size` need not be a multiple of it. That
a batch sets the bits `contains` asks for (`BatchSetsPositions`) needs a full last byte in the
class of the file, and that `operator ==` is exact needs it in both. That these conditions
cannot be dropped is proved as well: for every other size the value that is the size itself
means the bit 0 to `contains` and a later one to a batch (`BatchesNeedFullBytes`), and the
first bit of the last byte is shifted away (`LastBitsAreNotCompared`).

**C interface.** `CInv` joins the properties that need each other, with one more: where
an object exists, the error pointer beside it is null or valid (`ErrorsReadable`), so that a
function which gets as far as the object may replace the text of an earlier failure. Why it
holds lies in rules 1 to 4, and each action's proof uses the ones that guard it. The
assumption `HandlesAssumption` says that a handle is not the set.

**Hashes.** `MdInv` says of a context that is alive that it is `Ready`: it has the form of its
algorithm and remembers which variant it is, keeps the pads of the last key, and, while it is
in use, is `Good` for what it was fed (for HMAC with the inner pad in front). `Good` is
`Holds`: the message is a whole number of blocks, all compressed and in order, followed by a part
shorter than a block that lies at the beginning of the buffer (`Buffered`), and the two words
of `total` are its length (`Counts`). `UpdateTakes` is the heart: whatever the buffer holds and
however long the input is, update keeps this for the message with the input behind it, whether
the buffer is filled up, blocks go past it, or the input is too short for either; `CountedAdds`
is the carry. MD2, whose loop is another one and which has no count, has its own
(`Md2UpdateTakes`). Then a finish is two more updates, and what they add is what the standard
pads with: `PaddedIsStandard` shows that the length of the padding is the one number that
the standard asks for, that the code finds the bits of the length in the right words, and that
both byte orders are right. `Composed` says that each of the eight tables is made of its first
three functions in the same way, so that digests, keyed digests, resets and one-shot functions
follow once for all algorithms (`ReadyStarts` to `ReadyHmacFinish`). The loops over blocks and
over the rounds of MD2 are recursive functions; the inductions (`CompressedAppends`,
`Md2UpdateTakes`) are over sets of numbers again.

**Assumptions.** `PeersAssumption`, `BlocksAssumption`, `BuffersAssumption`,
`CutAssumption`; `ProgramsAssumption` (the programs are those of `StrictLoop`); `BitsAssumption` and `KeysAssumption` (the keys are a finite set, and keys that
agree in every bit are equal); `BoundsAssumption`; `BloomAssumption`, `FacadeAssumption`, `RecordsAssumption` (a hash has at
least one byte, and a shifted hash is no key), `LooseAssumption` (positions lie in the
filter, buffers have at least one byte), `BloomFiltersAssumption`, `HandlesAssumption`,
`DigestsAssumption` (a length field is shorter than a block, a word is a multiple of the
block and of 8, a digest fits a block), `PiecesAssumption` (a call is given less than a word
counts) and `LengthsAssumption` (the bits of a message fit the length field, beyond which the
standards define nothing). TLC evaluates all of them in the runs. The only
hypotheses of theorems beside them are `Careful` (synchronization), `LaterOps = 0` (trie) and
the full last byte of `EqualityIsExact`, or the lack of it in `LastBitsAreNotCompared`. `NoFalseNegatives` has its condition (`Exact`) in its
statement.

**Only model-checked.** Liveness (`LoopEnds` of `StrictLoop`, `Terminates` of `LooseSync`), which
the prover does not reach, and `OneSideIsThrough`. Every other invariant, every action property
and every refinement of the passing runs is proved.

## Assumptions and limits

* No hash collisions; a hash seen shifted by some bytes equals no key.
* A write to the storage succeeds and is atomic, and a crash keeps the writes
  made before it. Errors of the databases, their caches and transactions are
  not modelled.
* Messages of a synchronization are neither lost nor reordered: the library is
  handed complete buffers in order, and nothing in it numbers or repeats them.
* `SetFacade` has the trie as a set; that a crash may make its next `add` lose keys
  (`kv_crash`) is kept out of it. It looks at crashes between `Set`'s calls and
  the filter's writes.
* Sizes are integers: a size below zero stands for the value `size_t` wraps to, which is
  beyond every maximum (`Full` of `SetFacade`).
* `performhash = false` (deferred hashing), never asked for by `Set`, is left out,
  as are the byte counters of the process.

* Both filters of a loose synchronization have the same size, as `diff` takes for
  granted; its sets have no maximum.
* Streams of the plain filters do not fail; the copy constructor of `BloomFilter`
  (which leaves the hash function unset), the choice of a size by logarithms and
  `ExtendedDoubleHashingScheme`, which nothing uses, are left out.
* The `*_file` functions and the self tests of `crypto/` are not compiled
  (`POLARSSL_FS_IO` and `POLARSSL_SELF_TEST` are undefined); the compression
  functions themselves are not computed. OpenSSL is not modelled.

Not modelled at all, with the reasons in `PROJECT.json`: configuration, the
abstract `sync/` interface, utilities, programs.

## Plan

Done, in this order: strict synchronization with its cut, the trie in its
storage, the set with its filter and index; the inductive invariants of the
first and the third; loose synchronization, plain filters, hashes, C interface.

Then the proofs of `CInterface`, `BloomFilters` and `LooseSync`, and `Reconciliation` with
the proof that `TrieSync` implements it; then those of the cut, of the hashes and of the trie,
with the proof that it implements `KeySet`; then the loops of `testSync`, `testCAPI` and
`runStrictSync`, as a module that restricts `TrieSync`'s steps.

Next:

1. `OneSideIsThrough` for every value of the constants.
2. The trie after a crash: sizes, and which keys the operations that follow may lose.
3. `prefix_mask` of 8 bits in the trie, and buffers below the minimum in the cut.
