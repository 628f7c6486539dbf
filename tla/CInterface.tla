----------------------------- MODULE CInterface -----------------------------
(***************************************************************************)
(* The functions with C linkage at the end of Set.cpp.  A C program owns   *)
(* the structures of set.h: a SET (set, error) and SET_SYNC_HANDLEs        *)
(* (process, error), two untyped pointers each.  The functions hide a C++  *)
(* object behind the first pointer; they catch what the object throws and  *)
(* keep its text in a string behind the second one, which the first        *)
(* failure allocates and later ones overwrite.                             *)
(*                                                                         *)
(* A pointer is what a C program can make of it: "wild" in a structure     *)
(* that was never written, "null", "live", or "freed" after what it points *)
(* at has been deleted (no function resets a pointer).  What the methods   *)
(* compute is the subject of the other modules: here a call may answer     *)
(* every value of its type and may throw.                                  *)
(*                                                                         *)
(* The header states no rules for the caller.  The guards that begin with  *)
(* the word "Rule" are the weakest ones under which the functions are safe *)
(* (MemorySafe); the README discusses them.                                *)
(***************************************************************************)
EXTENDS Integers

CONSTANTS
    Handles    \* the handles of the program

TheSet == "set"

(* The structures are different places in memory. *)
ASSUME HandlesAssumption == TheSet \notin Handles

Objects == {TheSet} \union Handles

VARIABLES
    object,     \* the first pointer of each structure
    error,      \* the second pointer of each structure
    text,       \* the failure that the string behind error tells of
    attached,   \* the handles whose process belongs to the present C++ set
    latest,     \* the latest call: its argument and, if it caught something, what and its value
    heap,       \* what is allocated: the object and the string of each structure
    released,   \* the structures that were freed and not filled again
    invalid,    \* has a wild or freed pointer been followed?
    terminated  \* has an exception left a function? No C program can catch it.

vars == <<object, error, text, attached, latest, heap, released, invalid, terminated>>

-----------------------------------------------------------------------------
(* What can be thrown: exceptions that are derived from std::exception, by *)
(* storages, tries and filters, and plain strings, by processAcks and diff.*)
Kinds == {"exception", "string"}

NoFailure == "none"

(* The program's local variables before the first call. *)
Init ==
    /\ object \in [Objects -> {"wild", "null"}]
    /\ error = object                      \* declared, or cleared as a whole
    /\ text = [o \in Objects |-> NoFailure]
    /\ attached = {}
    /\ latest = [on |-> TheSet, value |-> 0, failure |-> NoFailure]
    /\ invalid = FALSE
    /\ heap = {}
    /\ released = {}
    /\ terminated = FALSE

(* A call that ends normally; one that has caught a failure: o is blamed. *)
Answered(value) == latest' = [on |-> TheSet, value |-> value, failure |-> NoFailure]
Failed(o, value, failure) == latest' = [on |-> o, value |-> value, failure |-> failure]

Follows(p) == invalid' = (invalid \/ p \in {"wild", "freed", "null"})

Block(o, field) == <<o, field>>

(* Fault: the string of an earlier failure is kept. *)
CaughtKeepingFirst(e, o, failure) ==
    /\ error' = [error EXCEPT ![o] = IF e = "null" THEN "live" ELSE e]
    /\ heap' = heap \union (IF e = "null" THEN {Block(o, "error")} ELSE {})
    /\ text' = [text EXCEPT ![o] = IF e = "null" THEN failure ELSE @]
    /\ invalid' = (invalid \/ e \in {"wild", "freed"})

(***************************************************************************)
(* The two catch blocks that end nearly every function, with e as the      *)
(* error field on entry: a new string, or the old one overwritten.  A text *)
(* that is not an exception's becomes "unknown error".                     *)
(***************************************************************************)
Caught(e, o, failure) ==
    /\ error' = [error EXCEPT ![o] = IF e = "null" THEN "live" ELSE e]
    /\ heap' = heap \union (IF e = "null" THEN {Block(o, "error")} ELSE {})
    /\ text' = [text EXCEPT ![o] = failure]
    /\ invalid' = (invalid \/ e \in {"wild", "freed"})

Failure(call, kind) == IF kind = "exception" THEN call ELSE "unknown error"

-----------------------------------------------------------------------------
(* Life of the set.                                                        *)

(* Rule: a structure that owns something is freed before it is used again. *)
Unused(o) == ~terminated /\ object[o] # "live" /\ error[o] # "live"

(* Fault: the field is left as it is. *)
ClearedNot(o) == error[o]

(* What the functions that begin with "error = NULL" make of the field. *)
Cleared(o) == "null"

Made(o) ==
    /\ object' = [object EXCEPT ![o] = "live"]
    /\ heap' = heap \union {Block(o, "object")}

(***************************************************************************)
(* set_init clears the error field first.  A constructor that throws       *)
(* leaves the set field as it was.                                         *)
(***************************************************************************)
SetInit ==
    /\ Unused(TheSet)
    /\ \/ /\ Made(TheSet)
          /\ error' = [error EXCEPT ![TheSet] = Cleared(TheSet)]
          /\ Answered(0)
          /\ UNCHANGED <<text, invalid>>
       \/ \E k \in Kinds :
             /\ Caught(Cleared(TheSet), TheSet, Failure("set_init", k))
             /\ Failed(TheSet, -1, Failure("set_init", k))
             /\ UNCHANGED object
    /\ released' = released \ {TheSet}
    /\ UNCHANGED <<attached, terminated>>

(***************************************************************************)
(* set_init_with_path does not clear it.                                   *)
(* Rule: the program clears the structure itself.                          *)
(***************************************************************************)
SetInitWithPath ==
    /\ Unused(TheSet)
    /\ error[TheSet] = "null"
    /\ \/ /\ Made(TheSet)
          /\ Answered(0)
          /\ UNCHANGED <<error, text, invalid>>
       \/ \E k \in Kinds :
             /\ Caught(error[TheSet], TheSet, Failure("set_init_with_path", k))
             /\ Failed(TheSet, -1, Failure("set_init_with_path", k))
             /\ UNCHANGED object
    /\ released' = released \ {TheSet}
    /\ UNCHANGED <<attached, terminated>>

(***************************************************************************)
(* set_free and set_sync_free_handle: delete of both pointers, which does  *)
(* nothing to a null pointer, and no assignment to them.                   *)
(* Rule: only what was made, or cleared, is freed, and only once.          *)
(***************************************************************************)
Freeable(o) == ~terminated /\ {object[o], error[o]} \subseteq {"live", "null"}

Deleted(p) == IF p = "null" THEN "null" ELSE "freed"

(* Faults: the string is not deleted, or its pointer just forgotten. *)
FreesObjectOnly(o) ==
    /\ object' = [object EXCEPT ![o] = Deleted(@)]
    /\ heap' = heap \ {Block(o, "object")}
    /\ invalid' = (invalid \/ object[o] \in {"wild", "freed"})
    /\ UNCHANGED error

FreesForgettingText(o) ==
    /\ object' = [object EXCEPT ![o] = Deleted(@)]
    /\ error' = [error EXCEPT ![o] = "null"]
    /\ heap' = heap \ {Block(o, "object")}
    /\ invalid' = (invalid \/ object[o] \in {"wild", "freed"})

Frees(o) ==
    /\ object' = [object EXCEPT ![o] = Deleted(@)]
    /\ error' = [error EXCEPT ![o] = Deleted(@)]
    /\ heap' = heap \ {Block(o, "object"), Block(o, "error")}
    /\ invalid' = (invalid \/ {object[o], error[o]} \intersect {"wild", "freed"} # {})

Freed(o, call) ==
    /\ Freeable(o)
    /\ Frees(o)
    /\ released' = released \union {o}
    /\ Answered(0)
    /\ UNCHANGED <<text, terminated>>

SetFree == Freed(TheSet, "set_free") /\ attached' = {}
FreeHandle(h) == Freed(h, "set_sync_free_handle") /\ attached' = attached \ {h}

(***************************************************************************)
(* The destructor of the set writes to its storages and may throw: the     *)
(* object's memory is given back all the same, the string is not, and the  *)
(* catch block may even make one.  (No destructor throws a string, and     *)
(* that of a process does not throw at all.)                               *)
(***************************************************************************)
SetFreeFails ==
    /\ Freeable(TheSet)
    /\ object[TheSet] = "live"
    /\ object' = [object EXCEPT ![TheSet] = "freed"]
    /\ error' = [error EXCEPT ![TheSet] = "live"]
    /\ heap' = (heap \ {Block(TheSet, "object")}) \union {Block(TheSet, "error")}
    /\ text' = [text EXCEPT ![TheSet] = Failure("set_free", "exception")]
    /\ attached' = {}
    /\ Failed(TheSet, -1, Failure("set_free", "exception"))
    /\ UNCHANGED <<released, invalid, terminated>>

(***************************************************************************)
(* set_sync_init_handle: an exception goes into the error of the set, and  *)
(* the handle's process is not written.                                    *)
(***************************************************************************)
InitHandle(h) ==
    /\ Unused(h)
    /\ object[TheSet] = "live"                      \* Rule: a set that was made
    /\ Made(h)
    /\ error' = [error EXCEPT ![h] = Cleared(h)]
    /\ attached' = attached \union {h}
    /\ released' = released \ {h}
    /\ Answered(0)
    /\ UNCHANGED <<text, invalid, terminated>>

InitHandleFails(h) ==
    /\ Unused(h)
    /\ object[TheSet] = "live"
    /\ LET e == error[TheSet]  failure == Failure("set_sync_init_handle", "exception") IN
          /\ error' = [error EXCEPT ![h] = Cleared(h), ![TheSet] = IF e = "null" THEN "live" ELSE e]
          /\ heap' = heap \union (IF e = "null" THEN {Block(TheSet, "error")} ELSE {})
          /\ text' = [text EXCEPT ![TheSet] = failure]
          /\ invalid' = (invalid \/ e \in {"wild", "freed"})
          /\ Failed(TheSet, -1, failure)
    /\ released' = released \ {h}
    /\ UNCHANGED <<object, attached, terminated>>

-----------------------------------------------------------------------------
(* Calls of methods.                                                       *)

(* Rule: the object was made and, for a process, its set is still there. *)
Usable(o) == ~terminated /\ object[o] = "live" /\ (o = TheSet \/ o \in attached)

(***************************************************************************)
(* A function without a catch block: the C++ runtime ends the program when *)
(* the method throws.                                                      *)
(***************************************************************************)
Plain(o, call, values, throws) ==
    /\ Usable(o)
    /\ Follows(object[o])
    /\ \/ \E v \in values : Answered(v) /\ UNCHANGED terminated
       \/ throws /\ terminated' = TRUE /\ UNCHANGED latest
    /\ UNCHANGED <<object, error, text, attached, heap, released>>

(***************************************************************************)
(* A function with one: it answers one of values, or a failure's value.    *)
(***************************************************************************)
Guarded(o, call, values, failed) ==
    /\ Usable(o)
    /\ \/ \E v \in values :
             /\ Answered(v)
             /\ Follows(object[o])
             /\ UNCHANGED <<error, text, heap>>
       \/ \E k \in Kinds :
             /\ Caught(error[o], o, Failure(call, k))
             /\ Failed(o, failed, Failure(call, k))
    /\ UNCHANGED <<object, attached, released, terminated>>

Bool == {0, 1}
Size == {0, 1}      \* nothing, and something

(* The size is a counter in memory.  The functions for strings hash their *)
(* argument and are otherwise the same.                                   *)
SetEmpty == Plain(TheSet, "set_empty", Bool, FALSE)
SetSize == Plain(TheSet, "set_size", Size, FALSE)
SetMaxSize == Plain(TheSet, "set_max_size", Size, FALSE)
SetFind == Plain(TheSet, "set_find", Bool, TRUE)
SetGetData == Plain(TheSet, "set_get_data", {0}, TRUE)
SetInsert == Plain(TheSet, "set_insert", Bool, TRUE)
SetInsertData == Plain(TheSet, "set_insert_data", Bool, TRUE)
SetErase == Plain(TheSet, "set_erase", Bool, TRUE)
SetClear == Guarded(TheSet, "set_clear", {0}, -1)

(* An empty trie has no root: -1 although nothing was thrown. *)
GetRootHash(h) == Guarded(h, "set_sync_get_root_hash", {0, -1}, -1)
IsEqualToHash(h) == Guarded(h, "set_sync_is_equal_to_hash", Bool, -1)
BfOutputAvail(h) == Guarded(h, "set_sync_bf_output_avail", Bool, -1)
(* The one function whose value for a failure is also one for success. *)
BfReadNextChunk(h) == Guarded(h, "set_sync_bf_read_next_chunk", Size, 0)
BfProcessChunk(h) == Guarded(h, "set_sync_bf_process_chunk", {0}, -1)
GetSubtrie(h) == Guarded(h, "set_sync_trie_get_subtrie", Size, -1)
ProcessSubtrie(h) == Guarded(h, "set_sync_trie_process_subtrie", Size, -1)
SubtrieOutputAvail(h) == Guarded(h, "set_sync_trie_subtrie_output_avail", Bool, -1)
AcksAvail(h) == Guarded(h, "set_sync_trie_acks_avail", Bool, -1)
ReadAcks(h) == Guarded(h, "set_sync_trie_read_acks", Size, -1)
ProcessAcks(h) == Guarded(h, "set_sync_trie_process_acks", {0}, -1)
SentBytes(h) == Plain(h, "set_sync_sent_bytes", Size, FALSE)
ReceivedBytes(h) == Plain(h, "set_sync_received_bytes", Size, FALSE)
SyncDone(h) == Plain(h, "set_sync_done", Bool, FALSE)
MinTrieBuffer(h) == Plain(h, "set_sync_min_trie_buffer", Size, FALSE)
MinBfBuffer(h) == Plain(h, "set_sync_min_bf_buffer", {1}, FALSE)
MinBuffer(h) == Plain(h, "set_sync_min_buffer", {1}, FALSE)
CalcOutputBufferSize(h) == Plain(h, "set_sync_calc_output_buffer_size", {1}, FALSE)

(***************************************************************************)
(* set_last_error_to_string and set_last_error_printf read the set's error *)
(* field; there is no such function for a handle.                          *)
(* Rule: the structure was cleared, or set_init has been called.           *)
(***************************************************************************)
LastError ==
    /\ ~terminated
    /\ error[TheSet] \in {"null", "live"}
    /\ Answered(IF error[TheSet] = "null" THEN -1 ELSE 0)
    /\ invalid' = (invalid \/ error[TheSet] \in {"wild", "freed"})
    /\ UNCHANGED <<object, error, text, attached, heap, released, terminated>>

HandleCall(h) ==
    \/ GetRootHash(h) \/ IsEqualToHash(h)
    \/ BfOutputAvail(h) \/ BfReadNextChunk(h) \/ BfProcessChunk(h)
    \/ SubtrieOutputAvail(h) \/ GetSubtrie(h) \/ ProcessSubtrie(h)
    \/ AcksAvail(h) \/ ReadAcks(h) \/ ProcessAcks(h)
    \/ SentBytes(h) \/ ReceivedBytes(h) \/ SyncDone(h)
    \/ MinTrieBuffer(h) \/ MinBfBuffer(h) \/ MinBuffer(h) \/ CalcOutputBufferSize(h)

SetCall ==
    \/ SetEmpty \/ SetSize \/ SetMaxSize \/ SetFind \/ SetGetData
    \/ SetInsert \/ SetInsertData \/ SetErase \/ SetClear \/ LastError

(* Nothing can be done after the end of the program. *)
Ended == terminated /\ UNCHANGED vars

Next ==
    \/ SetInit \/ SetInitWithPath \/ SetFree \/ SetFreeFails
    \/ SetCall
    \/ \E h \in Handles : InitHandle(h) \/ InitHandleFails(h) \/ FreeHandle(h) \/ HandleCall(h)
    \/ Ended

Spec == Init /\ [][Next]_vars

-----------------------------------------------------------------------------
Pointers == {"wild", "null", "live", "freed"}

(***************************************************************************)
(* Each structure of set.h holds two pointers, the heap holds at most what *)
(* they are for, and a process belongs to the set only while there is one. *)
(***************************************************************************)
TypeOK ==
    /\ object \in [Objects -> Pointers]
    /\ error \in [Objects -> Pointers]
    /\ DOMAIN text = Objects /\ latest.on \in Objects
    /\ \A o \in Objects :
          /\ object[o] = "live" <=> Block(o, "object") \in heap
          /\ error[o] = "live" <=> Block(o, "error") \in heap
    /\ heap \subseteq Objects \X {"object", "error"}
    /\ attached \subseteq {h \in Handles : object[h] = "live"}
    /\ released \subseteq Objects
    /\ {invalid, terminated} \subseteq BOOLEAN

(***************************************************************************)
(* A program that keeps the rules never makes a function of Set.cpp follow *)
(* a pointer that was not written or whose object is gone, whichever calls *)
(* fail and in whatever order sets and handles are made, used and freed.   *)
(***************************************************************************)
MemorySafe == ~invalid

(***************************************************************************)
(* A call that caught an exception has left its own text, not that of an   *)
(* earlier failure, behind the error pointer of its structure (of the set, *)
(* for set_sync_init_handle), and its value tells of the failure, except   *)
(* that set_sync_bf_read_next_chunk answers 0.                             *)
(***************************************************************************)
FailureHasMessage ==
    latest.failure # NoFailure =>
        /\ error[latest.on] = "live"
        /\ text[latest.on] = latest.failure
        /\ latest.value = -1 \/ latest.failure \in {"set_sync_bf_read_next_chunk", "unknown error"}

(***************************************************************************)
(* A structure that set_free or set_sync_free_handle has freed owns        *)
(* nothing any more, whatever failed before: neither the C++ object nor    *)
(* the text of a failure is left in the heap.                              *)
(***************************************************************************)
ReleasedOwnsNothing ==
    \A o \in released : {Block(o, "object"), Block(o, "error")} \intersect heap = {}

-----------------------------------------------------------------------------
(***************************************************************************)
(* What makes these invariants inductive: a function that gets as far as   *)
(* an object that exists may also follow its error pointer.                *)
(***************************************************************************)
ErrorsReadable == \A o \in Objects : object[o] = "live" => error[o] \in {"null", "live"}

CInv == TypeOK /\ MemorySafe /\ ErrorsReadable /\ ReleasedOwnsNothing

=============================================================================
