-------------------------- MODULE CInterfaceProofs --------------------------
(***************************************************************************)
(* Proofs about CInterface, for any number of handles and any number of    *)
(* calls, failures and reused structures.                                  *)
(***************************************************************************)
EXTENDS CInterface, TLAPS

-----------------------------------------------------------------------------
(* The steps are grouped by what they do to the structures.                *)

LEMMA Init_CInv == Init => CInv /\ FailureHasMessage
<1> SUFFICES ASSUME Init PROVE CInv /\ FailureHasMessage
  OBVIOUS
<1>1. \A o \in Objects : object[o] \in {"wild", "null"} /\ error[o] = object[o]
  BY DEF Init
<1>2. TypeOK
  <2>1. latest.on \in Objects
    BY DEF Init, NoFailure, Objects
  <2>2. DOMAIN text = Objects
    BY DEF Init, NoFailure
  <2>3. {invalid, terminated} \subseteq BOOLEAN
    BY Zenon DEF Init
  <2>4. object \in [Objects -> Pointers] /\ error \in [Objects -> Pointers]
    BY DEF Init, Pointers
  <2> QED
    BY <1>1, <2>1, <2>2, <2>3, <2>4 DEF Init, TypeOK
<1>3. MemorySafe
  BY DEF Init, MemorySafe
<1>4. ErrorsReadable
  BY <1>1 DEF ErrorsReadable
<1>5. ReleasedOwnsNothing
  BY DEF Init, ReleasedOwnsNothing
<1>6. FailureHasMessage
  BY DEF Init, FailureHasMessage
<1> QED
  BY <1>2, <1>3, <1>4, <1>5, <1>6 DEF CInv

(***************************************************************************)
(* A call changes one structure o (and may clear the error field of        *)
(* another one that owned no string): the invariant holds afterwards if it *)
(* holds for o.                                                            *)
(***************************************************************************)
LEMMA OneChanges ==
  ASSUME CInv, NEW o \in Objects,
         object' \in [Objects -> Pointers], error' \in [Objects -> Pointers],
         \A q \in Objects : q # o =>
            /\ object'[q] = object[q]
            /\ error'[q] = error[q] \/ (error'[q] = "null" /\ error[q] # "live"),
         \A q \in Objects, f \in {"object", "error"} :
            q # o => (Block(q, f) \in heap' <=> Block(q, f) \in heap),
         heap' \subseteq Objects \X {"object", "error"},
         object'[o] = "live" <=> Block(o, "object") \in heap',
         error'[o] = "live" <=> Block(o, "error") \in heap',
         object'[o] = "live" => error'[o] \in {"null", "live"},
         released' \subseteq released \union {o},
         o \in released' => object'[o] # "live" /\ error'[o] # "live",
         attached' \subseteq attached \union ({o} \intersect Handles),
         o \in attached' => object'[o] = "live",
         DOMAIN text' = Objects, latest'.on \in Objects,
         invalid' = FALSE, terminated' \in BOOLEAN
  PROVE  CInv'
<1>1. /\ \A q \in Objects :
            /\ object[q] = "live" <=> Block(q, "object") \in heap
            /\ error[q] = "live" <=> Block(q, "error") \in heap
      /\ released \subseteq Objects
      /\ \A h \in attached : h \in Handles /\ object[h] = "live"
  BY DEF CInv, TypeOK
<1>2. \A q \in Objects :
        /\ object'[q] = "live" <=> Block(q, "object") \in heap'
        /\ error'[q] = "live" <=> Block(q, "error") \in heap'
  <2> TAKE q \in Objects
  <2>1. CASE q = o
    BY <2>1
  <2>2. CASE q # o
    <3>1. /\ Block(q, "object") \in heap' <=> Block(q, "object") \in heap
          /\ Block(q, "error") \in heap' <=> Block(q, "error") \in heap
      BY <2>2
    <3>2. object'[q] = "live" <=> object[q] = "live"
      BY <2>2
    <3>3. error'[q] = "live" <=> error[q] = "live"
      BY <2>2
    <3> QED
      BY <1>1, <3>1, <3>2, <3>3
  <2> QED
    BY <2>1, <2>2
<1>3. attached' \subseteq {h \in Handles : object'[h] = "live"}
  <2> SUFFICES ASSUME NEW h \in attached'
               PROVE  h \in Handles /\ object'[h] = "live"
    OBVIOUS
  <2>1. h \in Handles /\ (h # o => object[h] = "live")
    BY <1>1
  <2>2. h \in Objects
    BY <2>1 DEF Objects
  <2> QED
    BY <2>1, <2>2
<1>4. TypeOK'
  <2>1. {invalid', terminated'} \subseteq BOOLEAN
    BY Zenon
  <2>2. released' \subseteq Objects
    BY <1>1
  <2> QED
    BY <1>2, <1>3, <2>1, <2>2 DEF TypeOK, Pointers, Block
<1>5. MemorySafe'
  BY DEF MemorySafe
<1>6. ErrorsReadable'
  BY DEF CInv, ErrorsReadable
<1>7. ReleasedOwnsNothing'
  <2> SUFFICES ASSUME NEW q \in released'
               PROVE  {Block(q, "object"), Block(q, "error")} \intersect heap' = {}
    BY DEF ReleasedOwnsNothing, Block
  <2>1. q \in Objects
    BY <1>1
  <2>2. CASE q = o
    BY <2>2, <1>2
  <2>3. CASE q # o
    <3>1. q \in released
      BY <2>3
    <3>2. Block(q, "object") \notin heap /\ Block(q, "error") \notin heap
      BY <3>1 DEF CInv, ReleasedOwnsNothing
    <3> QED
      BY <2>1, <2>3, <3>2
  <2> QED
    BY <2>2, <2>3
<1> QED
  BY <1>4, <1>5, <1>6, <1>7 DEF CInv

(* What is known of a structure before a call. *)
LEMMA Before ==
  ASSUME CInv
  PROVE  /\ object \in [Objects -> Pointers] /\ error \in [Objects -> Pointers]
         /\ DOMAIN text = Objects /\ latest.on \in Objects
         /\ \A o \in Objects : /\ object[o] = "live" <=> Block(o, "object") \in heap
                               /\ error[o] = "live" <=> Block(o, "error") \in heap
                               /\ object[o] = "live" => error[o] \in {"null", "live"}
                               /\ o \in released => object[o] # "live" /\ error[o] # "live"
                               /\ o \in attached => o \in Handles /\ object[o] = "live"
         /\ heap \subseteq Objects \X {"object", "error"}
         /\ invalid = FALSE
         /\ terminated \in BOOLEAN
<1>1. terminated \in BOOLEAN /\ invalid = FALSE
  BY Zenon DEF CInv, TypeOK, MemorySafe
<1>2. \A o \in Objects : o \in released => object[o] # "live" /\ error[o] # "live"
  BY DEF CInv, TypeOK, ReleasedOwnsNothing
<1> QED
  BY <1>1, <1>2 DEF CInv, TypeOK, ErrorsReadable

LEMMA HandleIsObject ==
  /\ TheSet \in Objects
  /\ \A h \in Handles : h \in Objects /\ h # TheSet
BY HandlesAssumption DEF Objects

(* Making an object whose error field is clear. *)
LEMMA MadeKeeps ==
  ASSUME CInv, NEW o \in Objects, Unused(o), Made(o),
         error' = [error EXCEPT ![o] = "null"],
         released' = released \ {o},
         attached' \subseteq attached \union ({o} \intersect Handles),
         Answered(0),
         UNCHANGED <<text, invalid, terminated>>
  PROVE  CInv' /\ FailureHasMessage'
<1>1. /\ object' = [object EXCEPT ![o] = "live"]
      /\ heap' = heap \union {Block(o, "object")}
      /\ object[o] # "live" /\ error[o] # "live"
  BY DEF Made, Unused
<1>2. object' \in [Objects -> Pointers] /\ error' \in [Objects -> Pointers]
  BY <1>1, Before DEF Pointers
<1>3. \A q \in Objects, f \in {"object", "error"} :
        q # o => (Block(q, f) \in heap' <=> Block(q, f) \in heap)
  BY <1>1 DEF Block
<1>4. heap' \subseteq Objects \X {"object", "error"}
  <2>1. heap \subseteq Objects \X {"object", "error"}
    BY Before
  <2>2. Block(o, "object") \in Objects \X {"object", "error"}
    BY DEF Block
  <2> QED
    BY <1>1, <2>1, <2>2
<1>5. Block(o, "object") \in heap' /\ Block(o, "error") \notin heap'
  BY <1>1, Before DEF Block
<1>6. CInv'
  <2>1. \A q \in Objects : q # o => object'[q] = object[q] /\ error'[q] = error[q]
    BY <1>1, Before
  <2>2. object'[o] = "live" /\ error'[o] = "null"
    BY <1>1, Before
  <2>3. latest'.on \in Objects
    BY HandleIsObject DEF Answered
  <2>4. DOMAIN text' = Objects /\ invalid' = FALSE /\ terminated' \in BOOLEAN
    BY Before
  <2> QED
    <3>1. \A q \in Objects : q # o =>
             /\ object'[q] = object[q]
             /\ error'[q] = error[q] \/ (error'[q] = "null" /\ error[q] # "live")
      BY <2>1
    <3>2. /\ object'[o] = "live" <=> Block(o, "object") \in heap'
          /\ error'[o] = "live" <=> Block(o, "error") \in heap'
          /\ object'[o] = "live" => error'[o] \in {"null", "live"}
      BY <1>5, <2>2
    <3>3. /\ released' \subseteq released \union {o}
          /\ o \in released' => object'[o] # "live" /\ error'[o] # "live"
          /\ o \in attached' => object'[o] = "live"
      BY <2>2
    <3>4. CInv /\ o \in Objects /\ attached' \subseteq attached \union ({o} \intersect Handles)
      OBVIOUS
    <3> QED
      BY ONLY <1>2, <1>3, <1>4, <2>3, <2>4, <3>1, <3>2, <3>3, <3>4, OneChanges, Zenon
<1>7. FailureHasMessage'
  BY DEF FailureHasMessage, Answered
<1> QED
  BY <1>6, <1>7

(***************************************************************************)
(* Catching a failure on behalf of o, whose error field was e (the field's *)
(* own value, or null because the function has cleared it).                *)
(***************************************************************************)
LEMMA CaughtKeeps ==
  ASSUME CInv, NEW o \in Objects, NEW e \in {"null", "live"}, NEW failure, NEW value,
         e = error[o] \/ (e = "null" /\ error[o] # "live"),
         Caught(e, o, failure), Failed(o, value, failure),
         value = -1 \/ failure \in {"set_sync_bf_read_next_chunk", "unknown error"},
         released' \subseteq released, o \notin released',
         UNCHANGED <<object, attached, terminated>>
  PROVE  CInv' /\ FailureHasMessage'
<1>1. /\ error' = [error EXCEPT ![o] = "live"]
      /\ heap' = heap \union {Block(o, "error")}
      /\ text' = [text EXCEPT ![o] = failure]
  <2>1. CASE e = "null"
    BY <2>1 DEF Caught
  <2>2. CASE e = "live"
    <3>1. error[o] = "live" /\ Block(o, "error") \in heap
      BY <2>2, Before
    <3> QED
      BY <2>2, <3>1 DEF Caught
  <2> QED
    BY <2>1, <2>2
<1>2. object' \in [Objects -> Pointers] /\ error' \in [Objects -> Pointers]
  BY <1>1, Before DEF Pointers
<1>3. \A q \in Objects, f \in {"object", "error"} :
        q # o => (Block(q, f) \in heap' <=> Block(q, f) \in heap)
  BY <1>1 DEF Block
<1>4. heap' \subseteq Objects \X {"object", "error"}
  <2>1. heap \subseteq Objects \X {"object", "error"}
    BY Before
  <2>2. Block(o, "error") \in Objects \X {"object", "error"}
    BY DEF Block
  <2> QED
    BY <1>1, <2>1, <2>2
<1>5. /\ Block(o, "object") \in heap' <=> Block(o, "object") \in heap
      /\ Block(o, "error") \in heap'
  BY <1>1 DEF Block
<1>6. /\ \A q \in Objects : q # o => object'[q] = object[q] /\ error'[q] = error[q]
      /\ object'[o] = object[o] /\ error'[o] = "live"
      /\ DOMAIN text' = Objects /\ text'[o] = failure
  BY <1>1, Before
<1>7. latest' = [on |-> o, value |-> value, failure |-> failure]
  BY DEF Failed
<1>8. invalid' = FALSE
  <2>1. invalid' = (invalid \/ e \in {"wild", "freed"}) /\ e \notin {"wild", "freed"}
    BY DEF Caught
  <2> QED
    BY <2>1, Before, Zenon
<1>9. CInv'
  <2>1. latest'.on \in Objects /\ terminated' \in BOOLEAN
    BY <1>7, Before
  <2>2. object'[o] = "live" <=> Block(o, "object") \in heap'
    BY <1>5, <1>6, Before
  <2>3. /\ attached' \subseteq attached \union ({o} \intersect Handles)
        /\ o \in attached' => object'[o] = "live"
    BY <1>6, Before
  <2> QED
    <3>1. \A q \in Objects : q # o =>
             /\ object'[q] = object[q]
             /\ error'[q] = error[q] \/ (error'[q] = "null" /\ error[q] # "live")
      BY <1>6
    <3>2. /\ error'[o] = "live" <=> Block(o, "error") \in heap'
          /\ object'[o] = "live" => error'[o] \in {"null", "live"}
      BY <1>5, <1>6
    <3>3. /\ released' \subseteq released \union {o}
          /\ o \in released' => object'[o] # "live" /\ error'[o] # "live"
      OBVIOUS
    <3>4. CInv /\ o \in Objects /\ DOMAIN text' = Objects
      BY <1>6
    <3> QED
      BY ONLY <1>2, <1>3, <1>4, <1>8, <2>1, <2>2, <2>3, <3>1, <3>2, <3>3, <3>4,
              OneChanges, Zenon
<1>10. FailureHasMessage'
  BY <1>6, <1>7 DEF FailureHasMessage
<1> QED
  BY <1>9, <1>10

(* A call that does not touch the structures. *)
LEMMA QuietKeeps ==
  ASSUME CInv, FailureHasMessage,
         UNCHANGED <<object, error, text, attached, heap, released>>,
         UNCHANGED latest \/ \E v : Answered(v),
         invalid' = FALSE, terminated' \in BOOLEAN
  PROVE  CInv' /\ FailureHasMessage'
<1>1. latest'.on \in Objects
  BY Before, HandleIsObject DEF Answered
<1>2. {invalid', terminated'} \subseteq BOOLEAN
  BY Zenon
<1>3. TypeOK'
  BY <1>1, <1>2, Before DEF CInv, TypeOK
<1>4. CInv'
  BY <1>3 DEF CInv, MemorySafe, ErrorsReadable, ReleasedOwnsNothing
<1>5. FailureHasMessage'
  <2>1. CASE UNCHANGED latest
    BY <2>1 DEF FailureHasMessage
  <2>2. CASE \E v : Answered(v)
    <3>1. latest'.failure = NoFailure
      BY <2>2 DEF Answered
    <3> QED
      BY <3>1 DEF FailureHasMessage
  <2> QED
    BY <2>1, <2>2
<1> QED
  BY <1>4, <1>5

(* Freeing a structure that was made or cleared. *)
LEMMA FreedKeeps ==
  ASSUME CInv, NEW o \in Objects, NEW call, Freed(o, call),
         attached' \subseteq attached, o \notin attached'
  PROVE  CInv' /\ FailureHasMessage'
<1>1. /\ object' = [object EXCEPT ![o] = Deleted(object[o])]
      /\ error' = [error EXCEPT ![o] = Deleted(error[o])]
      /\ heap' = heap \ {Block(o, "object"), Block(o, "error")}
      /\ object[o] \in {"live", "null"} /\ error[o] \in {"live", "null"}
      /\ released' = released \union {o}
      /\ UNCHANGED <<text, terminated>>
  BY DEF Freed, Frees, Freeable
<1>2. Deleted(object[o]) \in {"null", "freed"} /\ Deleted(error[o]) \in {"null", "freed"}
  BY DEF Deleted
<1>3. object' \in [Objects -> Pointers] /\ error' \in [Objects -> Pointers]
  BY <1>1, <1>2, Before DEF Pointers
<1>4. \A q \in Objects, f \in {"object", "error"} :
        q # o => (Block(q, f) \in heap' <=> Block(q, f) \in heap)
  BY <1>1 DEF Block
<1>5. heap' \subseteq Objects \X {"object", "error"}
  <2>1. heap \subseteq Objects \X {"object", "error"}
    BY Before
  <2> QED
    BY <1>1, <2>1
<1>6. Block(o, "object") \notin heap' /\ Block(o, "error") \notin heap'
  BY <1>1
<1>7. /\ \A q \in Objects : q # o => object'[q] = object[q] /\ error'[q] = error[q]
      /\ object'[o] # "live" /\ error'[o] # "live"
  BY <1>1, <1>2, Before
<1>8. latest'.on \in Objects /\ latest'.failure = NoFailure
  BY HandleIsObject DEF Freed, Answered
<1>9. invalid' = FALSE
  <2>1. invalid' = (invalid \/ {object[o], error[o]} \intersect {"wild", "freed"} # {})
    BY DEF Freed, Frees
  <2>2. {object[o], error[o]} \intersect {"wild", "freed"} = {}
    BY <1>1
  <2> QED
    BY <2>1, <2>2, Before, Zenon
<1>10. CInv'
  <2>1. DOMAIN text' = Objects /\ terminated' \in BOOLEAN
    BY <1>1, Before
  <2>2. \A q \in Objects : q # o =>
           /\ object'[q] = object[q]
           /\ error'[q] = error[q] \/ (error'[q] = "null" /\ error[q] # "live")
    BY <1>7
  <2>3. /\ object'[o] = "live" <=> Block(o, "object") \in heap'
        /\ error'[o] = "live" <=> Block(o, "error") \in heap'
        /\ object'[o] = "live" => error'[o] \in {"null", "live"}
        /\ o \in released' => object'[o] # "live" /\ error'[o] # "live"
    BY <1>6, <1>7
  <2>4. /\ released' \subseteq released \union {o}
        /\ attached' \subseteq attached \union ({o} \intersect Handles)
        /\ o \in attached' => object'[o] = "live"
    BY <1>1
  <2> QED
    BY <1>3, <1>4, <1>5, <1>8, <1>9, <2>1, <2>2, <2>3, <2>4, OneChanges, Zenon
<1>11. FailureHasMessage'
  BY <1>8 DEF FailureHasMessage
<1> QED
  BY <1>10, <1>11

(* Freeing a set whose destructor throws: its string stays, or is made. *)
LEMMA SetFreeFailsKeeps ==
  ASSUME CInv, SetFreeFails
  PROVE  CInv' /\ FailureHasMessage'
<1> DEFINE failure == Failure("set_free", "exception")
<1>1. /\ object[TheSet] = "live"
      /\ object' = [object EXCEPT ![TheSet] = "freed"]
      /\ error' = [error EXCEPT ![TheSet] = "live"]
      /\ heap' = (heap \ {Block(TheSet, "object")}) \union {Block(TheSet, "error")}
      /\ text' = [text EXCEPT ![TheSet] = failure]
      /\ attached' = {}
      /\ UNCHANGED <<released, terminated>>
  BY DEF SetFreeFails
<1>2. latest' = [on |-> TheSet, value |-> -1, failure |-> failure]
  BY DEF SetFreeFails, Failed
<1>3. invalid' = FALSE
  BY Before, Zenon DEF SetFreeFails
<1> HIDE DEF failure
<1>4. TheSet \in Objects
  BY HandleIsObject
<1>5. object' \in [Objects -> Pointers] /\ error' \in [Objects -> Pointers]
  BY <1>1, Before DEF Pointers
<1>6. \A q \in Objects, f \in {"object", "error"} :
        q # TheSet => (Block(q, f) \in heap' <=> Block(q, f) \in heap)
  BY <1>1 DEF Block
<1>7. heap' \subseteq Objects \X {"object", "error"}
  <2>1. heap \subseteq Objects \X {"object", "error"}
    BY Before
  <2>2. Block(TheSet, "error") \in Objects \X {"object", "error"}
    BY <1>4 DEF Block
  <2> QED
    BY <1>1, <2>1, <2>2
<1>8. Block(TheSet, "object") \notin heap' /\ Block(TheSet, "error") \in heap'
  BY <1>1 DEF Block
<1>9. /\ \A q \in Objects : q # TheSet => object'[q] = object[q] /\ error'[q] = error[q]
      /\ object'[TheSet] = "freed" /\ error'[TheSet] = "live"
      /\ DOMAIN text' = Objects /\ text'[TheSet] = failure
  BY <1>1, <1>4, Before
<1>10. TheSet \notin released' /\ latest'.on \in Objects /\ terminated' \in BOOLEAN
  BY <1>1, <1>2, <1>4, Before
<1>11. CInv'
  <2>1. \A q \in Objects : q # TheSet =>
           /\ object'[q] = object[q]
           /\ error'[q] = error[q] \/ (error'[q] = "null" /\ error[q] # "live")
    BY <1>9
  <2>2. /\ object'[TheSet] = "live" <=> Block(TheSet, "object") \in heap'
        /\ error'[TheSet] = "live" <=> Block(TheSet, "error") \in heap'
        /\ object'[TheSet] = "live" => error'[TheSet] \in {"null", "live"}
        /\ TheSet \in released' => object'[TheSet] # "live" /\ error'[TheSet] # "live"
    BY <1>8, <1>9, <1>10
  <2>3. /\ released' \subseteq released \union {TheSet}
        /\ attached' \subseteq attached \union ({TheSet} \intersect Handles)
        /\ TheSet \in attached' => object'[TheSet] = "live"
    BY <1>1
  <2> QED
    BY <1>3, <1>4, <1>5, <1>6, <1>7, <1>9, <1>10, <2>1, <2>2, <2>3, OneChanges, Zenon
<1>12. FailureHasMessage'
  BY <1>2, <1>9 DEF FailureHasMessage
<1> QED
  BY <1>11, <1>12

(***************************************************************************)
(* set_sync_init_handle that fails clears the error field of the handle    *)
(* and blames the set.                                                     *)
(***************************************************************************)
LEMMA InitHandleFailsKeeps ==
  ASSUME CInv, NEW h \in Handles, InitHandleFails(h)
  PROVE  CInv' /\ FailureHasMessage'
<1> DEFINE failure == Failure("set_sync_init_handle", "exception")
<1>1. TheSet \in Objects /\ h \in Objects /\ h # TheSet
  BY HandleIsObject
<1>2. error[h] # "live" /\ object[TheSet] = "live" /\ error[TheSet] \in {"null", "live"}
  BY <1>1, Before DEF InitHandleFails, Unused
<1>3. /\ error' = [error EXCEPT ![h] = "null", ![TheSet] = "live"]
      /\ heap' = heap \union {Block(TheSet, "error")}
      /\ text' = [text EXCEPT ![TheSet] = failure]
  <2>1. CASE error[TheSet] = "null"
    BY <2>1 DEF InitHandleFails, Cleared
  <2>2. CASE error[TheSet] = "live"
    <3>1. Block(TheSet, "error") \in heap
      BY <1>1, <2>2, Before
    <3> QED
      BY <2>2, <3>1 DEF InitHandleFails, Cleared
  <2> QED
    BY <1>2, <2>1, <2>2
<1>4. latest' = [on |-> TheSet, value |-> -1, failure |-> failure]
  BY DEF InitHandleFails, Failed
<1>5. invalid' = FALSE
  <2>1. /\ invalid' = (invalid \/ error[TheSet] \in {"wild", "freed"})
        /\ error[TheSet] \notin {"wild", "freed"}
    BY <1>2 DEF InitHandleFails
  <2> QED
    BY <2>1, Before, Zenon
<1>6. released' = released \ {h} /\ UNCHANGED <<object, attached, terminated>>
  BY DEF InitHandleFails
<1> HIDE DEF failure
<1>7. object' \in [Objects -> Pointers] /\ error' \in [Objects -> Pointers]
  BY <1>1, <1>3, <1>6, Before DEF Pointers
<1>8. \A q \in Objects, f \in {"object", "error"} :
        q # TheSet => (Block(q, f) \in heap' <=> Block(q, f) \in heap)
  BY <1>3 DEF Block
<1>9. heap' \subseteq Objects \X {"object", "error"}
  <2>1. heap \subseteq Objects \X {"object", "error"}
    BY Before
  <2>2. Block(TheSet, "error") \in Objects \X {"object", "error"}
    BY <1>1 DEF Block
  <2> QED
    BY <1>3, <2>1, <2>2
<1>10. /\ Block(TheSet, "object") \in heap' <=> Block(TheSet, "object") \in heap
       /\ Block(TheSet, "error") \in heap'
  BY <1>3 DEF Block
<1>11. /\ \A q \in Objects : q # TheSet => object'[q] = object[q]
                                 /\ error'[q] = IF q = h THEN "null" ELSE error[q]
       /\ object'[TheSet] = object[TheSet] /\ error'[TheSet] = "live"
       /\ DOMAIN text' = Objects /\ text'[TheSet] = failure
  BY <1>1, <1>3, <1>6, Before
<1>12. CInv'
  <2>1. latest'.on \in Objects /\ terminated' \in BOOLEAN
    BY <1>1, <1>4, <1>6, Before
  <2>2. object'[TheSet] = "live" <=> Block(TheSet, "object") \in heap'
    BY <1>1, <1>10, <1>11, Before
  <2>3. TheSet \notin released' /\ released' \subseteq released \union {TheSet}
    BY <1>1, <1>2, <1>6, Before
  <2>4. \A q \in Objects : q # TheSet =>
          /\ object'[q] = object[q]
          /\ error'[q] = error[q] \/ (error'[q] = "null" /\ error[q] # "live")
    BY <1>2, <1>11
  <2>5. /\ attached' \subseteq attached \union ({TheSet} \intersect Handles)
        /\ TheSet \in attached' => object'[TheSet] = "live"
    BY <1>2, <1>6, <1>11
  <2> QED
    BY <1>1, <1>5, <1>7, <1>8, <1>9, <1>10, <1>11, <2>1, <2>2, <2>3, <2>4, <2>5, OneChanges
<1>13. FailureHasMessage'
  BY <1>4, <1>11 DEF FailureHasMessage
<1> QED
  BY <1>12, <1>13

(* The two kinds of calls of methods. *)
LEMMA PlainKeeps ==
  ASSUME CInv, FailureHasMessage, NEW o \in Objects, NEW call, NEW values, NEW throws,
         Plain(o, call, values, throws)
  PROVE  CInv' /\ FailureHasMessage'
<1>1. UNCHANGED <<object, error, text, attached, heap, released>>
  BY DEF Plain
<1>2. UNCHANGED latest \/ \E v : Answered(v)
  BY DEF Plain
<1>3. terminated' \in BOOLEAN
  <2>1. terminated' = terminated \/ terminated' = TRUE
    BY Zenon DEF Plain
  <2> QED
    BY <2>1, Before
<1>4. invalid' = FALSE
  <2>1. object[o] \notin {"wild", "freed", "null"}
    BY DEF Plain, Usable
  <2>2. invalid' = (invalid \/ object[o] \in {"wild", "freed", "null"})
    BY DEF Plain, Follows
  <2> QED
    BY <2>1, <2>2, Before, Zenon
<1> QED
  BY <1>1, <1>2, <1>3, <1>4, QuietKeeps

LEMMA GuardedKeeps ==
  ASSUME CInv, FailureHasMessage, NEW o \in Objects, NEW call, NEW values, NEW failed,
         failed = -1 \/ call = "set_sync_bf_read_next_chunk",
         Guarded(o, call, values, failed)
  PROVE  CInv' /\ FailureHasMessage'
<1>1. object[o] = "live" /\ UNCHANGED <<object, attached, released, terminated>>
  BY DEF Guarded, Usable
<1>2. CASE \E v \in values : /\ Answered(v)
                             /\ Follows(object[o])
                             /\ UNCHANGED <<error, text, heap>>
  <2>1. invalid' = FALSE
    <3>1. /\ invalid' = (invalid \/ object[o] \in {"wild", "freed", "null"})
          /\ object[o] \notin {"wild", "freed", "null"}
      BY <1>1, <1>2 DEF Follows
    <3> QED
      BY <3>1, Before, Zenon
  <2>2. terminated' \in BOOLEAN
    BY <1>1, Before
  <2>3. UNCHANGED <<object, error, text, attached, heap, released>> /\ \E v : Answered(v)
    BY <1>1, <1>2
  <2> QED
    BY <2>1, <2>2, <2>3, QuietKeeps
<1>3. CASE \E k \in Kinds : /\ Caught(error[o], o, Failure(call, k))
                            /\ Failed(o, failed, Failure(call, k))
  <2>1. PICK k \in Kinds : /\ Caught(error[o], o, Failure(call, k))
                           /\ Failed(o, failed, Failure(call, k))
    BY <1>3
  <2>2. failed = -1 \/ Failure(call, k) \in {"set_sync_bf_read_next_chunk", "unknown error"}
    <3>1. Failure(call, k) = call \/ Failure(call, k) = "unknown error"
      BY DEF Failure
    <3> QED
      BY <3>1
  <2>3. error[o] \in {"null", "live"} /\ o \notin released
    BY <1>1, Before
  <2>4. released' \subseteq released /\ o \notin released'
    BY <1>1, <2>3
  <2> QED
    BY <1>1, <2>1, <2>2, <2>3, <2>4, CaughtKeeps
<1> QED
  BY <1>2, <1>3 DEF Guarded

(* The calls that make an object or fail to do so. *)
LEMMA SetInitKeeps ==
  ASSUME CInv, SetInit
  PROVE  CInv' /\ FailureHasMessage'
<1>1. /\ TheSet \in Objects /\ Unused(TheSet) /\ released' = released \ {TheSet}
      /\ UNCHANGED <<attached, terminated>>
  BY HandleIsObject DEF SetInit
<1>2. CASE /\ Made(TheSet)
           /\ error' = [error EXCEPT ![TheSet] = Cleared(TheSet)]
           /\ Answered(0)
           /\ UNCHANGED <<text, invalid>>
  <2>1. error' = [error EXCEPT ![TheSet] = "null"]
    BY <1>2 DEF Cleared
  <2>2. attached' \subseteq attached \union ({TheSet} \intersect Handles)
    BY <1>1
  <2> QED
    BY <1>1, <1>2, <2>1, <2>2, MadeKeeps
<1>3. ASSUME NEW k \in Kinds,
             Caught(Cleared(TheSet), TheSet, Failure("set_init", k)),
             Failed(TheSet, -1, Failure("set_init", k)),
             UNCHANGED object
      PROVE  CInv' /\ FailureHasMessage'
  <2>1. Cleared(TheSet) = "null" /\ error[TheSet] # "live"
    BY <1>1 DEF Cleared, Unused
  <2>2. released' \subseteq released /\ TheSet \notin released'
    BY <1>1
  <2> QED
    BY <1>1, <1>3, <2>1, <2>2, CaughtKeeps
<1> QED
  BY <1>2, <1>3 DEF SetInit

LEMMA SetInitWithPathKeeps ==
  ASSUME CInv, SetInitWithPath
  PROVE  CInv' /\ FailureHasMessage'
<1>1. /\ TheSet \in Objects /\ Unused(TheSet) /\ released' = released \ {TheSet}
      /\ error[TheSet] = "null"
      /\ UNCHANGED <<attached, terminated>>
  BY HandleIsObject DEF SetInitWithPath
<1>2. CASE Made(TheSet) /\ Answered(0) /\ UNCHANGED <<error, text, invalid>>
  <2>1. error' = [error EXCEPT ![TheSet] = "null"]
    BY <1>1, <1>2, Before
  <2>2. attached' \subseteq attached \union ({TheSet} \intersect Handles)
    BY <1>1
  <2> QED
    BY <1>1, <1>2, <2>1, <2>2, MadeKeeps
<1>3. ASSUME NEW k \in Kinds,
             Caught(error[TheSet], TheSet, Failure("set_init_with_path", k)),
             Failed(TheSet, -1, Failure("set_init_with_path", k)),
             UNCHANGED object
      PROVE  CInv' /\ FailureHasMessage'
  <2>1. released' \subseteq released /\ TheSet \notin released'
    BY <1>1
  <2> QED
    BY <1>1, <1>3, <2>1, CaughtKeeps
<1> QED
  BY <1>2, <1>3 DEF SetInitWithPath

LEMMA InitHandleKeeps ==
  ASSUME CInv, NEW h \in Handles, InitHandle(h)
  PROVE  CInv' /\ FailureHasMessage'
<1>1. /\ h \in Objects /\ Unused(h) /\ Made(h) /\ released' = released \ {h}
      /\ error' = [error EXCEPT ![h] = "null"]
      /\ attached' \subseteq attached \union ({h} \intersect Handles)
      /\ Answered(0)
      /\ UNCHANGED <<text, invalid, terminated>>
  BY HandleIsObject DEF InitHandle, Cleared
<1> QED
  BY <1>1, MadeKeeps

LEMMA LastErrorKeeps ==
  ASSUME CInv, FailureHasMessage, LastError
  PROVE  CInv' /\ FailureHasMessage'
<1>1. UNCHANGED <<object, error, text, attached, heap, released, terminated>>
  BY DEF LastError
<1>2. \E v : Answered(v)
  BY DEF LastError
<1>3. invalid' = FALSE
  <2>1. /\ invalid' = (invalid \/ error[TheSet] \in {"wild", "freed"})
        /\ error[TheSet] \notin {"wild", "freed"}
    BY DEF LastError
  <2> QED
    BY <2>1, Before, Zenon
<1>4. terminated' \in BOOLEAN
  BY <1>1, Before
<1> QED
  BY <1>1, <1>2, <1>3, <1>4, QuietKeeps

LEMMA SetCallKeeps ==
  ASSUME CInv, FailureHasMessage, SetCall
  PROVE  CInv' /\ FailureHasMessage'
<1>1. TheSet \in Objects
  BY HandleIsObject
<1>2. CASE \/ SetEmpty \/ SetSize \/ SetMaxSize \/ SetFind \/ SetGetData
           \/ SetInsert \/ SetInsertData \/ SetErase
  <2>1. \E call, values, throws : Plain(TheSet, call, values, throws)
    BY <1>2 DEF SetEmpty, SetSize, SetMaxSize, SetFind, SetGetData, SetInsert,
                SetInsertData, SetErase
  <2> QED
    BY <1>1, <2>1, PlainKeeps
<1>3. CASE SetClear
  BY <1>1, <1>3, GuardedKeeps DEF SetClear
<1>4. CASE LastError
  BY <1>4, LastErrorKeeps
<1> QED
  BY <1>2, <1>3, <1>4 DEF SetCall

LEMMA HandleCallKeeps ==
  ASSUME CInv, FailureHasMessage, NEW h \in Handles, HandleCall(h)
  PROVE  CInv' /\ FailureHasMessage'
<1>1. h \in Objects
  BY HandleIsObject
<1>2. CASE \/ SentBytes(h) \/ ReceivedBytes(h) \/ SyncDone(h) \/ MinTrieBuffer(h)
           \/ MinBfBuffer(h) \/ MinBuffer(h) \/ CalcOutputBufferSize(h)
  <2>1. \E call, values, throws : Plain(h, call, values, throws)
    BY <1>2 DEF SentBytes, ReceivedBytes, SyncDone, MinTrieBuffer, MinBfBuffer, MinBuffer,
                CalcOutputBufferSize
  <2> QED
    BY <1>1, <2>1, PlainKeeps
<1>3. CASE \/ GetRootHash(h) \/ IsEqualToHash(h) \/ BfOutputAvail(h) \/ BfProcessChunk(h)
           \/ SubtrieOutputAvail(h) \/ GetSubtrie(h) \/ ProcessSubtrie(h)
           \/ AcksAvail(h) \/ ReadAcks(h) \/ ProcessAcks(h)
  <2>1. \E call, values : Guarded(h, call, values, -1)
    BY <1>3 DEF GetRootHash, IsEqualToHash, BfOutputAvail, BfProcessChunk, SubtrieOutputAvail,
                GetSubtrie, ProcessSubtrie, AcksAvail, ReadAcks, ProcessAcks
  <2> QED
    BY <1>1, <2>1, GuardedKeeps
<1>4. CASE BfReadNextChunk(h)
  BY <1>1, <1>4, GuardedKeeps DEF BfReadNextChunk
<1> QED
  BY <1>2, <1>3, <1>4 DEF HandleCall

LEMMA FreeKeeps ==
  ASSUME CInv, SetFree \/ \E h \in Handles : FreeHandle(h)
  PROVE  CInv' /\ FailureHasMessage'
<1>1. CASE SetFree
  BY <1>1, HandleIsObject, FreedKeeps DEF SetFree
<1>2. ASSUME NEW h \in Handles, FreeHandle(h)
      PROVE  CInv' /\ FailureHasMessage'
  <2>1. h \in Objects /\ Freed(h, "set_sync_free_handle") /\ attached' = attached \ {h}
    BY <1>2, HandleIsObject DEF FreeHandle
  <2> QED
    BY <2>1, FreedKeeps
<1> QED
  BY <1>1, <1>2

LEMMA Next_CInv == CInv /\ FailureHasMessage /\ [Next]_vars => CInv' /\ FailureHasMessage'
<1> SUFFICES ASSUME CInv, FailureHasMessage, [Next]_vars
             PROVE  CInv' /\ FailureHasMessage'
  OBVIOUS
<1>1. CASE SetInit
  BY <1>1, SetInitKeeps
<1>2. CASE SetInitWithPath
  BY <1>2, SetInitWithPathKeeps
<1>3. CASE SetFree \/ \E h \in Handles : FreeHandle(h)
  BY <1>3, FreeKeeps
<1>4. CASE SetFreeFails
  BY <1>4, SetFreeFailsKeeps
<1>5. CASE SetCall
  BY <1>5, SetCallKeeps
<1>6. ASSUME NEW h \in Handles, InitHandle(h)
      PROVE  CInv' /\ FailureHasMessage'
  BY <1>6, InitHandleKeeps
<1>7. ASSUME NEW h \in Handles, InitHandleFails(h)
      PROVE  CInv' /\ FailureHasMessage'
  BY <1>7, InitHandleFailsKeeps
<1>8. ASSUME NEW h \in Handles, HandleCall(h)
      PROVE  CInv' /\ FailureHasMessage'
  BY <1>8, HandleCallKeeps
<1>9. CASE UNCHANGED vars
  <2>1. UNCHANGED <<object, error, text, attached, heap, released>> /\ UNCHANGED latest
    BY <1>9 DEF vars
  <2>2. invalid' = FALSE /\ terminated' \in BOOLEAN
    BY <1>9, Before, Zenon DEF vars
  <2> QED
    BY <2>1, <2>2, QuietKeeps
<1> QED
  BY <1>1, <1>2, <1>3, <1>4, <1>5, <1>6, <1>7, <1>8, <1>9 DEF Next, Ended

-----------------------------------------------------------------------------
(* The results.                                                            *)

LEMMA CInvAlways == Spec => [](CInv /\ FailureHasMessage)
BY Init_CInv, Next_CInv, PTL DEF Spec

(***************************************************************************)
(* The structures, the heap and the lists of processes stay consistent: a  *)
(* pointer is live exactly while what it points at is allocated, and only  *)
(* processes that exist belong to the set.                                 *)
(***************************************************************************)
THEOREM PointersMatchTheHeap == Spec => []TypeOK
<1>1. CInv => TypeOK
  BY DEF CInv
<1> QED
  BY <1>1, CInvAlways, PTL

(***************************************************************************)
(* With any number of handles, no function of Set.cpp follows a pointer    *)
(* that was never written or whose object has been deleted, as long as the *)
(* program keeps the rules that are the guards of CInterface.              *)
(***************************************************************************)
THEOREM RulesMakeCallsSafe == Spec => []MemorySafe
<1>1. CInv => MemorySafe
  BY DEF CInv
<1> QED
  BY <1>1, CInvAlways, PTL

(***************************************************************************)
(* Right after a call that caught something, the structure it blames holds *)
(* the text of just that failure, and the value tells of it (apart from    *)
(* set_sync_bf_read_next_chunk).                                           *)
(***************************************************************************)
THEOREM FailuresLeaveTheirText == Spec => []FailureHasMessage
BY CInvAlways, PTL

(***************************************************************************)
(* set_free and set_sync_free_handle leave no object and no text of a      *)
(* failure behind, however often the structure is filled and freed.        *)
(***************************************************************************)
THEOREM FreeingLeavesNothing == Spec => []ReleasedOwnsNothing
<1>1. CInv => ReleasedOwnsNothing
  BY DEF CInv
<1> QED
  BY <1>1, CInvAlways, PTL

=============================================================================
