--------------------------- MODULE LooseSyncProofs ---------------------------
(***************************************************************************)
(* Proofs about LooseSync, for any keys and hash functions, any size of a  *)
(* filter, of its bytes and of the buffers, and any number of chunks under *)
(* way and of operations.                                                  *)
(***************************************************************************)
EXTENDS LooseSync, WellFoundedInduction, SequenceTheorems, TLAPS

-----------------------------------------------------------------------------
(* Records of the counting filter.                                        *)

(* NoRecord is a record without entries. *)
LEMMA NoRecordType == NoRecord \in Record /\ Len(NoRecord.entries) = 0
BY RecordsAssumption, EmptySeq DEF NoRecord, Record

(* add makes a record longer by one entry. *)
LEMMA AppendedType ==
  ASSUME NEW r \in Record, NEW k \in Keys \cup {Junk}
  PROVE  /\ Appended(r, k) \in Record
         /\ Len(Appended(r, k).entries) = Len(r.entries) + 1
<1> DEFINE e == IF r.tail = 0 THEN k ELSE Junk
<1>1. e \in Keys \cup {Junk} /\ r.entries \in Seq(Keys \cup {Junk})
  BY DEF Record
<1> HIDE DEF e
<1>2. /\ Append(r.entries, e) \in Seq(Keys \cup {Junk})
      /\ Len(Append(r.entries, e)) = Len(r.entries) + 1
  BY <1>1, AppendProperties
<1>3. Appended(r, k) = [r EXCEPT !.entries = Append(r.entries, e)]
  BY DEF Appended, e
<1> QED
  BY <1>2, <1>3 DEF Record

(* Moving the other hashes up keeps the number of entries. *)
LEMMA MovedUpType ==
  ASSUME NEW s \in Seq(Keys \cup {Junk}), NEW k \in Keys \cup {Junk}
  PROVE  MovedUp(s, k) \in Seq(Keys \cup {Junk}) /\ Len(MovedUp(s, k)) = Len(s)
<1> DEFINE S == Keys \cup {Junk}
           others == Cardinality(OthersUpTo(s, k, Len(s)))
           m == [i \in 1 .. Len(s) |->
                   IF IthOther(s, k, i) # {}
                     THEN s[CHOOSE j \in IthOther(s, k, i) : TRUE]
                   ELSE IF i = others + 1 /\ s[Len(s)] = k THEN k
                   ELSE s[i]]
<1>1. Len(s) \in Nat /\ DOMAIN s = 1 .. Len(s)
  BY LenProperties
<1>2. \A i \in 1 .. Len(s) : s[i] \in S
  BY ElementOfSeq
<1>3. \A i : IthOther(s, k, i) \subseteq 1 .. Len(s)
  BY <1>1 DEF IthOther
<1>4. \A i : IthOther(s, k, i) # {} =>
        s[CHOOSE j \in IthOther(s, k, i) : TRUE] \in S
  BY <1>2, <1>3
<1>5. m \in [1 .. Len(s) -> S]
  BY <1>2, <1>4
<1>6. MovedUp(s, k) = m
  BY <1>1 DEF MovedUp
<1> HIDE DEF m, S
<1>7. m \in Seq(S) /\ Len(m) = Len(s)
  BY <1>1, <1>5, SeqDef, LenProperties
<1> QED
  BY <1>6, <1>7 DEF S

(* remove makes a record shorter by at most one entry. *)
LEMMA ShortenedType ==
  ASSUME NEW r \in Record, NEW k \in Keys \cup {Junk}, Len(r.entries) > 1
  PROVE  /\ Shortened(r, k) \in Record
         /\ Len(Shortened(r, k).entries) \in {Len(r.entries), Len(r.entries) - 1}
<1> DEFINE m == MovedUp(r.entries, k)
<1>1. r.entries \in Seq(Keys \cup {Junk}) /\ r.tail \in 0 .. HashSize - 1
  BY DEF Record
<1>2. m \in Seq(Keys \cup {Junk}) /\ Len(m) = Len(r.entries)
  BY <1>1, MovedUpType
<1> HIDE DEF m
<1>3. Len(m) \in Nat
  BY <1>2, LenProperties
<1>4. CASE r.tail > 0
  <2>1. Shortened(r, k) = [entries |-> m, tail |-> r.tail - 1]
    BY <1>4 DEF Shortened, m
  <2> QED
    BY <2>1, <1>1, <1>2, <1>4, RecordsAssumption DEF Record
<1>5. CASE ~(r.tail > 0)
  <2>1. Shortened(r, k) =
          [entries |-> SubSeq(m, 1, Len(m) - 1), tail |-> HashSize - 1]
    BY <1>5 DEF Shortened, m
  <2>2. /\ SubSeq(m, 1, Len(m) - 1) \in Seq(Keys \cup {Junk})
        /\ Len(SubSeq(m, 1, Len(m) - 1)) = Len(m) - 1
    BY <1>2, <1>3, SubSeqProperties
  <2> QED
    BY <2>1, <2>2, <1>2, RecordsAssumption DEF Record
<1> QED
  BY <1>4, <1>5

(* The entries of a sequence. *)
LEMMA EntriesOf ==
  ASSUME NEW S, NEW s \in Seq(S)
  PROVE  \A e : e \in Range(s) <=> \E i \in 1 .. Len(s) : s[i] = e
BY RangeEquality

(* add keeps the hashes of a record; the new one is its key or Junk. *)
LEMMA AppendedEntries ==
  ASSUME NEW r \in Record, NEW k \in Keys \cup {Junk}
  PROVE  /\ Range(r.entries) \subseteq Range(Appended(r, k).entries)
         /\ Range(Appended(r, k).entries) \subseteq Range(r.entries) \cup {k, Junk}
         /\ Appended(r, k).tail = r.tail
<1> DEFINE e == IF r.tail = 0 THEN k ELSE Junk
           s == r.entries
           t == Append(s, e)
<1>1. e \in Keys \cup {Junk} /\ s \in Seq(Keys \cup {Junk})
  BY DEF Record
<1>2. Appended(r, k) = [r EXCEPT !.entries = t]
  BY DEF Appended
<1>3. Appended(r, k).entries = t /\ Appended(r, k).tail = r.tail
  BY <1>2 DEF Record
<1>4. e = k \/ e = Junk
  OBVIOUS
<1> HIDE DEF e, s
<1>5. /\ t \in Seq(Keys \cup {Junk}) /\ Len(t) = Len(s) + 1
      /\ \A i \in 1 .. Len(s) : t[i] = s[i]
      /\ t[Len(s) + 1] = e
      /\ Len(s) \in Nat
  BY <1>1, AppendProperties, LenProperties
<1> HIDE DEF t
<1>6. Range(s) \subseteq Range(t)
  <2> SUFFICES ASSUME NEW i \in 1 .. Len(s) PROVE s[i] \in Range(t)
    BY <1>1, EntriesOf
  <2>1. i \in 1 .. Len(t) /\ t[i] = s[i]
    BY <1>5
  <2> QED
    BY <1>5, <2>1, EntriesOf
<1>7. Range(t) \subseteq Range(s) \cup {e}
  <2> SUFFICES ASSUME NEW i \in 1 .. Len(t) PROVE t[i] \in Range(s) \cup {e}
    BY <1>5, EntriesOf
  <2>1. CASE i \in 1 .. Len(s)
    <3>1. s[i] \in Range(s)
      BY <1>1, <2>1, EntriesOf
    <3> QED
      BY <1>5, <2>1, <3>1
  <2>2. CASE i = Len(s) + 1
    BY <1>5, <2>2
  <2> QED
    BY <1>5, <2>1, <2>2
<1> QED
  BY <1>3, <1>4, <1>6, <1>7 DEF s

(* remove reads no hash into a record that was not there. *)
LEMMA MovedUpEntries ==
  ASSUME NEW s \in Seq(Keys \cup {Junk}), NEW k \in Keys \cup {Junk}, Len(s) > 0
  PROVE  \A i \in 1 .. Len(s) : MovedUp(s, k)[i] \in Range(s)
<1> TAKE i \in 1 .. Len(s)
<1> DEFINE others == Cardinality(OthersUpTo(s, k, Len(s)))
           other == CHOOSE j \in IthOther(s, k, i) : TRUE
<1>1. Len(s) \in Nat /\ DOMAIN s = 1 .. Len(s)
  BY LenProperties
<1>2. \A j \in 1 .. Len(s) : s[j] \in Range(s)
  BY EntriesOf
<1>3. MovedUp(s, k)[i] = IF IthOther(s, k, i) # {} THEN s[other]
                         ELSE IF i = others + 1 /\ s[Len(s)] = k THEN k
                         ELSE s[i]
  BY <1>1 DEF MovedUp
<1>4. IthOther(s, k, i) # {} => other \in 1 .. Len(s)
  <2>1. IthOther(s, k, i) \subseteq 1 .. Len(s)
    BY <1>1 DEF IthOther
  <2> QED
    BY <2>1
<1> HIDE DEF others, other
<1>5. Len(s) \in 1 .. Len(s)
  BY <1>1
<1> QED
  BY <1>2, <1>3, <1>4, <1>5

LEMMA ShortenedEntries ==
  ASSUME NEW r \in Record, NEW k \in Keys \cup {Junk}, Len(r.entries) > 1
  PROVE  Range(Shortened(r, k).entries) \subseteq Range(r.entries)
<1> DEFINE s == r.entries
           m == MovedUp(s, k)
           cut == SubSeq(m, 1, Len(m) - 1)
<1>1. s \in Seq(Keys \cup {Junk})
  BY DEF Record
<1>2. m \in Seq(Keys \cup {Junk}) /\ Len(m) = Len(s) /\ Len(m) \in Nat
  BY <1>1, MovedUpType, LenProperties
<1>3. \A i \in 1 .. Len(m) : m[i] \in Range(s)
  BY <1>1, <1>2, MovedUpEntries
<1>4. Shortened(r, k).entries = m \/ Shortened(r, k).entries = cut
  BY DEF Shortened
<1> HIDE DEF s, m
<1>5. Range(m) \subseteq Range(s)
  BY <1>2, <1>3, EntriesOf
<1>6. Range(cut) \subseteq Range(s)
  <2>1. /\ cut \in Seq(Keys \cup {Junk}) /\ Len(cut) = Len(m) - 1
        /\ \A i \in 1 .. Len(m) - 1 : cut[i] = m[i]
    BY <1>2, SubSeqProperties DEF s
  <2> HIDE DEF cut
  <2> SUFFICES ASSUME NEW i \in 1 .. Len(cut) PROVE cut[i] \in Range(s)
    BY <2>1, EntriesOf
  <2>2. i \in 1 .. Len(m) /\ cut[i] = m[i]
    BY <1>2, <2>1
  <2> QED
    BY <1>3, <2>2
<1> QED
  BY <1>4, <1>5, <1>6 DEF s

-----------------------------------------------------------------------------
(* Induction over the natural numbers, about a set.                        *)

LEMMA LeastOf ==
  ASSUME NEW T, T \subseteq Nat, T # {}
  PROVE  \E x \in T : \A y \in T : x <= y
<1> DEFINE R == OpToRel(<, Nat)
<1>1. IsWellFoundedOn(R, Nat)
  BY NatLessThanWellFounded
<1>2. \A x, y \in Nat : x < y <=> <<x, y>> \in R
  BY DEF OpToRel
<1> HIDE DEF R
<1>3. \E x \in T : \A y \in T : ~ (<<y, x>> \in R)
  BY <1>1, WFMin
<1>4. PICK x \in T : \A y \in T : ~ (<<y, x>> \in R)
  BY <1>3
<1>5. \A y \in T : ~ (y < x)
  BY <1>2, <1>4
<1> QED
  BY <1>5

LEMMA SetInduction ==
  ASSUME NEW S, 0 \in S, \A n \in Nat : n \in S => n + 1 \in S
  PROVE  Nat \subseteq S
<1> DEFINE T == Nat \ S
<1> SUFFICES ASSUME T # {} PROVE FALSE
  OBVIOUS
<1>1. PICK x \in T : \A y \in T : x <= y
  BY LeastOf
<1>2. x \in Nat /\ x # 0
  OBVIOUS
<1>3. x - 1 \in Nat /\ x - 1 \notin T
  BY <1>1, <1>2
<1> QED
  BY <1>2, <1>3

-----------------------------------------------------------------------------
(* The loops of add and remove over the hash functions.                    *)

(* Both loops are runs of a step. *)
LEMMA AddLoopRuns ==
  ASSUME NEW recs, NEW k
  PROVE  \A i \in 0 .. FunctionCount :
           AddLoop(recs, k)[i] = IF i = 0 THEN [records |-> recs, met |-> FALSE]
                                ELSE AddStep(AddLoop(recs, k)[i - 1], k, Pos[k][i])
<1> DEFINE Run(f, n) ==
             f = [i \in 0 .. n |-> IF i = 0 THEN [records |-> recs, met |-> FALSE]
                                   ELSE AddStep(f[i - 1], k, Pos[k][i])]
           S == {n \in Nat : \E f : Run(f, n)}
<1>1. 0 \in S
  <2> DEFINE f == [i \in 0 .. 0 |-> [records |-> recs, met |-> FALSE]]
  <2>1. Run(f, 0)
    OBVIOUS
  <2> QED
    BY <2>1
<1>2. ASSUME NEW n \in Nat, n \in S
      PROVE  n + 1 \in S
  <2>1. PICK f : Run(f, n)
    BY <1>2
  <2> DEFINE g == [i \in 0 .. n + 1 |-> IF i <= n THEN f[i] ELSE AddStep(f[n], k, Pos[k][n + 1])]
  <2>2. ASSUME NEW i \in 0 .. n + 1
        PROVE  g[i] = IF i = 0 THEN [records |-> recs, met |-> FALSE]
                      ELSE AddStep(g[i - 1], k, Pos[k][i])
    <3>1. CASE i = 0
      BY <2>1, <3>1
    <3>2. CASE i # 0 /\ i <= n
      <4>1. i \in 0 .. n /\ i - 1 \in 0 .. n
        BY <3>2
      <4>2. g[i] = f[i] /\ g[i - 1] = f[i - 1]
        BY <4>1
      <4>3. f[i] = AddStep(f[i - 1], k, Pos[k][i])
        BY <2>1, <3>2, <4>1
      <4> QED
        BY <3>2, <4>2, <4>3
    <3>3. CASE i = n + 1
      BY <3>3
    <3> QED
      BY <3>1, <3>2, <3>3
  <2>3. Run(g, n + 1)
    <3> HIDE DEF g
    <3>1. g = [i \in 0 .. n + 1 |-> g[i]]
      BY DEF g
    <3> QED
      BY <2>2, <3>1
  <2> HIDE DEF Run
  <2> QED
    BY <2>3
<1>3. FunctionCount \in S
  BY <1>1, <1>2, SetInduction, LooseAssumption
<1>4. \E f : Run(f, FunctionCount)
  BY <1>3
<1>5. AddLoop(recs, k) = CHOOSE f : Run(f, FunctionCount)
  BY DEF AddLoop
<1> HIDE DEF Run
<1> DEFINE loop == AddLoop(recs, k)
<1>6. Run(loop, FunctionCount)
  BY <1>4, <1>5
<1> HIDE DEF loop
<1>7. \A i \in 0 .. FunctionCount :
        loop[i] = IF i = 0 THEN [records |-> recs, met |-> FALSE] ELSE AddStep(loop[i - 1], k, Pos[k][i])
  BY <1>6 DEF Run
<1> QED
  BY <1>7 DEF loop

LEMMA RemoveLoopRuns ==
  ASSUME NEW recs, NEW set, NEW k
  PROVE  \A i \in 0 .. FunctionCount :
           RemoveLoop(recs, set, k)[i] = IF i = 0 THEN [records |-> recs, bits |-> set]
                                ELSE RemoveStep(RemoveLoop(recs, set, k)[i - 1], k, Pos[k][i])
<1> DEFINE Run(f, n) ==
             f = [i \in 0 .. n |-> IF i = 0 THEN [records |-> recs, bits |-> set]
                                   ELSE RemoveStep(f[i - 1], k, Pos[k][i])]
           S == {n \in Nat : \E f : Run(f, n)}
<1>1. 0 \in S
  <2> DEFINE f == [i \in 0 .. 0 |-> [records |-> recs, bits |-> set]]
  <2>1. Run(f, 0)
    OBVIOUS
  <2> QED
    BY <2>1
<1>2. ASSUME NEW n \in Nat, n \in S
      PROVE  n + 1 \in S
  <2>1. PICK f : Run(f, n)
    BY <1>2
  <2> DEFINE g == [i \in 0 .. n + 1 |-> IF i <= n THEN f[i] ELSE RemoveStep(f[n], k, Pos[k][n + 1])]
  <2>2. ASSUME NEW i \in 0 .. n + 1
        PROVE  g[i] = IF i = 0 THEN [records |-> recs, bits |-> set]
                      ELSE RemoveStep(g[i - 1], k, Pos[k][i])
    <3>1. CASE i = 0
      BY <2>1, <3>1
    <3>2. CASE i # 0 /\ i <= n
      <4>1. i \in 0 .. n /\ i - 1 \in 0 .. n
        BY <3>2
      <4>2. g[i] = f[i] /\ g[i - 1] = f[i - 1]
        BY <4>1
      <4>3. f[i] = RemoveStep(f[i - 1], k, Pos[k][i])
        BY <2>1, <3>2, <4>1
      <4> QED
        BY <3>2, <4>2, <4>3
    <3>3. CASE i = n + 1
      BY <3>3
    <3> QED
      BY <3>1, <3>2, <3>3
  <2>3. Run(g, n + 1)
    <3> HIDE DEF g
    <3>1. g = [i \in 0 .. n + 1 |-> g[i]]
      BY DEF g
    <3> QED
      BY <2>2, <3>1
  <2> HIDE DEF Run
  <2> QED
    BY <2>3
<1>3. FunctionCount \in S
  BY <1>1, <1>2, SetInduction, LooseAssumption
<1>4. \E f : Run(f, FunctionCount)
  BY <1>3
<1>5. RemoveLoop(recs, set, k) = CHOOSE f : Run(f, FunctionCount)
  BY DEF RemoveLoop
<1> HIDE DEF Run
<1> DEFINE loop == RemoveLoop(recs, set, k)
<1>6. Run(loop, FunctionCount)
  BY <1>4, <1>5
<1> HIDE DEF loop
<1>7. \A i \in 0 .. FunctionCount :
        loop[i] = IF i = 0 THEN [records |-> recs, bits |-> set] ELSE RemoveStep(loop[i - 1], k, Pos[k][i])
  BY <1>6 DEF Run
<1> QED
  BY <1>7 DEF loop

(***************************************************************************)
(* What the loop of add has made of the records: nothing is lost, and only *)
(* the records of the key's own positions get a hash, the key or Junk.     *)
(***************************************************************************)
AddedSoFar(recs, k, s) ==
  /\ s \in [records : [Positions -> Record], met : BOOLEAN]
  /\ \A x \in Positions :
        /\ Range(recs[x].entries) \subseteq Range(s.records[x].entries)
        /\ Range(s.records[x].entries) \subseteq Range(recs[x].entries) \union {k, Junk}
        /\ x \notin PositionsOf(k) => s.records[x] = recs[x]

LEMMA PositionsAreThose ==
  ASSUME NEW k \in Hashes
  PROVE  /\ PositionsOf(k) \subseteq Positions
         /\ \A i \in HashFunctions : Pos[k][i] \in PositionsOf(k)
<1>1. Pos[k] \in [HashFunctions -> Positions]
  BY LooseAssumption
<1> QED
  BY <1>1 DEF PositionsOf, Range

LEMMA AddStepKeeps ==
  ASSUME NEW recs \in [Positions -> Record], NEW k \in Hashes, NEW s,
         AddedSoFar(recs, k, s), NEW x \in PositionsOf(k)
  PROVE  AddedSoFar(recs, k, AddStep(s, k, x))
<1> DEFINE t == AddStep(s, k, x)
<1>1. x \in Positions /\ k \in Keys \cup {Junk}
  BY PositionsAreThose DEF Hashes
<1>2. s \in [records : [Positions -> Record], met : BOOLEAN] /\ s.records[x] \in Record
  BY <1>1 DEF AddedSoFar
<1>3. CASE s.met \/ k \in Range(s.records[x].entries)
  <2>1. t = [s EXCEPT !.met = TRUE]
    BY <1>3 DEF AddStep
  <2>2. t \in [records : [Positions -> Record], met : BOOLEAN] /\ t.records = s.records
    BY <1>2, <2>1
  <2> QED
    BY <2>2 DEF AddedSoFar
<1>4. CASE ~(s.met \/ k \in Range(s.records[x].entries))
  <2> DEFINE new == Appended(s.records[x], k)
  <2>1. t = [s EXCEPT !.records = [s.records EXCEPT ![x] = new]]
    BY <1>4 DEF AddStep
  <2>2. /\ new \in Record
        /\ Range(s.records[x].entries) \subseteq Range(new.entries)
        /\ Range(new.entries) \subseteq Range(s.records[x].entries) \cup {k, Junk}
    BY <1>1, <1>2, AppendedType, AppendedEntries
  <2> HIDE DEF new
  <2>3. /\ t \in [records : [Positions -> Record], met : BOOLEAN]
        /\ t.records = [s.records EXCEPT ![x] = new]
    BY <1>1, <1>2, <2>1, <2>2
  <2>4. \A y \in Positions : t.records[y] = IF y = x THEN new ELSE s.records[y]
    BY <1>2, <2>3
  <2> HIDE DEF t
  <2>5. ASSUME NEW y \in Positions
        PROVE  /\ Range(recs[y].entries) \subseteq Range(t.records[y].entries)
               /\ Range(t.records[y].entries) \subseteq Range(recs[y].entries) \union {k, Junk}
               /\ y \notin PositionsOf(k) => t.records[y] = recs[y]
    <3>1. /\ Range(recs[y].entries) \subseteq Range(s.records[y].entries)
          /\ Range(s.records[y].entries) \subseteq Range(recs[y].entries) \union {k, Junk}
          /\ y \notin PositionsOf(k) => s.records[y] = recs[y]
      BY DEF AddedSoFar
    <3>2. CASE y = x
      <4>1. t.records[y] = new
        BY <2>4, <3>2
      <4> QED
        BY <2>2, <3>1, <3>2, <4>1
    <3>3. CASE y # x
      BY <2>4, <3>1, <3>3
    <3> QED
      BY <3>2, <3>3
  <2>6. AddedSoFar(recs, k, t)
    BY <2>3, <2>5 DEF AddedSoFar
  <2> QED
    BY <2>6 DEF t
<1> QED
  BY <1>3, <1>4

LEMMA AddedToKeeps ==
  ASSUME NEW recs \in [Positions -> Record], NEW k \in Hashes
  PROVE  AddedSoFar(recs, k, AddedTo(recs, k))
<1> DEFINE loop == AddLoop(recs, k)
           S == {n \in Nat : n <= FunctionCount => AddedSoFar(recs, k, loop[n])}
<1>1. FunctionCount \in Nat
  BY LooseAssumption
<1>2. \A i \in 0 .. FunctionCount :
        loop[i] = IF i = 0 THEN [records |-> recs, met |-> FALSE] ELSE AddStep(loop[i - 1], k, Pos[k][i])
  BY AddLoopRuns
<1> HIDE DEF loop
<1>3. 0 \in S
  <2>1. loop[0] = [records |-> recs, met |-> FALSE]
    <3>1. 0 \in 0 .. FunctionCount
      BY <1>1
    <3> QED
      BY <1>2, <3>1, Zenon
  <2>2. AddedSoFar(recs, k, loop[0])
    BY <2>1 DEF AddedSoFar
  <2> QED
    BY <2>2
<1>4. ASSUME NEW n \in Nat, n \in S
      PROVE  n + 1 \in S
  <2> SUFFICES ASSUME n + 1 <= FunctionCount PROVE AddedSoFar(recs, k, loop[n + 1])
    OBVIOUS
  <2>1. AddedSoFar(recs, k, loop[n])
    BY <1>1, <1>4
  <2>2. loop[n + 1] = AddStep(loop[n], k, Pos[k][n + 1])
    BY <1>1, <1>2
  <2>3. Pos[k][n + 1] \in PositionsOf(k)
    <3>1. n + 1 \in HashFunctions
      BY <1>1 DEF HashFunctions
    <3> QED
      BY <3>1, PositionsAreThose
  <2> QED
    BY <2>1, <2>2, <2>3, AddStepKeeps
<1>5. FunctionCount \in S
  BY <1>1, <1>3, <1>4, SetInduction
<1> QED
  BY <1>1, <1>5 DEF AddedTo, loop

(* What the loop of remove has made of the records and the bits. *)
RemovedSoFar(recs, set, s) ==
  /\ s \in [records : [Positions -> Record], bits : SUBSET set]
  /\ \A x \in Positions : Range(s.records[x].entries) \subseteq Range(recs[x].entries)

LEMMA RemoveStepKeeps ==
  ASSUME NEW recs \in [Positions -> Record], NEW set, NEW k \in Hashes, NEW s,
         RemovedSoFar(recs, set, s), NEW x \in PositionsOf(k)
  PROVE  RemovedSoFar(recs, set, RemoveStep(s, k, x))
<1> DEFINE t == RemoveStep(s, k, x)
           old == s.records[x]
           count == Len(old.entries)
<1>1. x \in Positions /\ k \in Keys \cup {Junk}
  BY PositionsAreThose DEF Hashes
<1>2. s \in [records : [Positions -> Record], bits : SUBSET set] /\ old \in Record
  BY <1>1 DEF RemovedSoFar
<1>3. ASSUME NEW new \in Record, Range(new.entries) \subseteq Range(old.entries),
             t.records = [s.records EXCEPT ![x] = new], t.bits \subseteq s.bits,
             t = [records |-> t.records, bits |-> t.bits]
      PROVE  RemovedSoFar(recs, set, t)
  <2>1. \A y \in Positions : t.records[y] = IF y = x THEN new ELSE s.records[y]
    BY <1>2, <1>3
  <2>2. t.records \in [Positions -> Record] /\ t.bits \in SUBSET set
    BY <1>1, <1>2, <1>3
  <2>3. t \in [records : [Positions -> Record], bits : SUBSET set]
    BY <1>3, <2>2
  <2> HIDE DEF t
  <2>4. \A y \in Positions : Range(t.records[y].entries) \subseteq Range(recs[y].entries)
    BY <1>1, <1>3, <2>1 DEF RemovedSoFar
  <2> QED
    BY <2>3, <2>4 DEF RemovedSoFar
<1>4. CASE count > 1
  <2> DEFINE new == Shortened(old, k)
  <2>1. new \in Record /\ Range(new.entries) \subseteq Range(old.entries)
    BY <1>1, <1>2, <1>4, ShortenedType, ShortenedEntries
  <2>2. t = [s EXCEPT !.records = [s.records EXCEPT ![x] = new]]
    BY <1>4 DEF RemoveStep
  <2> HIDE DEF new
  <2>3. t.records = [s.records EXCEPT ![x] = new] /\ t.bits = s.bits
    BY <1>2, <2>2
  <2>4. t = [records |-> t.records, bits |-> t.bits]
    BY <1>2, <2>2
  <2> QED
    BY <1>3, <2>1, <2>3, <2>4
<1>5. CASE count = 1
  <2>1. t = [records |-> [s.records EXCEPT ![x] = NoRecord], bits |-> s.bits \ {x}]
    BY <1>5 DEF RemoveStep
  <2>2. NoRecord \in Record /\ Range(NoRecord.entries) = {}
    BY NoRecordType DEF NoRecord, Range
  <2>3. t.records = [s.records EXCEPT ![x] = NoRecord] /\ t.bits \subseteq s.bits
    BY <2>1
  <2>4. t = [records |-> t.records, bits |-> t.bits]
    BY <2>1
  <2> QED
    BY <1>3, <2>2, <2>3, <2>4
<1>6. CASE ~(count > 1) /\ count # 1
  <2>1. t = s
    BY <1>6 DEF RemoveStep
  <2> QED
    BY <2>1
<1> QED
  BY <1>4, <1>5, <1>6

LEMMA RemovedFromKeeps ==
  ASSUME NEW recs \in [Positions -> Record], NEW set, NEW k \in Hashes
  PROVE  RemovedSoFar(recs, set, RemovedFrom(recs, set, k))
<1> DEFINE loop == RemoveLoop(recs, set, k)
           S == {n \in Nat : n <= FunctionCount => RemovedSoFar(recs, set, loop[n])}
<1>1. FunctionCount \in Nat
  BY LooseAssumption
<1>2. \A i \in 0 .. FunctionCount :
        loop[i] = IF i = 0 THEN [records |-> recs, bits |-> set] ELSE RemoveStep(loop[i - 1], k, Pos[k][i])
  BY RemoveLoopRuns
<1> HIDE DEF loop
<1>3. 0 \in S
  <2>1. loop[0] = [records |-> recs, bits |-> set]
    BY <1>1, <1>2
  <2>2. RemovedSoFar(recs, set, loop[0])
    BY <2>1 DEF RemovedSoFar
  <2> QED
    BY <2>2
<1>4. ASSUME NEW n \in Nat, n \in S
      PROVE  n + 1 \in S
  <2> SUFFICES ASSUME n + 1 <= FunctionCount PROVE RemovedSoFar(recs, set, loop[n + 1])
    OBVIOUS
  <2>1. RemovedSoFar(recs, set, loop[n])
    BY <1>1, <1>4
  <2>2. loop[n + 1] = RemoveStep(loop[n], k, Pos[k][n + 1])
    BY <1>1, <1>2
  <2>3. Pos[k][n + 1] \in PositionsOf(k)
    <3>1. n + 1 \in HashFunctions
      BY <1>1 DEF HashFunctions
    <3> QED
      BY <3>1, PositionsAreThose
  <2> QED
    BY <2>1, <2>2, <2>3, RemoveStepKeeps
<1>5. FunctionCount \in S
  BY <1>1, <1>3, <1>4, SetInduction
<1> QED
  BY <1>1, <1>5 DEF RemovedFrom, loop

-----------------------------------------------------------------------------
(* The invariant.                                                          *)

LEMMA SizeType == Size \in Nat /\ FilterSize <= Size * ByteSize
<1>1. FilterSize \in Nat \ {0} /\ ByteSize \in Nat \ {0}
  BY LooseAssumption
<1> DEFINE a == FilterSize + ByteSize - 1
<1>2. a \in Nat
  BY <1>1
<1>3. a \div ByteSize \in Nat /\ a % ByteSize \in 0 .. ByteSize - 1
      /\ a = ByteSize * (a \div ByteSize) + (a % ByteSize)
  <2> HIDE DEF a
  <2> QED
    BY <1>1, <1>2
<1>4. Size = a \div ByteSize
  BY DEF Size
<1>5. ByteSize * Size = Size * ByteSize /\ Size * ByteSize \in Nat
  BY <1>1, <1>3, <1>4
<1> QED
  BY <1>1, <1>3, <1>4, <1>5

(* What is read in a record is a hash. *)
LEMMA RecordsHoldHashes ==
  ASSUME NEW r \in Record
  PROVE  Range(r.entries) \subseteq Hashes /\ r.tail \in 0 .. HashSize - 1
<1>1. r.entries \in Seq(Hashes) /\ r.tail \in 0 .. HashSize - 1
  BY DEF Record, Hashes
<1> QED
  BY <1>1, EntriesOf

LEMMA OtherPeer ==
  ASSUME NEW p \in Peers
  PROVE  /\ Other(p) \in Peers /\ Other(p) # p /\ Other(Other(p)) = p
         /\ \A q \in Peers : q = p \/ q = Other(p)
BY DEF Other, Peers

LEMMA InitLoose == Init => LooseInv
<1> SUFFICES ASSUME Init PROVE LooseInv
  OBVIOUS
<1>1. Size \in Nat
  BY SizeType
<1>2. NoRecord \in Record /\ Range(NoRecord.entries) = {}
  BY NoRecordType DEF NoRecord, Range
<1>3. Shape
  <2>1. records \in [Peers -> [Positions -> Record]]
    BY <1>2 DEF Init
  <2>2. chunks \in [Peers -> Seq(ChunkRecords)]
    BY DEF Init
  <2>3. started \in BOOLEAN /\ ~started
    BY Zenon DEF Init
  <2>4. outFinished \in [Peers -> BOOLEAN]
    BY DEF Init
  <2> QED
    BY <1>1, <2>1, <2>2, <2>3, <2>4 DEF Init, Shape
<1>4. KeysInPlace
  BY <1>2 DEF Init, KeysInPlace, WholeAt
<1>5. \A p \in Peers : known[p] = {} /\ readable[p] = {} /\ reported[p] = {}
  BY DEF Init
<1>6. KnownKept /\ ReadableKept /\ Compared /\ ReportsAreNeeded
  BY <1>5 DEF KnownKept, KnownBits, ReadableKept, Compared, ReportsAreNeeded
<1>7. ChunksInLine
  <2> SUFFICES ASSUME NEW q \in Peers
               PROVE  \E offset \in [1 .. Len(chunks[q]) + 1 -> 0 .. Size] : InLine(q, offset)
    BY DEF ChunksInLine
  <2>1. chunks[q] = <<>> /\ inPos[q] = 0 /\ outPos[Other(q)] = 0
    BY OtherPeer DEF Init
  <2>2. Len(chunks[q]) = 0
    BY <2>1
  <2> DEFINE offset == [i \in 1 .. 1 |-> 0]
  <2>3. offset \in [1 .. Len(chunks[q]) + 1 -> 0 .. Size]
    BY <1>1, <2>2
  <2>4. InLine(q, offset)
    BY <2>1, <2>2 DEF InLine
  <2> QED
    BY <2>3, <2>4
<1>8. OutputEnds /\ ~thrown
  BY DEF Init, OutputEnds
<1> QED
  BY <1>3, <1>4, <1>6, <1>7, <1>8 DEF LooseInv

(* Only the sets change. *)
QuietSync == UNCHANGED <<syncVars, started, known, readable>>

(* An insertion into the set of p: bits and entries come, none goes. *)
LEMMA SetInsertGrows ==
  ASSUME Shape, KeysInPlace, NEW p \in Peers, NEW k \in Hashes, SetInsert(p, k)
  PROVE  /\ members' \in [Peers -> SUBSET Hashes]
         /\ records' \in [Peers -> [Positions -> Record]]
         /\ bits' \in [Peers -> SUBSET Positions]
         /\ \A q \in Peers : bits[q] \subseteq bits'[q]
         /\ \A q \in Peers, x \in Positions :
               Range(records[q][x].entries) \subseteq Range(records'[q][x].entries)
         /\ KeysInPlace'
<1> DEFINE added == AddedTo(records[p], k)
<1>1. /\ members \in [Peers -> SUBSET Hashes]
      /\ records \in [Peers -> [Positions -> Record]] /\ records[p] \in [Positions -> Record]
      /\ bits \in [Peers -> SUBSET Positions]
  BY DEF Shape
<1>2. /\ members' = [members EXCEPT ![p] = @ \union {k}]
      /\ records' = [records EXCEPT ![p] = added.records]
      /\ bits' = [bits EXCEPT ![p] = IF added.met THEN @ ELSE @ \union PositionsOf(k)]
  BY DEF SetInsert
<1>3. /\ added.records \in [Positions -> Record]
      /\ \A x \in Positions :
            /\ Range(records[p][x].entries) \subseteq Range(added.records[x].entries)
            /\ Range(added.records[x].entries) \subseteq Range(records[p][x].entries) \union {k, Junk}
            /\ x \notin PositionsOf(k) => added.records[x] = records[p][x]
  <2>1. AddedSoFar(records[p], k, added)
    BY <1>1, AddedToKeeps
  <2> HIDE DEF added
  <2>2. added.records \in [Positions -> Record]
    BY <2>1 DEF AddedSoFar
  <2> QED
    BY <2>1, <2>2 DEF AddedSoFar
<1> HIDE DEF added
<1>4. members' \in [Peers -> SUBSET Hashes] /\ records' \in [Peers -> [Positions -> Record]]
  BY <1>1, <1>2, <1>3
<1>5. PositionsOf(k) \subseteq Positions
  BY PositionsAreThose
<1>6. bits' \in [Peers -> SUBSET Positions] /\ \A q \in Peers : bits[q] \subseteq bits'[q]
  <2> DEFINE new == IF added.met THEN bits[p] ELSE bits[p] \union PositionsOf(k)
  <2>1. new \subseteq Positions /\ bits[p] \subseteq new
    BY <1>1, <1>5
  <2>2. bits' = [bits EXCEPT ![p] = new]
    BY <1>1, <1>2
  <2> HIDE DEF new
  <2> QED
    BY <1>1, <2>1, <2>2
<1>7. \A q \in Peers : records'[q] = IF q = p THEN added.records ELSE records[q]
  BY <1>1, <1>2
<1>8. \A q \in Peers, x \in Positions :
        Range(records[q][x].entries) \subseteq Range(records'[q][x].entries)
  BY <1>3, <1>7
<1>9. KeysInPlace'
  <2> SUFFICES ASSUME NEW q \in Peers, NEW x \in Positions,
                      NEW e \in Range(records'[q][x].entries), e # Junk
               PROVE  x \in PositionsOf(e)
    BY DEF KeysInPlace, WholeAt
  <2>1. CASE e \in Range(records[q][x].entries)
    BY <2>1 DEF KeysInPlace, WholeAt
  <2>2. CASE e \notin Range(records[q][x].entries)
    <3>1. q = p
      BY <1>7, <2>2
    <3>2. e = k
      BY <1>3, <1>7, <2>2, <3>1
    <3>3. x \in PositionsOf(k)
      BY <1>3, <1>7, <2>2, <3>1
    <3> QED
      BY <3>2, <3>3
  <2> QED
    BY <2>1, <2>2
<1> QED
  BY <1>4, <1>6, <1>8, <1>9

(***************************************************************************)
(* Positions of a chunk under way, after a step that leaves the exchange   *)
(* alone and takes no bit from the sender, unless he erases.               *)
(***************************************************************************)
LEMMA LineKept ==
  ASSUME Shape, ChunksInLine, QuietSync, erased \subseteq erased',
         \A p \in Peers \ erased' : bits[p] \subseteq bits'[p]
  PROVE  ChunksInLine'
<1> SUFFICES ASSUME NEW q \in Peers
             PROVE  \E offset \in [1 .. Len(chunks'[q]) + 1 -> 0 .. Size] : InLine(q, offset)'
  BY DEF ChunksInLine
<1>1. UNCHANGED <<inPos, outPos, chunks, known>>
  BY DEF QuietSync, syncVars
<1>2. PICK offset \in [1 .. Len(chunks[q]) + 1 -> 0 .. Size] : InLine(q, offset)
  BY DEF ChunksInLine
<1>3. Other(q) \in Peers
  BY OtherPeer
<1>4. ASSUME NEW i \in 1 .. Len(chunks[q]), Other(q) \notin erased'
      PROVE  /\ \A j \in chunks[q][i].set : offset[i] * ByteSize + j \in bits'[Other(q)]
             /\ \A j \in 0 .. chunks[q][i].length * ByteSize - 1 :
                   offset[i] * ByteSize + j \in KnownBits(Other(q)) => j \in chunks[q][i].set
  <2>1. Tells(Other(q), chunks[q][i], offset[i])
    BY <1>2, <1>4 DEF InLine
  <2>2. bits[Other(q)] \subseteq bits'[Other(q)]
    BY <1>3, <1>4
  <2> QED
    BY <2>1, <2>2 DEF Tells
<1>5. KnownBits(Other(q))' = KnownBits(Other(q))
  BY <1>1 DEF KnownBits
<1>6. InLine(q, offset)'
  BY <1>1, <1>2, <1>4, <1>5 DEF InLine, Tells
<1> QED
  BY <1>1, <1>2, <1>6

(* What is left of Shape after a step that leaves the exchange alone. *)
LEMMA ShapeKept ==
  ASSUME Shape, QuietSync, started \/ UNCHANGED erased,
         members' \in [Peers -> SUBSET Hashes],
         records' \in [Peers -> [Positions -> Record]],
         bits' \in [Peers -> SUBSET Positions]
  PROVE  Shape'
<1>1. UNCHANGED <<inPos, outPos, outFinished, chunks, reported, known, readable, started>>
  BY DEF QuietSync, syncVars
<1>2. started' \in BOOLEAN /\ outFinished' \in [Peers -> BOOLEAN]
  BY <1>1 DEF Shape
<1> QED
  BY <1>1, <1>2 DEF Shape

LEMMA GrowthKeeps ==
  ASSUME LooseInv, QuietSync, UNCHANGED erased, NEW p \in Peers, NEW k \in Hashes, SetInsert(p, k)
  PROVE  LooseInv'
<1>1. Shape /\ KeysInPlace
  BY DEF LooseInv
<1>2. /\ members' \in [Peers -> SUBSET Hashes]
      /\ records' \in [Peers -> [Positions -> Record]]
      /\ bits' \in [Peers -> SUBSET Positions]
      /\ \A q \in Peers : bits[q] \subseteq bits'[q]
      /\ \A q \in Peers, x \in Positions :
            Range(records[q][x].entries) \subseteq Range(records'[q][x].entries)
      /\ KeysInPlace'
  BY <1>1, SetInsertGrows
<1>3. UNCHANGED <<inPos, outPos, outFinished, chunks, reported, known, readable, started, thrown>>
  BY DEF QuietSync, syncVars
<1>4. Shape'
  BY <1>1, <1>2, ShapeKept
<1>5. ChunksInLine'
  BY <1>1, <1>2, LineKept DEF LooseInv
<1>6. KnownKept'
  BY <1>2, <1>3 DEF LooseInv, KnownKept, KnownBits
<1>7. ReadableKept'
  <2> SUFFICES ASSUME NEW q \in Peers \ erased, NEW e \in readable[q], NEW x \in PositionsOf(e)
               PROVE  x \in bits'[q] /\ e \in Range(records'[q][x].entries)
    BY <1>3 DEF ReadableKept, WholeAt
  <2>1. x \in bits[q] /\ e \in Range(records[q][x].entries)
    BY DEF LooseInv, ReadableKept, WholeAt
  <2>2. x \in Positions
    BY <1>1, <2>1 DEF Shape
  <2> QED
    BY <1>2, <2>1, <2>2
<1>8. Compared'
  <2> SUFFICES ASSUME erased = {}, NEW q \in Peers, NEW e \in readable[q], NEW x \in PositionsOf(e),
                      x < inPos[q] * ByteSize
               PROVE  e \in reported[q] \/ x \in bits'[Other(q)]
    BY <1>3 DEF Compared
  <2>1. e \in reported[q] \/ x \in bits[Other(q)]
    BY DEF LooseInv, Compared
  <2> QED
    BY <1>2, <2>1, OtherPeer
<1>9. OutputEnds' /\ ReportsAreNeeded' /\ ~thrown'
  BY <1>3 DEF LooseInv, OutputEnds, ReportsAreNeeded
<1> QED
  BY <1>2, <1>4, <1>5, <1>6, <1>7, <1>8, <1>9 DEF LooseInv

(* An erasure from the set of p: bits and entries go, at p alone. *)
LEMMA SetEraseShrinks ==
  ASSUME Shape, KeysInPlace, NEW p \in Peers, NEW k \in Hashes, SetErase(p, k)
  PROVE  /\ members' \in [Peers -> SUBSET Hashes]
         /\ records' \in [Peers -> [Positions -> Record]]
         /\ bits' \in [Peers -> SUBSET Positions]
         /\ \A q \in Peers : q # p => bits'[q] = bits[q] /\ records'[q] = records[q]
         /\ KeysInPlace'
<1> DEFINE rest == RemovedFrom(records[p], bits[p], k)
<1>1. /\ members \in [Peers -> SUBSET Hashes]
      /\ records \in [Peers -> [Positions -> Record]] /\ records[p] \in [Positions -> Record]
      /\ bits \in [Peers -> SUBSET Positions]
  BY DEF Shape
<1>2. members' \in [Peers -> SUBSET Hashes]
  BY <1>1 DEF SetErase
<1>3. CASE Contains(p, k)
  <2>1. /\ records' = [records EXCEPT ![p] = rest.records]
        /\ bits' = [bits EXCEPT ![p] = rest.bits]
    BY <1>3 DEF SetErase
  <2>2. RemovedSoFar(records[p], bits[p], rest)
    BY <1>1, RemovedFromKeeps
  <2> HIDE DEF rest
  <2>3. /\ rest.records \in [Positions -> Record] /\ rest.bits \subseteq bits[p]
        /\ \A x \in Positions :
              Range(rest.records[x].entries) \subseteq Range(records[p][x].entries)
    BY <2>2 DEF RemovedSoFar
  <2>4. /\ records' \in [Peers -> [Positions -> Record]]
        /\ bits' \in [Peers -> SUBSET Positions]
    BY <1>1, <2>1, <2>3
  <2>5. \A q \in Peers : records'[q] = IF q = p THEN rest.records ELSE records[q]
    BY <1>1, <2>1
  <2>6. \A q \in Peers : q # p => bits'[q] = bits[q]
    BY <1>1, <2>1
  <2>7. KeysInPlace'
    <3> SUFFICES ASSUME NEW q \in Peers, NEW x \in Positions,
                        NEW e \in Range(records'[q][x].entries), e # Junk
                 PROVE  x \in PositionsOf(e)
      BY DEF KeysInPlace, WholeAt
    <3>1. e \in Range(records[q][x].entries)
      BY <2>3, <2>5
    <3> QED
      BY <3>1 DEF KeysInPlace, WholeAt
  <2> QED
    BY <1>2, <2>4, <2>5, <2>6, <2>7
<1>4. CASE ~Contains(p, k)
  <2>1. UNCHANGED <<records, bits>>
    BY <1>4 DEF SetErase
  <2>2. KeysInPlace'
    BY <2>1 DEF KeysInPlace, WholeAt
  <2> QED
    BY <1>1, <1>2, <2>1, <2>2
<1> QED
  BY <1>3, <1>4

LEMMA EraseKeeps ==
  ASSUME LooseInv, NEW p \in Peers, NEW k \in Hashes, Erase(p, k)
  PROVE  LooseInv'
<1>1. Shape /\ KeysInPlace
  BY DEF LooseInv
<1>2. /\ members' \in [Peers -> SUBSET Hashes]
      /\ records' \in [Peers -> [Positions -> Record]]
      /\ bits' \in [Peers -> SUBSET Positions]
      /\ \A q \in Peers : q # p => bits'[q] = bits[q] /\ records'[q] = records[q]
      /\ KeysInPlace'
  BY <1>1, SetEraseShrinks DEF Erase
<1>3. /\ QuietSync
      /\ UNCHANGED <<inPos, outPos, outFinished, chunks, reported, known, readable, started, thrown>>
  BY DEF Erase, QuietSync, syncVars
<1>4. started => erased' = erased \union {p}
  BY DEF Erase
<1>5. ~started => UNCHANGED erased
  BY DEF Erase
<1>6. erased \subseteq erased'
  BY <1>4, <1>5
<1>7. ~started => \A q \in Peers : known[q] = {} /\ readable[q] = {} /\ chunks[q] = <<>>
  BY <1>1 DEF Shape
<1>8. Shape'
  BY <1>1, <1>2, <1>3, <1>5, ShapeKept
<1>9. ASSUME NEW q \in Peers \ erased', started
      PROVE  q # p /\ bits'[q] = bits[q] /\ records'[q] = records[q]
  BY <1>2, <1>4, <1>9
<1>10. ChunksInLine'
  <2>1. CASE started
    BY <1>1, <1>3, <1>6, <1>9, <2>1, LineKept DEF LooseInv
  <2>2. CASE ~started
    <3> SUFFICES ASSUME NEW q \in Peers
                 PROVE  \E offset \in [1 .. Len(chunks'[q]) + 1 -> 0 .. Size] : InLine(q, offset)'
      BY DEF ChunksInLine
    <3>1. PICK offset \in [1 .. Len(chunks[q]) + 1 -> 0 .. Size] : InLine(q, offset)
      BY DEF LooseInv, ChunksInLine
    <3>2. chunks[q] = <<>> /\ Len(chunks[q]) = 0
      BY <1>7, <2>2
    <3>3. InLine(q, offset)'
      BY <1>3, <3>1, <3>2 DEF InLine
    <3> QED
      BY <1>3, <3>1, <3>3
  <2> QED
    BY <2>1, <2>2
<1>11. KnownKept'
  <2> SUFFICES ASSUME NEW q \in Peers \ erased' PROVE KnownBits(q) \subseteq bits'[q]
    BY <1>3 DEF KnownKept, KnownBits
  <2>1. CASE started
    BY <1>6, <1>9, <2>1 DEF LooseInv, KnownKept
  <2>2. CASE ~started
    BY <1>7, <2>2 DEF KnownBits
  <2> QED
    BY <2>1, <2>2
<1>12. ReadableKept'
  <2> SUFFICES ASSUME NEW q \in Peers \ erased', NEW e \in readable[q], NEW x \in PositionsOf(e)
               PROVE  x \in bits'[q] /\ e \in Range(records'[q][x].entries)
    BY <1>3 DEF ReadableKept, WholeAt
  <2>1. started
    BY <1>7
  <2>2. x \in bits[q] /\ e \in Range(records[q][x].entries)
    BY <1>6 DEF LooseInv, ReadableKept, WholeAt
  <2> QED
    BY <1>9, <2>1, <2>2
<1>13. Compared'
  <2> SUFFICES ASSUME erased' = {}, NEW q \in Peers, NEW e \in readable[q]
               PROVE  FALSE
    BY <1>3 DEF Compared
  <2>1. started
    BY <1>7
  <2> QED
    BY <1>4, <2>1
<1>14. OutputEnds' /\ ~thrown'
  BY <1>3 DEF LooseInv, OutputEnds
<1>15. ReportsAreNeeded'
  BY <1>3, <1>6 DEF LooseInv, ReportsAreNeeded
<1> QED
  BY <1>2, <1>8, <1>10, <1>11, <1>12, <1>13, <1>14, <1>15 DEF LooseInv

LEMMA StartKeeps ==
  ASSUME LooseInv, Start
  PROVE  LooseInv'
<1>1. Shape /\ erased = {} /\ ~started
  BY DEF LooseInv, Shape, Start
<1>2. /\ UNCHANGED <<members, records, bits, outPos, inPos, outFinished, chunks, reported, thrown, erased>>
      /\ started' = TRUE
  BY DEF Start, setVars, syncVars
<1>3. \A p \in Peers : chunks[p] = <<>> /\ inPos[p] = 0 /\ reported[p] = {}
  BY <1>1 DEF Shape
<1>4. /\ known' = [p \in Peers |-> {k \in Hashes : Contains(p, k)}]
      /\ readable' = [p \in Peers |->
            {k \in members[p] : Contains(p, k) /\ \A x \in PositionsOf(k) : k \in WholeAt(p, x)}]
  BY DEF Start
<1>5. known' \in [Peers -> SUBSET Hashes] /\ readable' \in [Peers -> SUBSET Hashes]
  BY <1>1, <1>4 DEF Shape
<1>6. Shape'
  <2>1. started' \in BOOLEAN /\ started' /\ outFinished' \in [Peers -> BOOLEAN]
    BY <1>1, <1>2 DEF Shape
  <2> QED
    BY <1>1, <1>2, <1>5, <2>1 DEF Shape
<1>7. KeysInPlace'
  BY <1>2 DEF LooseInv, KeysInPlace, WholeAt
<1>8. KnownKept'
  <2> SUFFICES ASSUME NEW p \in Peers, NEW k \in known'[p] PROVE PositionsOf(k) \subseteq bits[p]
    BY <1>2 DEF KnownKept, KnownBits
  <2> QED
    BY <1>4 DEF Contains
<1>9. ReadableKept'
  <2> SUFFICES ASSUME NEW p \in Peers, NEW k \in readable'[p], NEW x \in PositionsOf(k)
               PROVE  x \in bits[p] /\ k \in WholeAt(p, x)
    BY <1>2 DEF ReadableKept, WholeAt
  <2> QED
    BY <1>4 DEF Contains
<1>10. ChunksInLine'
  <2> SUFFICES ASSUME NEW q \in Peers
               PROVE  \E offset \in [1 .. Len(chunks'[q]) + 1 -> 0 .. Size] : InLine(q, offset)'
    BY DEF ChunksInLine
  <2>1. PICK offset \in [1 .. Len(chunks[q]) + 1 -> 0 .. Size] : InLine(q, offset)
    BY DEF LooseInv, ChunksInLine
  <2>2. chunks[q] = <<>> /\ Len(chunks[q]) = 0
    BY <1>3
  <2>3. InLine(q, offset)'
    BY <1>2, <2>1, <2>2 DEF InLine
  <2> QED
    BY <1>2, <2>1, <2>3
<1>11. OutputEnds' /\ ~thrown'
  BY <1>2 DEF LooseInv, OutputEnds
<1>12. Compared'
  <2> SUFFICES ASSUME NEW p \in Peers, NEW k \in readable'[p], NEW x \in PositionsOf(k),
                      x < inPos[p] * ByteSize
               PROVE  FALSE
    BY <1>2 DEF Compared
  <2>1. x \in Positions
    BY <1>5, PositionsAreThose
  <2>2. inPos[p] * ByteSize = 0
    BY <1>3, LooseAssumption
  <2> QED
    BY <2>1, <2>2, LooseAssumption DEF Positions
<1>13. ReportsAreNeeded'
  BY <1>2, <1>3 DEF ReportsAreNeeded
<1> QED
  BY <1>6, <1>7, <1>8, <1>9, <1>10, <1>11, <1>12, <1>13 DEF LooseInv

-----------------------------------------------------------------------------
(* The exchange.                                                           *)

(* A chunk ends inside the filter, and a shorter one at its end. *)
LEMMA ChunkSizeFits ==
  ASSUME NEW length \in Nat, NEW offset \in 0 .. Size
  PROVE  /\ ChunkSize(length, offset) \in Nat
         /\ offset + ChunkSize(length, offset) \in 0 .. Size
         /\ IsLast(ChunkSize(length, offset), length) =>
               offset + ChunkSize(length, offset) = Size
BY SizeType DEF ChunkSize, IsLast

(* What a piece of the array says of it. *)
LEMMA PieceTells ==
  ASSUME NEW set, NEW offset \in Nat, NEW length \in Nat
  PROVE  /\ Piece(set, offset, length) \in SUBSET Nat
         /\ \A j \in Piece(set, offset, length) : offset * ByteSize + j \in set
         /\ \A j \in 0 .. length * ByteSize - 1 :
               offset * ByteSize + j \in set => j \in Piece(set, offset, length)
<1>1. 0 .. length * ByteSize - 1 \subseteq Nat
  OBVIOUS
<1> QED
  BY <1>1 DEF Piece

LEMMA ReadKeeps ==
  ASSUME LooseInv, NEW p \in Peers, NEW length \in Buffers, ReadNextBloomFilterChunk(p, length)
  PROVE  LooseInv'
<1> DEFINE written == ChunkSize(length, outPos[p])
           chunk == [length |-> written, set |-> Piece(bits[p], outPos[p], written)]
           q == Other(p)
<1>1. Shape /\ Size \in Nat /\ length \in Nat
  BY SizeType, LooseAssumption DEF LooseInv
<1>2. /\ q \in Peers /\ q # p /\ Other(q) = p
      /\ \A r \in Peers : r = p \/ r = q
  BY OtherPeer
<1>3. /\ UNCHANGED <<members, records, bits, inPos, reported, thrown, started, known, readable, erased>>
      /\ started
      /\ chunks' = [chunks EXCEPT ![q] = Append(@, chunk)]
      /\ outPos' = [outPos EXCEPT ![p] = @ + written]
      /\ outFinished' = [outFinished EXCEPT ![p] = IsLast(written, length)]
  BY DEF ReadNextBloomFilterChunk, setVars
<1>4. outPos \in [Peers -> 0 .. Size] /\ chunks \in [Peers -> Seq(ChunkRecords)]
  BY <1>1 DEF Shape
<1>5. outPos[p] \in 0 .. Size /\ outPos[p] \in Nat
  BY <1>1, <1>4
<1>6. /\ written \in Nat /\ outPos[p] + written \in 0 .. Size
      /\ IsLast(written, length) => outPos[p] + written = Size
      /\ IsLast(written, length) \in BOOLEAN
  <2>1. IsLast(written, length) \in BOOLEAN
    BY DEF IsLast
  <2> QED
    BY <1>1, <1>5, <2>1, ChunkSizeFits
<1>7. /\ chunk.length = written
      /\ chunk.set \in SUBSET Nat
      /\ \A j \in chunk.set : outPos[p] * ByteSize + j \in bits[p]
      /\ \A j \in 0 .. written * ByteSize - 1 :
            outPos[p] * ByteSize + j \in bits[p] => j \in chunk.set
  BY <1>5, <1>6, PieceTells
<1>8. chunk \in ChunkRecords
  BY <1>6, <1>7 DEF ChunkRecords
<1> HIDE DEF written, chunk, q
<1>9. outPos' \in [Peers -> 0 .. Size] /\ outPos'[p] = outPos[p] + written /\ outPos'[q] = outPos[q]
  BY <1>2, <1>3, <1>4, <1>6
<1>10. /\ chunks' \in [Peers -> Seq(ChunkRecords)]
       /\ chunks'[q] = Append(chunks[q], chunk) /\ chunks'[p] = chunks[p]
  BY <1>2, <1>3, <1>4, <1>8
<1>11. outFinished' \in [Peers -> BOOLEAN]
       /\ outFinished'[p] = IsLast(written, length) /\ outFinished'[q] = outFinished[q]
  BY <1>1, <1>2, <1>3, <1>6, Zenon DEF Shape
<1>12. Shape'
  <2>1. started' \in BOOLEAN /\ started'
    BY <1>1, <1>3 DEF Shape
  <2> QED
    BY <1>1, <1>3, <1>9, <1>10, <1>11, <2>1 DEF Shape
<1>13. KeysInPlace' /\ KnownKept' /\ ReadableKept'
  BY <1>3 DEF LooseInv, KeysInPlace, KnownKept, KnownBits, ReadableKept, WholeAt
<1>14. ChunksInLine'
  <2> SUFFICES ASSUME NEW r \in Peers
               PROVE  \E offset \in [1 .. Len(chunks'[r]) + 1 -> 0 .. Size] : InLine(r, offset)'
    BY DEF ChunksInLine
  <2>1. PICK offset \in [1 .. Len(chunks[r]) + 1 -> 0 .. Size] : InLine(r, offset)
    BY DEF LooseInv, ChunksInLine
  <2>2. KnownBits(p)' = KnownBits(p) /\ KnownBits(q)' = KnownBits(q)
    BY <1>3 DEF KnownBits
  <2>3. CASE r = p
    <3>1. InLine(r, offset)'
      BY <1>2, <1>3, <1>9, <1>10, <2>1, <2>2, <2>3 DEF InLine, Tells, q
    <3> QED
      BY <1>10, <2>1, <2>3, <3>1
  <2>4. CASE r = q
    <3> DEFINE n == Len(chunks[q])
    <3>1. chunks[q] \in Seq(ChunkRecords) /\ n \in Nat
      BY <1>2, <1>4
    <3>2. /\ Len(chunks'[q]) = n + 1
          /\ chunks'[q][n + 1] = chunk
          /\ \A i \in 1 .. n : chunks'[q][i] = chunks[q][i]
      BY <1>10, <3>1
    <3>3. /\ offset \in [1 .. n + 1 -> 0 .. Size]
          /\ offset[1] = inPos[q] /\ offset[n + 1] = outPos[p]
          /\ \A i \in 1 .. n : /\ offset[i + 1] = offset[i] + chunks[q][i].length
                               /\ p \notin erased => Tells(p, chunks[q][i], offset[i])
      BY <1>2, <2>1, <2>4 DEF InLine
    <3> HIDE DEF n
    <3>4. PICK new \in [1 .. n + 2 -> 0 .. Size] :
             new[n + 2] = outPos[p] + written /\ \A i \in 1 .. n + 1 : new[i] = offset[i]
      <4> DEFINE line == [i \in 1 .. n + 2 |-> IF i = n + 2 THEN outPos[p] + written ELSE offset[i]]
      <4>1. /\ line \in [1 .. n + 2 -> 0 .. Size] /\ line[n + 2] = outPos[p] + written
            /\ \A i \in 1 .. n + 1 : line[i] = offset[i]
        BY <1>6, <3>1, <3>3
      <4> HIDE DEF line
      <4> QED
        BY <4>1
    <3>5. ASSUME p \notin erased
          PROVE  /\ \A j \in chunk.set : outPos[p] * ByteSize + j \in bits[p]
                 /\ \A j \in 0 .. chunk.length * ByteSize - 1 :
                       outPos[p] * ByteSize + j \in KnownBits(p) => j \in chunk.set
      BY <1>7, <3>5 DEF LooseInv, KnownKept
    <3>6. ASSUME NEW i \in 1 .. n + 1
          PROVE  /\ new[i + 1] = new[i] + chunks'[q][i].length
                 /\ \/ chunks'[q][i] = chunk /\ new[i] = outPos[p]
                    \/ p \notin erased => Tells(p, chunks'[q][i], new[i])
      <4>1. CASE i = n + 1
        <5>1. new[i + 1] = outPos[p] + written /\ new[i] = outPos[p] /\ chunks'[q][i] = chunk
          BY <3>1, <3>2, <3>3, <3>4, <4>1
        <5> QED
          BY <1>7, <5>1
      <4>2. CASE i # n + 1
        <5>1. i \in 1 .. n /\ i + 1 \in 1 .. n + 1
          BY <3>1, <4>2
        <5>2. new[i + 1] = offset[i + 1] /\ new[i] = offset[i] /\ chunks'[q][i] = chunks[q][i]
          BY <3>1, <3>2, <3>4, <5>1
        <5> QED
          BY <3>3, <5>1, <5>2
      <4> QED
        BY <4>1, <4>2
    <3>7. new[1] = inPos[q] /\ new[n + 2] = outPos'[p]
      BY <1>9, <3>1, <3>3, <3>4
    <3>8. ASSUME NEW i \in 1 .. n + 1, p \notin erased
          PROVE  /\ \A j \in chunks'[q][i].set : new[i] * ByteSize + j \in bits[p]
                 /\ \A j \in 0 .. chunks'[q][i].length * ByteSize - 1 :
                       new[i] * ByteSize + j \in KnownBits(p) => j \in chunks'[q][i].set
      BY <3>5, <3>6, <3>8 DEF Tells
    <3>9. \A i \in 1 .. n + 1 : p \notin erased' => Tells(p, chunks[q][i], new[i])'
      BY <1>3, <2>2, <3>8 DEF Tells
    <3>10. InLine(q, new)'
      <4>1. (n + 1) + 1 = n + 2
        BY <3>1
      <4> QED
        BY <1>2, <1>3, <3>2, <3>6, <3>7, <3>9, <4>1 DEF InLine
    <3> QED
      BY <2>4, <3>1, <3>2, <3>4, <3>10
  <2> QED
    BY <1>2, <2>3, <2>4
<1>15. OutputEnds'
  BY <1>2, <1>6, <1>9, <1>11 DEF LooseInv, OutputEnds
<1>16. Compared' /\ ReportsAreNeeded' /\ ~thrown'
  BY <1>3 DEF LooseInv, Compared, ReportsAreNeeded
<1> QED
  BY <1>12, <1>13, <1>14, <1>15, <1>16 DEF LooseInv

(* The positions that diff finds are those that the chunk lacks. *)
LEMMA MissingIsLacking ==
  ASSUME NEW set \in SUBSET Positions, NEW chunk, chunk.length \in Nat, NEW offset \in Nat
  PROVE  /\ Missing(set, chunk, offset) \subseteq set
         /\ \A x \in Missing(set, chunk, offset) :
               \E j \in 0 .. chunk.length * ByteSize - 1 :
                  x = offset * ByteSize + j /\ j \notin chunk.set
         /\ \A j \in 0 .. chunk.length * ByteSize - 1 :
               offset * ByteSize + j \in set /\ j \notin chunk.set =>
                  offset * ByteSize + j \in Missing(set, chunk, offset)
<1>1. \A x \in set : x <= FilterSize
  BY LooseAssumption DEF Positions
<1> QED
  BY <1>1 DEF Missing, Piece

(* Positions before the end of a chunk are before its beginning or in it. *)
LEMMA SplitAtChunk ==
  ASSUME NEW offset \in Nat, NEW length \in Nat, NEW x \in Nat, x < (offset + length) * ByteSize
  PROVE  \/ x < offset * ByteSize
         \/ \E j \in 0 .. length * ByteSize - 1 : x = offset * ByteSize + j
<1>1. /\ (offset + length) * ByteSize = offset * ByteSize + length * ByteSize
      /\ offset * ByteSize \in Nat /\ length * ByteSize \in Nat
  BY LooseAssumption
<1> DEFINE a == offset * ByteSize
           b == length * ByteSize
<1>2. a \in Nat /\ b \in Nat /\ x < a + b
  BY <1>1
<1> HIDE DEF a, b
<1>3. x < a \/ \E j \in 0 .. b - 1 : x = a + j
  <2> SUFFICES ASSUME ~(x < a) PROVE \E j \in 0 .. b - 1 : x = a + j
    OBVIOUS
  <2>1. x - a \in 0 .. b - 1 /\ x = a + (x - a)
    BY <1>2
  <2> QED
    BY <2>1
<1> QED
  BY <1>3 DEF a, b

LEMMA ProcessKeeps ==
  ASSUME LooseInv, NEW p \in Peers, ProcessBloomFilterChunk(p)
  PROVE  LooseInv'
<1> DEFINE chunk == Head(chunks[p])
           lacking == Missing(bits[p], chunk, inPos[p])
           found == UNION {WholeAt(p, x) : x \in lacking}
           q == Other(p)
           n == Len(chunks[p])
<1>1. Shape /\ Size \in Nat
  BY SizeType DEF LooseInv
<1>2. q \in Peers /\ q # p /\ Other(q) = p /\ \A r \in Peers : r = p \/ r = q
  BY OtherPeer
<1>3. /\ chunks \in [Peers -> Seq(ChunkRecords)] /\ chunks[p] \in Seq(ChunkRecords)
      /\ inPos \in [Peers -> 0 .. Size] /\ inPos[p] \in Nat
      /\ bits[p] \in SUBSET Positions
      /\ reported \in [Peers -> SUBSET Hashes]
      /\ n \in Nat \ {0} /\ chunks[p] # <<>>
  <2>1. chunks[p] \in Seq(ChunkRecords) /\ chunks[p] # <<>>
    BY <1>1 DEF Shape, ProcessBloomFilterChunk
  <2> QED
    BY <1>1, <2>1 DEF Shape
<1>4. chunk \in ChunkRecords /\ chunk = chunks[p][1]
  BY <1>3
<1>5. chunk.length \in Nat
  BY <1>4 DEF ChunkRecords
<1>6. PICK offset \in [1 .. n + 1 -> 0 .. Size] : InLine(p, offset)
  BY DEF LooseInv, ChunksInLine
<1>7. /\ offset[1] = inPos[p] /\ offset[2] = inPos[p] + chunk.length /\ offset[2] \in 0 .. Size
      /\ q \notin erased => Tells(q, chunk, inPos[p])
  <2>1. 1 \in 1 .. n /\ 1 + 1 = 2 /\ 2 \in 1 .. n + 1
    BY <1>3
  <2>2. offset[1 + 1] = offset[1] + chunks[p][1].length /\ offset[1] = inPos[p]
        /\ (q \notin erased => Tells(q, chunks[p][1], offset[1]))
    BY <1>6, <2>1 DEF InLine
  <2> QED
    BY <1>4, <1>6, <2>1, <2>2
<1>8. ~(chunk.length + inPos[p] > Size)
  BY <1>1, <1>3, <1>5, <1>7
<1>9. /\ UNCHANGED <<members, records, bits, outPos, outFinished, thrown, started, known, readable, erased>>
      /\ chunks' = [chunks EXCEPT ![p] = Tail(@)]
      /\ reported' = [reported EXCEPT ![p] = @ \union found]
      /\ inPos' = [inPos EXCEPT ![p] = @ + chunk.length]
  BY <1>8 DEF ProcessBloomFilterChunk, Handle, setVars
<1>10. /\ \A x \in lacking :
             /\ x \in bits[p] /\ x \in Positions
             /\ \E j \in 0 .. chunk.length * ByteSize - 1 :
                   x = inPos[p] * ByteSize + j /\ j \notin chunk.set
       /\ \A j \in 0 .. chunk.length * ByteSize - 1 :
             inPos[p] * ByteSize + j \in bits[p] /\ j \notin chunk.set =>
                inPos[p] * ByteSize + j \in lacking
  <2> HIDE DEF chunk
  <2>1. bits[p] \in SUBSET Positions /\ inPos[p] \in Nat /\ chunk.length \in Nat
    BY <1>3, <1>5
  <2>2. \A x \in lacking : x \in bits[p] /\ \E j \in 0 .. chunk.length * ByteSize - 1 :
                               x = inPos[p] * ByteSize + j /\ j \notin chunk.set
    <3>1. /\ Missing(bits[p], chunk, inPos[p]) \subseteq bits[p]
          /\ \A x \in Missing(bits[p], chunk, inPos[p]) :
                \E j \in 0 .. chunk.length * ByteSize - 1 :
                   x = inPos[p] * ByteSize + j /\ j \notin chunk.set
      BY <2>1, MissingIsLacking
    <3> QED
      BY <3>1, Zenon
  <2>3. \A j \in 0 .. chunk.length * ByteSize - 1 :
          inPos[p] * ByteSize + j \in bits[p] /\ j \notin chunk.set =>
             inPos[p] * ByteSize + j \in lacking
    BY <2>1, MissingIsLacking
  <2> HIDE DEF lacking
  <2> QED
    BY <2>1, <2>2, <2>3, Zenon
<1> HIDE DEF chunk, lacking, q, n
<1>11. found \subseteq Hashes
  <2> SUFFICES ASSUME NEW x \in lacking PROVE WholeAt(p, x) \subseteq Hashes
    OBVIOUS
  <2>1. records[p][x] \in Record
    BY <1>1, <1>10 DEF Shape
  <2> QED
    BY <2>1, RecordsHoldHashes DEF WholeAt
<1>12. /\ reported' \in [Peers -> SUBSET Hashes]
       /\ reported'[p] = reported[p] \union found /\ reported'[q] = reported[q]
  <2> HIDE DEF found
  <2> QED
    BY <1>2, <1>3, <1>9, <1>11
<1>13. /\ inPos' \in [Peers -> 0 .. Size]
       /\ inPos'[p] = inPos[p] + chunk.length /\ inPos'[q] = inPos[q]
  BY <1>2, <1>3, <1>7, <1>9
<1>14. /\ chunks' \in [Peers -> Seq(ChunkRecords)]
       /\ chunks'[p] = Tail(chunks[p]) /\ chunks'[q] = chunks[q]
  <2>1. Tail(chunks[p]) \in Seq(ChunkRecords)
    BY <1>3
  <2> QED
    BY <1>2, <1>3, <1>9, <2>1
<1>15. started
  BY <1>1, <1>3 DEF Shape
<1>16. Shape'
  <2>1. started' \in BOOLEAN /\ started' /\ outFinished' \in [Peers -> BOOLEAN]
    BY <1>1, <1>9, <1>15 DEF Shape
  <2> QED
    BY <1>1, <1>9, <1>12, <1>13, <1>14, <2>1 DEF Shape
<1>17. KeysInPlace' /\ KnownKept' /\ ReadableKept' /\ OutputEnds' /\ ~thrown'
  BY <1>9 DEF LooseInv, KeysInPlace, KnownKept, KnownBits, ReadableKept, OutputEnds, WholeAt
<1>18. ChunksInLine'
  <2> SUFFICES ASSUME NEW r \in Peers
               PROVE  \E line \in [1 .. Len(chunks'[r]) + 1 -> 0 .. Size] : InLine(r, line)'
    BY DEF ChunksInLine
  <2>1. KnownBits(p)' = KnownBits(p) /\ KnownBits(q)' = KnownBits(q)
    BY <1>9 DEF KnownBits
  <2>2. CASE r = q
    <3>1. PICK line \in [1 .. Len(chunks[q]) + 1 -> 0 .. Size] : InLine(q, line)
      BY <1>2 DEF LooseInv, ChunksInLine
    <3>2. InLine(q, line)'
      BY <1>2, <1>9, <1>13, <1>14, <2>1, <3>1 DEF InLine, Tells
    <3> QED
      BY <1>14, <2>2, <3>1, <3>2
  <2>3. CASE r = p
    <3>1. /\ Len(chunks'[p]) = n - 1 /\ n - 1 + 1 = n /\ n \in Nat
          /\ \A i \in 1 .. n - 1 : chunks'[p][i] = chunks[p][i + 1]
      BY <1>3, <1>14 DEF n
    <3>2. PICK line \in [1 .. n -> 0 .. Size] : \A i \in 1 .. n : line[i] = offset[i + 1]
      <4> DEFINE l == [i \in 1 .. n |-> offset[i + 1]]
      <4>1. l \in [1 .. n -> 0 .. Size] /\ \A i \in 1 .. n : l[i] = offset[i + 1]
        BY <1>6, <3>1
      <4> HIDE DEF l
      <4> QED
        BY <4>1
    <3>3. line[1] = inPos'[p] /\ line[n] = outPos'[q]
      BY <1>3, <1>6, <1>7, <1>9, <1>13, <3>1, <3>2 DEF InLine, q, n
    <3>4. ASSUME NEW i \in 1 .. n - 1
          PROVE  /\ line[i + 1] = line[i] + chunks'[p][i].length
                 /\ q \notin erased =>
                      /\ \A j \in chunks'[p][i].set : line[i] * ByteSize + j \in bits[q]
                      /\ \A j \in 0 .. chunks'[p][i].length * ByteSize - 1 :
                            line[i] * ByteSize + j \in KnownBits(q) => j \in chunks'[p][i].set
      <4>1. i + 1 \in 1 .. n /\ i \in 1 .. n /\ chunks'[p][i] = chunks[p][i + 1]
        BY <3>1
      <4>2. line[i] = offset[i + 1] /\ line[i + 1] = offset[(i + 1) + 1]
        BY <3>2, <4>1
      <4>3. /\ offset[(i + 1) + 1] = offset[i + 1] + chunks[p][i + 1].length
            /\ q \notin erased => Tells(q, chunks[p][i + 1], offset[i + 1])
        BY <1>6, <4>1 DEF InLine, q, n
      <4> QED
        BY <4>1, <4>2, <4>3 DEF Tells
    <3>5. InLine(p, line)'
      <4>1. \A i \in 1 .. n - 1 : q \notin erased' => Tells(q, chunks[p][i], line[i])'
        BY <1>9, <2>1, <3>4 DEF Tells
      <4> QED
        BY <1>9, <3>1, <3>3, <3>4, <4>1 DEF InLine, q
    <3> QED
      BY <2>3, <3>1, <3>2, <3>5
  <2> QED
    BY <1>2, <2>2, <2>3
<1>19. Compared'
  <2> SUFFICES ASSUME erased = {}, NEW r \in Peers, NEW k \in readable[r], NEW x \in PositionsOf(k),
                      x < inPos'[r] * ByteSize
               PROVE  k \in reported'[r] \/ x \in bits[Other(r)]
    BY <1>9 DEF Compared
  <2>1. ASSUME x < inPos[r] * ByteSize PROVE k \in reported[r] \/ x \in bits[Other(r)]
    BY <2>1 DEF LooseInv, Compared
  <2>2. CASE r = q
    BY <1>12, <1>13, <2>1, <2>2
  <2>3. CASE r = p
    <3>1. x \in bits[p] /\ k \in WholeAt(p, x) /\ x \in Nat
      <4>1. x \in bits[p] /\ k \in WholeAt(p, x)
        BY <2>3 DEF LooseInv, ReadableKept
      <4> QED
        BY <1>3, <4>1 DEF Positions
    <3>2. x < inPos[p] * ByteSize \/ \E j \in 0 .. chunk.length * ByteSize - 1 : x = inPos[p] * ByteSize + j
      BY <1>3, <1>5, <1>13, <2>3, <3>1, SplitAtChunk
    <3>3. CASE x < inPos[p] * ByteSize
      BY <1>12, <2>1, <2>3, <3>3
    <3>4. CASE \E j \in 0 .. chunk.length * ByteSize - 1 : x = inPos[p] * ByteSize + j
      <4>1. PICK j \in 0 .. chunk.length * ByteSize - 1 : x = inPos[p] * ByteSize + j
        BY <3>4
      <4>2. CASE j \in chunk.set
        BY <1>2, <1>7, <2>3, <4>1, <4>2 DEF Tells, q
      <4>3. CASE j \notin chunk.set
        BY <1>10, <1>12, <2>3, <3>1, <4>1, <4>3
      <4> QED
        BY <4>2, <4>3
    <3> QED
      BY <3>2, <3>3, <3>4
  <2> QED
    BY <1>2, <2>2, <2>3
<1>20. ReportsAreNeeded'
  <2> SUFFICES ASSUME NEW r \in Peers, Other(r) \notin erased,
                      NEW k \in reported'[r], k # Junk, k \in known[Other(r)]
               PROVE  FALSE
    BY <1>9 DEF ReportsAreNeeded
  <2>1. k \notin reported[r]
    BY DEF LooseInv, ReportsAreNeeded
  <2>2. r = p /\ k \in found
    BY <1>2, <1>12, <2>1
  <2>3. PICK x \in lacking : k \in WholeAt(p, x)
    BY <2>2
  <2>4. x \in PositionsOf(k)
    BY <1>10, <2>3 DEF LooseInv, KeysInPlace
  <2>5. x \in KnownBits(q)
    BY <2>2, <2>4 DEF KnownBits, q
  <2>6. PICK j \in 0 .. chunk.length * ByteSize - 1 : x = inPos[p] * ByteSize + j /\ j \notin chunk.set
    BY <1>10
  <2> QED
    BY <1>7, <2>2, <2>5, <2>6 DEF Tells, q
<1> QED
  BY <1>16, <1>17, <1>18, <1>19, <1>20 DEF LooseInv

LEMMA NextLoose == LooseInv /\ [Next]_vars => LooseInv'
<1> SUFFICES ASSUME LooseInv, [Next]_vars PROVE LooseInv'
  OBVIOUS
<1>1. CASE Start
  BY <1>1, StartKeeps
<1>2. ASSUME NEW p \in Peers, NEW k \in Keys, Insert(p, k) PROVE LooseInv'
  <2>1. k \in Hashes /\ QuietSync /\ UNCHANGED erased /\ SetInsert(p, k)
    BY <1>2 DEF Hashes, Insert, QuietSync, syncVars
  <2> QED
    BY <2>1, GrowthKeeps
<1>3. ASSUME NEW p \in Peers, NEW k \in Keys, Erase(p, k) PROVE LooseInv'
  BY <1>3, EraseKeeps DEF Hashes
<1>4. ASSUME NEW p \in Peers, NEW k \in Hashes, InsertReported(p, k) PROVE LooseInv'
  <2>1. QuietSync /\ UNCHANGED erased /\ SetInsert(Other(p), k) /\ Other(p) \in Peers
    BY <1>4, OtherPeer DEF InsertReported, QuietSync, syncVars
  <2> QED
    BY <2>1, GrowthKeeps
<1>5. ASSUME NEW p \in Peers, Exchange(p) PROVE LooseInv'
  BY <1>5, ReadKeeps, ProcessKeeps DEF Exchange
<1>6. CASE UNCHANGED vars
  <2>1. UNCHANGED <<members, records, bits, outPos, inPos, outFinished, chunks, reported, thrown,
                    started, known, readable, erased>>
    BY <1>6 DEF vars, setVars, syncVars
  <2>2. Shape' /\ OutputEnds' /\ ~thrown'
    <3>1. started' \in BOOLEAN /\ outFinished' \in [Peers -> BOOLEAN]
      BY <2>1 DEF LooseInv, Shape
    <3> QED
      BY <2>1, <3>1 DEF LooseInv, Shape, OutputEnds
  <2>3. KeysInPlace' /\ KnownKept' /\ ReadableKept'
    BY <2>1 DEF LooseInv, KeysInPlace, KnownKept, KnownBits, ReadableKept, WholeAt
  <2>4. ChunksInLine'
    <3>1. QuietSync
      BY <2>1 DEF QuietSync, syncVars
    <3> QED
      BY <2>1, <3>1, LineKept DEF LooseInv
  <2>5. Compared' /\ ReportsAreNeeded'
    BY <2>1 DEF LooseInv, Compared, ReportsAreNeeded
  <2> QED
    BY <2>2, <2>3, <2>4, <2>5 DEF LooseInv
<1> QED
  BY <1>1, <1>2, <1>3, <1>4, <1>5, <1>6 DEF Next

LEMMA LooseAlways == Spec => []LooseInv
<1>1. Init => LooseInv
  BY InitLoose
<1>2. LooseInv /\ [Next]_vars => LooseInv'
  BY NextLoose
<1> QED
  BY <1>1, <1>2, PTL DEF Spec

-----------------------------------------------------------------------------
(* The results.                                                            *)

(***************************************************************************)
(* Whatever the buffers and however insertions, erasures and chunks        *)
(* interleave, readNextBloomFilterChunk and processBloomFilterChunk keep   *)
(* their positions inside the filter, and add, remove and diff read and    *)
(* write records of the right form.                                        *)
(***************************************************************************)
THEOREM PositionsStayInside == Spec => []TypeOK
<1>1. LooseInv => TypeOK
  <2> SUFFICES ASSUME Shape PROVE TypeOK
    BY DEF LooseInv
  <2>1. ASSUME NEW p \in Peers, NEW x \in Positions
        PROVE  WholeAt(p, x) \subseteq Hashes /\ records[p][x].tail \in 0 .. HashSize - 1
    <3>1. records[p][x] \in Record
      BY DEF Shape
    <3> QED
      BY <3>1, RecordsHoldHashes DEF WholeAt
  <2>2. outFinished \in [Peers -> BOOLEAN]
    BY DEF Shape
  <2> QED
    BY <2>1, <2>2 DEF Shape, TypeOK
<1> QED
  BY <1>1, LooseAlways, PTL

(***************************************************************************)
(* diff never throws, although the receiver counts its position from the   *)
(* lengths of the chunks alone; and when an output has ended and its       *)
(* chunks are compared, the whole filter has been, not less.               *)
(***************************************************************************)
THEOREM DiffNeverThrows == Spec => []ChunksFit
<1>1. LooseInv => ChunksFit
  <2> SUFFICES ASSUME LooseInv, NEW p \in Peers, Finished(p)
               PROVE  outPos[p] = Size /\ inPos[Other(p)] = Size
    BY DEF ChunksFit, LooseInv
  <2> DEFINE q == Other(p)
  <2>1. q \in Peers /\ Other(q) = p
    BY OtherPeer
  <2>2. outPos[p] = Size
    BY DEF LooseInv, OutputEnds, Finished
  <2>3. chunks[q] = <<>> /\ Len(chunks[q]) = 0
    BY DEF Finished
  <2>4. PICK offset \in [1 .. Len(chunks[q]) + 1 -> 0 .. Size] : InLine(q, offset)
    BY <2>1 DEF LooseInv, ChunksInLine
  <2>5. inPos[q] = outPos[p]
    BY <2>1, <2>3, <2>4 DEF InLine
  <2> QED
    BY <2>2, <2>5
<1> QED
  BY <1>1, LooseAlways, PTL

(***************************************************************************)
(* Loose synchronization misses nothing but false positives: what was      *)
(* found and readable at the start is reported by diff, or the other       *)
(* filter contains it in the end, if nobody erases meanwhile.              *)
(***************************************************************************)
THEOREM NothingIsMissed == Spec => []NothingMissed
<1>1. LooseInv /\ ChunksFit => NothingMissed
  <2> SUFFICES ASSUME LooseInv, ChunksFit, NEW p \in Peers, Finished(Other(p)), erased = {},
                      NEW k \in readable[p], k \notin reported[p]
               PROVE  Contains(Other(p), k)
    BY DEF NothingMissed
  <2>1. inPos[p] = Size
    BY OtherPeer DEF ChunksFit
  <2>2. k \in Hashes
    BY DEF LooseInv, Shape
  <2> SUFFICES ASSUME NEW x \in PositionsOf(k) PROVE x \in bits[Other(p)]
    BY DEF Contains
  <2>3. x \in Positions
    BY <2>2, PositionsAreThose
  <2>4. x < inPos[p] * ByteSize
    <3>1. Size * ByteSize \in Nat /\ FilterSize <= Size * ByteSize
      BY SizeType, LooseAssumption
    <3> DEFINE a == Size * ByteSize
    <3>2. a \in Nat /\ FilterSize <= a
      BY <3>1
    <3> HIDE DEF a
    <3>3. x < a
      BY <2>3, <3>2, LooseAssumption DEF Positions
    <3> QED
      BY <2>1, <3>3 DEF a
  <2> QED
    BY <2>4 DEF LooseInv, Compared
<1> QED
  BY <1>1, LooseAlways, DiffNeverThrows, PTL

(***************************************************************************)
(* diff reports no key that the other filter contained from the start,     *)
(* unless its owner has erased something since: insertions and other keys  *)
(* in the same records never bring such a report about.                    *)
(***************************************************************************)
THEOREM NoNeedlessReport == Spec => []ReportsAreNeeded
<1>1. LooseInv => ReportsAreNeeded
  BY DEF LooseInv
<1> QED
  BY <1>1, LooseAlways, PTL

=============================================================================
