--------------------------- MODULE TrieSyncProofs ---------------------------
(***************************************************************************)
(* Proofs about TrieSync, for any two sets of keys, any prefix structure,  *)
(* any cut that satisfies CutAssumption and any buffer sizes.              *)
(***************************************************************************)
EXTENDS StrictLoop, SequenceTheorems, TLAPS

-----------------------------------------------------------------------------
(* Facts about the two peers and about nodes.                              *)

(* Each peer has exactly one other. *)
LEMMA OtherPeer ==
  ASSUME NEW p \in Peers
  PROVE  /\ Other(p) \in Peers
         /\ Other(p) # p
         /\ Other(Other(p)) = p
         /\ \A r \in Peers : r = p \/ r = Other(p)
BY PeersAssumption DEF Peers, Other

(* A node of a trie is a nonempty set of its keys. *)
LEMMA NodeBelow ==
  ASSUME NEW S, NEW h \in Nodes(S)
  PROVE  h \subseteq S /\ h # {}
BY DEF Nodes

(* A nonempty trie has its whole key set as root. *)
LEMMA RootIsNode ==
  ASSUME NEW S \in SUBSET Keys, S # {}
  PROVE  S \in Nodes(S)
<1>1. S = Keys \cap S
  OBVIOUS
<1> QED
  BY <1>1, BlocksAssumption DEF Nodes

(* The leaf of every key is a node. *)
LEMMA LeafIsNode ==
  ASSUME NEW S \in SUBSET Keys, NEW x \in S
  PROVE  {x} \in Nodes(S)
<1>1. {x} = {x} \cap S /\ {x} \in Blocks
  BY BlocksAssumption
<1> QED
  BY <1>1 DEF Nodes

(* The subtrie of a node is part of the trie: a node below a node of S is  *)
(* a node of S.  This is where the blocks have to nest.                    *)
LEMMA NodesNest ==
  ASSUME NEW S, NEW h \in Nodes(S), NEW g \in Nodes(h)
  PROVE  g \in Nodes(S)
<1>1. PICK b \in Blocks : h = b \cap S
  BY DEF Nodes
<1>2. PICK c \in Blocks : g = c \cap h /\ g # {}
  BY DEF Nodes
<1>3. c \subseteq b \/ b \subseteq c
  BY <1>1, <1>2, BlocksAssumption
<1>4. CASE c \subseteq b
  <2>1. g = c \cap S
    BY <1>1, <1>2, <1>4
  <2> QED
    BY <2>1, <1>2 DEF Nodes
<1>5. CASE b \subseteq c
  <2>1. g = h
    BY <1>1, <1>2, <1>5
  <2> QED
    BY <2>1
<1> QED
  BY <1>3, <1>4, <1>5

(* What a buffer receives for a node of a trie. *)
LEMMA CutNodes ==
  ASSUME NEW S \in SUBSET Keys, NEW h \in Nodes(S), NEW n \in Limits, n >= 2
  PROVE  /\ Cut(h, n) \in Seq(Hashes)
         /\ \A i \in 1 .. Len(Cut(h, n)) : Cut(h, n)[i] \in Nodes(S)
         /\ \A x \in h : \E i \in 1 .. Len(Cut(h, n)) : x \in Cut(h, n)[i]
<1>1. h \in (SUBSET Keys) \ {{}}
  BY NodeBelow
<1>2. Cut(h, n) \in Seq(Nodes(h))
  BY <1>1, CutAssumption
<1>3. \A x \in h : \E i \in DOMAIN Cut(h, n) : x \in Cut(h, n)[i]
  BY <1>1, CutAssumption
<1>4. Nodes(h) \subseteq Hashes
  BY <1>1, NodeBelow DEF Hashes
<1>5. Cut(h, n) \in Seq(Hashes)
  BY <1>2, <1>4, SeqMonotonic
<1>6. DOMAIN Cut(h, n) = 1 .. Len(Cut(h, n))
  BY <1>5, LenProperties
<1>7. \A i \in 1 .. Len(Cut(h, n)) : Cut(h, n)[i] \in Nodes(h)
  BY <1>2, ElementOfSeq
<1> QED
  BY <1>3, <1>5, <1>6, <1>7, NodesNest

-----------------------------------------------------------------------------
(* Type correctness.                                                       *)

LEMMA InitType == Init => TypeOK
<1> SUFFICES ASSUME Init PROVE TypeOK
  OBVIOUS
<1>1. \A S : <<>> \in Seq(S)
  BY EmptySeq
<1> QED
  BY <1>1 DEF Init, TypeOK, Stats

LEMMA NextType == TypeOK /\ [Next]_vars => TypeOK'
<1> SUFFICES ASSUME TypeOK, [Next]_vars PROVE TypeOK'
  OBVIOUS
<1> USE DEF TypeOK
<1>1. ASSUME NEW p \in Peers, GetRootHashForSending(p) PROVE TypeOK'
  <2>1. trie[p] \in Hashes
    BY <1>1 DEF GetRootHashForSending, HasRoot, Hashes
  <2>2. <<trie[p]>> \in Seq(Hashes)
    BY <2>1
  <2> QED
    BY <1>1, <2>2 DEF GetRootHashForSending, process
<1>2. ASSUME NEW p \in Peers, IsEqual(p) PROVE TypeOK'
  <2>1. <<>> \in Seq(Hashes)
    BY EmptySeq
  <2> QED
    BY <1>2, <2>1 DEF IsEqual, Stats
<1>3. ASSUME NEW p \in Peers, IsSubtrieOutputAvailable(p) PROVE TypeOK'
  <2>1. trie[p] \in Hashes
    BY <1>3 DEF IsSubtrieOutputAvailable, HasRoot, Hashes
  <2>2. Append(pendingSubtries[p], trie[p]) \in Seq(Hashes)
    BY <2>1, AppendProperties
  <2> QED
    BY <1>3, <2>2 DEF IsSubtrieOutputAvailable, channels, Stats
<1>4. ASSUME NEW p \in Peers, NEW n \in Limits, GetSubTrie(p, n) PROVE TypeOK'
  <2>1. CASE Servable(p, n) = {} /\ UNCHANGED <<sentHashes, subtrieChan>>
             /\ pendingSubtries' = [pendingSubtries EXCEPT ![p] = <<>>]
    <3>1. <<>> \in Seq(Hashes)
      BY EmptySeq
    <3> QED
      BY <1>4, <2>1, <3>1 DEF GetSubTrie
  <2>2. ASSUME NEW top \in Servable(p, n),
               sentHashes' = [sentHashes EXCEPT ![p] =
                                @ \o Cut(pendingSubtries[p][top], n)],
               subtrieChan' = [subtrieChan EXCEPT ![p] =
                                @ \o Cut(pendingSubtries[p][top], n)],
               pendingSubtries' =
                 [pendingSubtries EXCEPT ![p] = SubSeq(@, 1, top - 1)]
        PROVE  TypeOK'
    <3>1. /\ top \in 1 .. Len(pendingSubtries[p])
          /\ pendingSubtries[p][top] \in Nodes(trie[p])
          /\ n >= 2
      BY <2>2, LenProperties DEF Servable, TrieContains
    <3>2. Cut(pendingSubtries[p][top], n) \in Seq(Hashes)
      BY <3>1, CutNodes
    <3>3. SubSeq(pendingSubtries[p], 1, top - 1) \in Seq(Hashes)
      <4>1. \A i \in 1 .. top - 1 : pendingSubtries[p][i] \in Hashes
        BY <3>1, ElementOfSeq
      <4> QED
        BY <4>1, <3>1, SubSeqProperties
    <3>4. /\ sentHashes[p] \o Cut(pendingSubtries[p][top], n) \in Seq(Hashes)
          /\ subtrieChan[p] \o Cut(pendingSubtries[p][top], n) \in Seq(Hashes)
      BY <3>2, ConcatProperties
    <3> QED
      BY <1>4, <2>2, <3>3, <3>4 DEF GetSubTrie
  <2> QED
    BY <1>4, <2>1, <2>2 DEF GetSubTrie
<1>5. ASSUME NEW p \in Peers, ProcessSubTrie(p) PROVE TypeOK'
  <2> DEFINE q == Other(p)
             bit == ~TrieContains(p, Head(subtrieChan[q]))
  <2>1. q \in Peers
    BY OtherPeer
  <2>2. bit \in BOOLEAN
    BY DEF TrieContains
  <2>3. Append(pendingAcks[p], bit) \in Seq(BOOLEAN)
    BY <2>2, AppendProperties
  <2>4. Tail(subtrieChan[q]) \in Seq(Hashes)
    BY <1>5, <2>1, HeadTailProperties DEF ProcessSubTrie
  <2> QED
    BY <1>5, <2>1, <2>3, <2>4 DEF ProcessSubTrie
<1>6. ASSUME NEW p \in Peers, NEW length \in AckBuffers,
             ReadSomeTrieAcks(p, length)
      PROVE  TypeOK'
  <2> DEFINE number == Smaller(length * ByteBits, Len(pendingAcks[p]))
  <2>1. number \in 0 .. Len(pendingAcks[p]) /\ Len(pendingAcks[p]) \in Nat
    BY BuffersAssumption, LenProperties DEF Smaller
  <2>2. /\ SubSeq(pendingAcks[p], 1, number) \in Seq(BOOLEAN)
        /\ SubSeq(pendingAcks[p], number + 1, Len(pendingAcks[p])) \in Seq(BOOLEAN)
    <3>1. \A i \in 1 .. Len(pendingAcks[p]) : pendingAcks[p][i] \in BOOLEAN
      BY ElementOfSeq
    <3> HIDE DEF number
    <3> QED
      BY <3>1, <2>1, SubSeqProperties
  <2>3. ackChan[p] \o SubSeq(pendingAcks[p], 1, number) \in Seq(BOOLEAN)
    BY <2>2, ConcatProperties
  <2> QED
    BY <1>6, <2>2, <2>3 DEF ReadSomeTrieAcks
<1>7. ASSUME NEW p \in Peers, ProcessAck(p) PROVE TypeOK'
  <2> DEFINE q == Other(p)
             h == Head(sentHashes[p])
  <2>1. q \in Peers
    BY OtherPeer
  <2>2. /\ h \in Hashes
        /\ Tail(sentHashes[p]) \in Seq(Hashes)
        /\ Tail(ackChan[q]) \in Seq(BOOLEAN)
    BY <1>7, <2>1, HeadTailProperties DEF ProcessAck
  <2>3. /\ Append(pendingSubtries[p], h) \in Seq(Hashes)
        /\ (IF HasRoot(p) THEN <<trie[p]>> ELSE <<>>) \in Seq(Hashes)
        /\ reported[p] \cup h \in SUBSET Keys
    <3>1. HasRoot(p) => trie[p] \in Hashes
      BY DEF HasRoot, Hashes
    <3>2. (IF HasRoot(p) THEN <<trie[p]>> ELSE <<>>) \in Seq(Hashes)
      BY <3>1, EmptySeq
    <3>3. reported[p] \cup h \in SUBSET Keys
      BY <2>2 DEF Hashes
    <3>4. Append(pendingSubtries[p], h) \in Seq(Hashes)
      BY <2>2, AppendProperties
    <3> QED
      BY <3>2, <3>3, <3>4
  <2>4. /\ pendingSubtries' \in [Peers -> Seq(Hashes)]
        /\ reported' \in [Peers -> SUBSET Keys]
    <3>1. CASE ReportLeaf(p, h)
      BY <2>3, <3>1 DEF ReportLeaf
    <3>2. CASE PushInner(p, h)
      BY <2>3, <3>2 DEF PushInner
    <3>3. CASE Restart(p, h)
      BY <2>3, <3>3 DEF Restart
    <3>4. CASE UNCHANGED <<pendingSubtries, reported>>
      BY <3>4
    <3> QED
      BY <1>7, <3>1, <3>2, <3>3, <3>4 DEF ProcessAck
  <2>5. sentHashes' \in [Peers -> Seq(Hashes)] /\ ackChan' \in [Peers -> Seq(BOOLEAN)]
    BY <1>7, <2>1, <2>2 DEF ProcessAck
  <2> QED
    BY <1>7, <2>4, <2>5 DEF ProcessAck
<1>8. ASSUME NEW p \in Peers, NEW x \in Keys, ApplyReported(p, x) PROVE TypeOK'
  BY <1>8 DEF ApplyReported, process, channels
<1>9. CASE UNCHANGED vars
  BY <1>9 DEF vars, process, channels
<1> QED
  BY <1>1, <1>2, <1>3, <1>4, <1>5, <1>6, <1>7, <1>8, <1>9
  DEF Next, Step, CompareRoots

(* Every variable keeps its type: in particular the queues only ever hold  *)
(* hashes of nodes and the stack is never popped when empty.               *)
THEOREM TypeCorrect == Spec => []TypeOK
<1> QED
  BY InitType, NextType, PTL DEF Spec

-----------------------------------------------------------------------------
(* How the queues move, as facts about sequences.                          *)

(* Sending appends the same hashes to what is unacknowledged and unread.   *)
LEMMA InStepSend ==
  ASSUME NEW s \in Seq(Hashes), NEW a \in Seq(BOOLEAN), NEW c \in Seq(Hashes),
         NEW d \in Seq(Hashes), NEW began, NEW now,
         InStep(s, a, c), AnswersHold(s, a, began, now)
  PROVE  InStep(s \o d, a, c \o d) /\ AnswersHold(s \o d, a, began, now)
<1>1. /\ Len(s) \in Nat /\ Len(a) \in Nat /\ Len(c) \in Nat /\ Len(d) \in Nat
  BY LenProperties
<1>2. /\ Len(s \o d) = Len(s) + Len(d)
      /\ Len(c \o d) = Len(c) + Len(d)
      /\ \A i \in 1 .. Len(s) + Len(d) :
           (s \o d)[i] = IF i <= Len(s) THEN s[i] ELSE d[i - Len(s)]
      /\ \A i \in 1 .. Len(c) + Len(d) :
           (c \o d)[i] = IF i <= Len(c) THEN c[i] ELSE d[i - Len(c)]
  BY ConcatProperties
<1>3. Len(s) = Len(a) + Len(c)
  BY DEF InStep
<1>4. ASSUME NEW i \in 1 .. Len(c) + Len(d)
      PROVE  (c \o d)[i] = (s \o d)[Len(a) + i]
  <2>1. CASE i <= Len(c)
    BY <1>1, <1>2, <1>3, <2>1 DEF InStep
  <2>2. CASE i > Len(c)
    BY <1>1, <1>2, <1>3, <2>2
  <2>3. i <= Len(c) \/ i > Len(c)
    BY <1>1
  <2> QED
    BY <2>1, <2>2, <2>3, Zenon
<1>5. \A i \in 1 .. Len(a) : (s \o d)[i] = s[i]
  BY <1>1, <1>2, <1>3
<1>6. InStep(s \o d, a, c \o d)
  BY <1>1, <1>2, <1>3, <1>4 DEF InStep
<1>7. AnswersHold(s \o d, a, began, now)
  BY <1>5 DEF AnswersHold
<1> QED
  BY <1>6, <1>7

(* Looking up the first unread hash appends its answer.                    *)
LEMMA InStepLookup ==
  ASSUME NEW s \in Seq(Hashes), NEW a \in Seq(BOOLEAN), NEW c \in Seq(Hashes),
         NEW bit \in BOOLEAN, NEW began, NEW now,
         c # <<>>, InStep(s, a, c), AnswersHold(s, a, began, now),
         bit => \A x \in Keys : Head(c) = {x} => x \notin began,
         ~bit => Head(c) \subseteq now
  PROVE  /\ InStep(s, Append(a, bit), Tail(c))
         /\ AnswersHold(s, Append(a, bit), began, now)
<1>1. /\ Len(s) \in Nat /\ Len(a) \in Nat /\ Len(c) \in Nat /\ Len(c) # 0
  BY LenProperties, EmptySeq
<1>2. /\ Len(Append(a, bit)) = Len(a) + 1
      /\ \A i \in 1 .. Len(a) : Append(a, bit)[i] = a[i]
      /\ Append(a, bit)[Len(a) + 1] = bit
  BY AppendProperties
<1>3. /\ Len(Tail(c)) = Len(c) - 1
      /\ \A i \in 1 .. Len(Tail(c)) : Tail(c)[i] = c[i + 1]
  BY HeadTailProperties
<1>4. Len(s) = Len(a) + Len(c)
  BY DEF InStep
<1>5. ASSUME NEW i \in 1 .. Len(Tail(c))
      PROVE  Tail(c)[i] = s[Len(Append(a, bit)) + i]
  <2>1. i + 1 \in 1 .. Len(c) /\ Tail(c)[i] = c[i + 1]
    BY <1>1, <1>3
  <2>2. c[i + 1] = s[Len(a) + (i + 1)]
    BY <2>1 DEF InStep
  <2> QED
    BY <1>1, <1>2, <2>1, <2>2
<1>6. InStep(s, Append(a, bit), Tail(c))
  BY <1>1, <1>2, <1>3, <1>4, <1>5 DEF InStep
<1>7. Head(c) = c[1] /\ c[1] = s[Len(a) + 1]
  BY <1>1 DEF InStep
<1>8. ASSUME NEW i \in 1 .. Len(Append(a, bit))
      PROVE  /\ Append(a, bit)[i] => \A x \in Keys : s[i] = {x} => x \notin began
             /\ ~Append(a, bit)[i] => s[i] \subseteq now
  <2>1. CASE i <= Len(a)
    <3>1. i \in 1 .. Len(a) /\ Append(a, bit)[i] = a[i]
      BY <1>1, <1>2, <2>1
    <3> QED
      BY <3>1 DEF AnswersHold
  <2>2. CASE i = Len(a) + 1
    <3>1. Append(a, bit)[i] = bit /\ s[i] = Head(c)
      BY <1>2, <1>7, <2>2
    <3> QED
      BY <3>1
  <2> QED
    BY <1>1, <1>2, <2>1, <2>2
<1> QED
  BY <1>6, <1>8 DEF AnswersHold

(* Processing an answer removes it and the hash it is for.                 *)
LEMMA InStepAnswer ==
  ASSUME NEW s \in Seq(Hashes), NEW a \in Seq(BOOLEAN), NEW c \in Seq(Hashes),
         NEW began, NEW now, a # <<>>,
         InStep(s, a, c), AnswersHold(s, a, began, now)
  PROVE  /\ s # <<>>
         /\ InStep(Tail(s), Tail(a), c)
         /\ AnswersHold(Tail(s), Tail(a), began, now)
         /\ Head(a) => \A x \in Keys : Head(s) = {x} => x \notin began
         /\ ~Head(a) => Head(s) \subseteq now
<1>1. /\ Len(s) \in Nat /\ Len(a) \in Nat /\ Len(c) \in Nat /\ Len(a) # 0
      /\ Len(s) = Len(a) + Len(c)
  BY LenProperties, EmptySeq DEF InStep
<1>2. s # <<>>
  BY <1>1, EmptySeq
<1>3. /\ Len(Tail(s)) = Len(s) - 1
      /\ \A i \in 1 .. Len(Tail(s)) : Tail(s)[i] = s[i + 1]
      /\ Len(Tail(a)) = Len(a) - 1
      /\ \A i \in 1 .. Len(Tail(a)) : Tail(a)[i] = a[i + 1]
  BY <1>2, HeadTailProperties
<1>4. ASSUME NEW i \in 1 .. Len(c)
      PROVE  c[i] = Tail(s)[Len(Tail(a)) + i]
  <2>1. c[i] = s[Len(a) + i]
    BY DEF InStep
  <2>2. /\ Len(Tail(a)) + i \in 1 .. Len(Tail(s))
        /\ Len(Tail(a)) + i + 1 = Len(a) + i
    BY <1>1, <1>3
  <2> QED
    BY <1>3, <2>1, <2>2
<1>5. InStep(Tail(s), Tail(a), c)
  BY <1>1, <1>3, <1>4 DEF InStep
<1>6. ASSUME NEW i \in 1 .. Len(Tail(a))
      PROVE  /\ Tail(a)[i] => \A x \in Keys : Tail(s)[i] = {x} => x \notin began
             /\ ~Tail(a)[i] => Tail(s)[i] \subseteq now
  <2>1. /\ i + 1 \in 1 .. Len(a)
        /\ Tail(a)[i] = a[i + 1]
        /\ Tail(s)[i] = s[i + 1]
    BY <1>1, <1>3
  <2> QED
    BY <2>1 DEF AnswersHold
<1>7. 1 \in 1 .. Len(a) /\ Head(a) = a[1] /\ Head(s) = s[1]
  BY <1>1
<1>8. /\ Head(a) => \A x \in Keys : Head(s) = {x} => x \notin began
      /\ ~Head(a) => Head(s) \subseteq now
  BY <1>7 DEF AnswersHold
<1> QED
  BY <1>2, <1>5, <1>6, <1>8 DEF AnswersHold

(* Appending to the second part of a concatenation.                        *)
LEMMA ConcatAppend ==
  ASSUME NEW S, NEW c \in Seq(S), NEW a \in Seq(S), NEW e \in S
  PROVE  c \o Append(a, e) = Append(c \o a, e)
<1>1. /\ c \o a \in Seq(S)
      /\ Append(a, e) \in Seq(S)
  BY ConcatProperties, AppendProperties
<1>2. Append(a, e) = a \o <<e>> /\ Append(c \o a, e) = (c \o a) \o <<e>>
  BY <1>1, AppendIsConcat
<1> DEFINE one == <<e>>
<1>3. one \in Seq(S)
  OBVIOUS
<1> HIDE DEF one
<1>4. c \o (a \o one) = (c \o a) \o one
  BY <1>3, ConcatAssociative
<1> QED
  BY <1>2, <1>4 DEF one

(* The head of a concatenation, and the rest.                              *)
LEMMA HeadTailConcat ==
  ASSUME NEW c \in Seq(BOOLEAN), NEW a \in Seq(BOOLEAN), c # <<>>
  PROVE  /\ c \o a # <<>>
         /\ Head(c \o a) = Head(c)
         /\ Tail(c \o a) = Tail(c) \o a
<1>1. /\ Len(c) \in Nat \ {0} /\ Len(a) \in Nat
  BY EmptySeq, LenProperties
<1>2. /\ c \o a \in Seq(BOOLEAN)
      /\ Len(c \o a) = Len(c) + Len(a)
      /\ \A i \in 1 .. Len(c) + Len(a) :
           (c \o a)[i] = IF i <= Len(c) THEN c[i] ELSE a[i - Len(c)]
  BY ConcatProperties
<1>3. c \o a # <<>>
  BY <1>1, <1>2, EmptySeq
<1>4. Head(c \o a) = Head(c)
  BY <1>1, <1>2
<1>5. /\ Tail(c) \in Seq(BOOLEAN)
      /\ Len(Tail(c)) = Len(c) - 1
      /\ \A i \in 1 .. Len(c) - 1 : Tail(c)[i] = c[i + 1]
      /\ Tail(c \o a) \in Seq(BOOLEAN)
      /\ Len(Tail(c \o a)) = Len(c) + Len(a) - 1
      /\ \A i \in 1 .. Len(c) + Len(a) - 1 : Tail(c \o a)[i] = (c \o a)[i + 1]
  BY <1>2, <1>3, HeadTailProperties
<1>6. /\ Tail(c) \o a \in Seq(BOOLEAN)
      /\ Len(Tail(c) \o a) = Len(c) + Len(a) - 1
      /\ \A i \in 1 .. Len(c) + Len(a) - 1 : (Tail(c) \o a)[i] =
           IF i <= Len(c) - 1 THEN Tail(c)[i] ELSE a[i - (Len(c) - 1)]
  <2>1. Len(Tail(c)) + Len(a) = Len(c) + Len(a) - 1
    BY <1>1, <1>5
  <2> QED
    BY <1>5, <2>1, ConcatProperties
<1>7. ASSUME NEW i \in 1 .. Len(c) + Len(a) - 1
      PROVE  Tail(c \o a)[i] = (Tail(c) \o a)[i]
  <2>1. i \in Nat /\ i + 1 \in 1 .. Len(c) + Len(a)
    BY <1>1
  <2>2. Tail(c \o a)[i] = IF i + 1 <= Len(c) THEN c[i + 1] ELSE a[i + 1 - Len(c)]
    BY <1>2, <1>5, <2>1
  <2>3. CASE i + 1 <= Len(c)
    <3>1. i \in 1 .. Len(c) - 1 /\ i <= Len(c) - 1
      BY <1>1, <2>1, <2>3
    <3>2. (Tail(c) \o a)[i] = Tail(c)[i] /\ Tail(c)[i] = c[i + 1]
      BY <1>5, <1>6, <3>1
    <3> QED
      BY <2>2, <2>3, <3>2
  <2>4. CASE i + 1 > Len(c)
    <3>1. ~(i <= Len(c) - 1) /\ i - (Len(c) - 1) = i + 1 - Len(c)
      BY <1>1, <2>1, <2>4
    <3>2. (Tail(c) \o a)[i] = a[i - (Len(c) - 1)]
      BY <1>6, <3>1
    <3> QED
      BY <1>1, <2>1, <2>2, <2>4, <3>1, <3>2
  <2>5. i + 1 <= Len(c) \/ i + 1 > Len(c)
    BY <1>1, <2>1
  <2> QED
    BY <2>3, <2>4, <2>5
<1>8. Tail(c \o a) = Tail(c) \o a
  BY <1>5, <1>6, <1>7, SeqEqual
<1> QED
  BY <1>3, <1>4, <1>8

(* Moving a prefix of the queue of acknowledgments to the channel leaves   *)
(* the sequence of answers as it is.                                       *)
LEMMA ReadKeepsAnswers ==
  ASSUME NEW c \in Seq(BOOLEAN), NEW a \in Seq(BOOLEAN), NEW k \in 0 .. Len(a)
  PROVE  (c \o SubSeq(a, 1, k)) \o SubSeq(a, k + 1, Len(a)) = c \o a
<1>1. Len(a) \in Nat /\ \A i \in 1 .. Len(a) : a[i] \in BOOLEAN
  BY LenProperties, ElementOfSeq
<1>2. /\ SubSeq(a, 1, k) \in Seq(BOOLEAN)
      /\ SubSeq(a, k + 1, Len(a)) \in Seq(BOOLEAN)
  BY <1>1, SubSeqProperties
<1>3. SubSeq(a, 1, k) \o SubSeq(a, k + 1, Len(a)) = SubSeq(a, 1, Len(a))
  <2>1. /\ 1 \in 1 .. Len(a) + 1
        /\ k \in 1 - 1 .. Len(a)
        /\ Len(a) \in k .. Len(a)
    BY <1>1
  <2> QED
    BY <2>1, ConcatAdjacentSubSeq, Zenon
<1>4. SubSeq(a, 1, Len(a)) = a
  BY SubSeqFull
<1>5. (c \o SubSeq(a, 1, k)) \o SubSeq(a, k + 1, Len(a))
        = c \o (SubSeq(a, 1, k) \o SubSeq(a, k + 1, Len(a)))
  <2> DEFINE read == SubSeq(a, 1, k)
             rest == SubSeq(a, k + 1, Len(a))
  <2>1. read \in Seq(BOOLEAN) /\ rest \in Seq(BOOLEAN)
    BY <1>2
  <2> HIDE DEF read, rest
  <2>2. (c \o read) \o rest = c \o (read \o rest)
    BY <2>1, ConcatAssociative
  <2> QED
    BY <2>2 DEF read, rest
<1>6. SubSeq(a, 1, k) \o SubSeq(a, k + 1, Len(a)) = a
  BY <1>3, <1>4
<1> QED
  BY <1>5, <1>6

-----------------------------------------------------------------------------
(* The safety invariant.                                                   *)

(* Acks is a sequence, and belongs to what TypeOK types.                   *)
LEMMA AcksType ==
  ASSUME TypeOK, NEW p \in Peers
  PROVE  Acks(p) \in Seq(BOOLEAN)
BY ConcatProperties DEF TypeOK, Acks

LEMMA InitSafety == Init => SafetyInv
<1> SUFFICES ASSUME Init PROVE SafetyInv
  OBVIOUS
<1>1. TypeOK
  BY InitType
<1>2. KeysKept /\ ReportSound /\ EqualSound
  BY DEF Init, KeysKept, ReportSound, EqualSound
<1>3. ASSUME NEW p \in Peers
      PROVE  /\ Len(rootChan[p]) = 0
             /\ Len(subtrieChan[p]) = 0
             /\ Len(sentHashes[p]) = 0
             /\ Len(Acks(p)) = 0
  <2>1. /\ rootChan[p] = <<>> /\ subtrieChan[p] = <<>> /\ sentHashes[p] = <<>>
        /\ ackChan[p] = <<>> /\ pendingAcks[p] = <<>>
    BY DEF Init
  <2>2. Acks(p) = <<>>
    BY <2>1, EmptySeq, ConcatEmptySeq DEF Acks
  <2> QED
    BY <2>1, <2>2
<1>4. RootsDated
  BY <1>3 DEF RootsDated
<1>5. Aligned /\ AnswersSound
  BY <1>3, OtherPeer DEF Aligned, AnswersSound, InStep, AnswersHold
<1> QED
  BY <1>1, <1>2, <1>4, <1>5 DEF SafetyInv

(* The parts of the invariant that do not look at the queues.              *)
SetsInv == KeysKept /\ RootsDated /\ ReportSound /\ EqualSound
QueuesInv == AnswersSound /\ Aligned

(* A step that changes none of the tries, statuses, reports and roots.     *)
LEMMA SetsStutter ==
  ASSUME SetsInv, UNCHANGED <<trie, stat, rootChan, reported, orig>>
  PROVE  SetsInv'
BY DEF SetsInv, KeysKept, RootsDated, ReportSound, EqualSound

(* A step that changes none of the queues and channels of the descent, and *)
(* at most adds keys to the tries.                                         *)
LEMMA QueuesStutter ==
  ASSUME QueuesInv,
         UNCHANGED <<sentHashes, pendingAcks, subtrieChan, ackChan, orig>>,
         \A p \in Peers : trie[p] \subseteq trie'[p]
  PROVE  QueuesInv'
<1>1. Aligned'
  BY DEF QueuesInv, Aligned, InStep, Acks
<1>2. \A p \in Peers : Acks(Other(p))' = Acks(Other(p))
  BY DEF Acks
<1>3. AnswersSound'
  BY <1>2, OtherPeer DEF QueuesInv, AnswersSound, AnswersHold
<1> QED
  BY <1>1, <1>3 DEF QueuesInv

LEMMA SetsRootHash ==
  ASSUME TypeOK, SetsInv, NEW p \in Peers, GetRootHashForSending(p)
  PROVE  SetsInv'
<1>1. KeysKept' /\ ReportSound' /\ EqualSound'
  BY DEF GetRootHashForSending, process, SetsInv, KeysKept, ReportSound,
         EqualSound
<1>2. ASSUME NEW r \in Peers, NEW i \in 1 .. Len(rootChan'[r])
      PROVE  orig[r] \subseteq rootChan'[r][i] /\ rootChan'[r][i] \subseteq trie[r]
  <2>1. CASE r = p
    <3>1. rootChan'[r] = <<trie[p]>>
      BY <2>1 DEF GetRootHashForSending, TypeOK
    <3>2. rootChan'[r][i] = trie[r]
      BY <1>2, <2>1, <3>1
    <3> QED
      BY <3>2 DEF SetsInv, KeysKept
  <2>2. CASE r # p
    <3>1. rootChan'[r] = rootChan[r]
      BY <2>2 DEF GetRootHashForSending, TypeOK
    <3> QED
      BY <1>2, <3>1 DEF SetsInv, RootsDated
  <2> QED
    BY <2>1, <2>2
<1>3. RootsDated'
  BY <1>2 DEF RootsDated, GetRootHashForSending
<1> QED
  BY <1>1, <1>3 DEF SetsInv

(* The comparison with a root that may be outdated is right all the same:  *)
(* what the other peer has gained meanwhile came from here.                *)
LEMMA SetsIsEqual ==
  ASSUME TypeOK, SetsInv, NEW p \in Peers, IsEqual(p)
  PROVE  SetsInv'
<1> DEFINE q == Other(p)
<1>1. q \in Peers /\ q # p /\ Other(q) = p /\ \A r \in Peers : r = p \/ r = q
  BY OtherPeer
<1>2. KeysKept' /\ ReportSound'
  BY DEF IsEqual, SetsInv, KeysKept, ReportSound
<1>3. ASSUME NEW r \in Peers, NEW i \in 1 .. Len(rootChan'[r])
      PROVE  orig[r] \subseteq rootChan'[r][i] /\ rootChan'[r][i] \subseteq trie[r]
  <2>1. CASE r = q
    <3>1. rootChan'[r] = <<>>
      BY <2>1, <1>1 DEF IsEqual, TypeOK
    <3> QED
      BY <1>3, <3>1
  <2>2. CASE r # q
    <3>1. rootChan'[r] = rootChan[r]
      BY <2>2 DEF IsEqual, TypeOK
    <3> QED
      BY <1>3, <3>1 DEF SetsInv, RootsDated
  <2> QED
    BY <2>1, <2>2
<1>4. RootsDated'
  BY <1>3 DEF RootsDated, IsEqual
<1>5. ASSUME NEW r \in Peers, stat'[r] = "EQUAL" PROVE trie[r] = trie[Other(r)]
  <2>1. CASE stat[r] = "EQUAL"
    BY <2>1 DEF SetsInv, EqualSound
  <2>2. CASE stat[r] # "EQUAL"
    <3>1. r = p /\ Head(rootChan[q]) = trie[p]
      BY <1>5, <2>2 DEF IsEqual, TypeOK
    <3>2. rootChan[q] \in Seq(Hashes) /\ rootChan[q] # <<>>
      BY <1>1 DEF IsEqual, TypeOK
    <3>3. 1 \in 1 .. Len(rootChan[q]) /\ Head(rootChan[q]) = rootChan[q][1]
      <4>1. Len(rootChan[q]) \in Nat \ {0}
        BY <3>2, EmptySeq
      <4> QED
        BY <3>2, <4>1
    <3>4. orig[q] \subseteq trie[p] /\ trie[p] \subseteq trie[q]
      BY <1>1, <3>1, <3>3 DEF SetsInv, RootsDated
    <3>5. trie[q] \subseteq orig[q] \cup reported[p]
      BY <1>1 DEF SetsInv, KeysKept
    <3>6. reported[p] \subseteq trie[p]
      BY DEF SetsInv, KeysKept, ReportSound
    <3> QED
      BY <1>1, <3>1, <3>4, <3>5, <3>6
  <2> QED
    BY <2>1, <2>2
<1>6. EqualSound'
  BY <1>5 DEF EqualSound, IsEqual
<1> QED
  BY <1>2, <1>4, <1>6 DEF SetsInv

(* Inserting a reported key never separates sets that were found equal.    *)
LEMMA SetsApply ==
  ASSUME TypeOK, SetsInv, NEW p \in Peers, NEW x \in Keys, ApplyReported(p, x)
  PROVE  SetsInv' /\ \A r \in Peers : trie[r] \subseteq trie'[r]
<1> DEFINE q == Other(p)
<1>1. q \in Peers /\ q # p /\ Other(q) = p /\ \A r \in Peers : r = p \/ r = q
  BY OtherPeer
<1>2. /\ trie'[p] = trie[p] \cup {x}
      /\ trie'[q] = trie[q]
      /\ x \in reported[q]
      /\ x \notin trie[p]
  BY <1>1 DEF ApplyReported, TypeOK
<1>3. UNCHANGED <<stat, rootChan, reported, orig>>
  BY DEF ApplyReported, process, channels
<1>4. KeysKept' /\ RootsDated' /\ ReportSound'
  BY <1>1, <1>2, <1>3 DEF SetsInv, KeysKept, RootsDated, ReportSound
<1>5. x \in trie[q]
  BY <1>1, <1>2 DEF SetsInv, KeysKept, ReportSound
<1>6. stat[p] # "EQUAL" /\ stat[q] # "EQUAL"
  BY <1>1, <1>2, <1>5 DEF SetsInv, EqualSound
<1>7. EqualSound'
  BY <1>1, <1>3, <1>6 DEF EqualSound
<1> QED
  BY <1>1, <1>2, <1>4, <1>7 DEF SetsInv

LEMMA QueuesGetSubTrie ==
  ASSUME TypeOK, QueuesInv, NEW p \in Peers, NEW n \in Limits, GetSubTrie(p, n)
  PROVE  QueuesInv'
<1> DEFINE q == Other(p)
<1>1. q \in Peers /\ q # p /\ Other(q) = p /\ \A r \in Peers : r = p \/ r = q
  BY OtherPeer
<1>2. UNCHANGED <<trie, pendingAcks, ackChan, orig>>
  BY DEF GetSubTrie
<1>3. CASE UNCHANGED <<sentHashes, subtrieChan>>
  BY <1>2, <1>3, QueuesStutter
<1>4. ASSUME NEW top \in Servable(p, n),
             sentHashes' = [sentHashes EXCEPT ![p] =
                              @ \o Cut(pendingSubtries[p][top], n)],
             subtrieChan' = [subtrieChan EXCEPT ![p] =
                              @ \o Cut(pendingSubtries[p][top], n)]
      PROVE  QueuesInv'
  <2> DEFINE cut == Cut(pendingSubtries[p][top], n)
  <2>1. cut \in Seq(Hashes)
    <3>1. pendingSubtries[p][top] \in Nodes(trie[p]) /\ n >= 2
      BY <1>4 DEF Servable, TrieContains
    <3> QED
      BY <3>1, CutNodes DEF TypeOK
  <2>2. /\ sentHashes'[p] = sentHashes[p] \o cut
        /\ subtrieChan'[p] = subtrieChan[p] \o cut
        /\ sentHashes'[q] = sentHashes[q]
        /\ subtrieChan'[q] = subtrieChan[q]
    BY <1>1, <1>4 DEF TypeOK
  <2>3. \A r \in Peers : Acks(r)' = Acks(r)
    BY <1>2 DEF Acks
  <2> HIDE DEF cut
  <2>4. /\ sentHashes[p] \in Seq(Hashes) /\ subtrieChan[p] \in Seq(Hashes)
        /\ Acks(q) \in Seq(BOOLEAN)
    BY <1>1, AcksType DEF TypeOK
  <2>5. /\ InStep(sentHashes[p], Acks(q), subtrieChan[p])
        /\ AnswersHold(sentHashes[p], Acks(q), orig[q], trie[q])
        /\ InStep(sentHashes[q], Acks(p), subtrieChan[q])
        /\ AnswersHold(sentHashes[q], Acks(p), orig[p], trie[p])
    BY <1>1 DEF QueuesInv, Aligned, AnswersSound
  <2>6. /\ InStep(sentHashes[p] \o cut, Acks(q), subtrieChan[p] \o cut)
        /\ AnswersHold(sentHashes[p] \o cut, Acks(q), orig[q], trie[q])
    BY <2>1, <2>4, <2>5, InStepSend
  <2>7. Aligned'
    BY <1>1, <2>2, <2>3, <2>5, <2>6 DEF Aligned
  <2>8. AnswersSound'
    BY <1>1, <1>2, <2>2, <2>3, <2>5, <2>6 DEF AnswersSound
  <2> QED
    BY <2>7, <2>8 DEF QueuesInv
<1> QED
  BY <1>3, <1>4 DEF GetSubTrie

LEMMA QueuesProcessSubTrie ==
  ASSUME TypeOK, SetsInv, QueuesInv, NEW p \in Peers, ProcessSubTrie(p)
  PROVE  QueuesInv'
<1> DEFINE q == Other(p)
           h == Head(subtrieChan[q])
           bit == ~TrieContains(p, h)
<1>1. q \in Peers /\ q # p /\ Other(q) = p /\ \A r \in Peers : r = p \/ r = q
  BY OtherPeer
<1>2. /\ UNCHANGED <<trie, sentHashes, ackChan, orig>>
      /\ subtrieChan[q] # <<>>
  BY DEF ProcessSubTrie
<1>3. /\ pendingAcks'[p] = Append(pendingAcks[p], bit)
      /\ pendingAcks'[q] = pendingAcks[q]
      /\ subtrieChan'[q] = Tail(subtrieChan[q])
      /\ subtrieChan'[p] = subtrieChan[p]
  BY <1>1 DEF ProcessSubTrie, TypeOK
<1>4. bit \in BOOLEAN
  BY DEF TrieContains
<1>5. Acks(p)' = Append(Acks(p), bit)
  <2>1. /\ ackChan[p] \in Seq(BOOLEAN)
        /\ pendingAcks[p] \in Seq(BOOLEAN)
    BY DEF TypeOK
  <2>2. Acks(p)' = ackChan[p] \o Append(pendingAcks[p], bit)
    BY <1>2, <1>3 DEF Acks
  <2> HIDE DEF bit
  <2>3. \A e \in BOOLEAN : ackChan[p] \o Append(pendingAcks[p], e)
                             = Append(ackChan[p] \o pendingAcks[p], e)
    <3> DEFINE Bits == BOOLEAN
               c == ackChan[p]
               a == pendingAcks[p]
    <3>1. c \in Seq(Bits) /\ a \in Seq(Bits)
      BY <2>1
    <3> HIDE DEF Bits, c, a
    <3>2. \A e \in Bits : c \o Append(a, e) = Append(c \o a, e)
      BY <3>1, ConcatAppend
    <3> QED
      BY <3>2 DEF Bits, c, a
  <2>4. ackChan[p] \o Append(pendingAcks[p], bit)
          = Append(ackChan[p] \o pendingAcks[p], bit)
    BY <1>4, <2>3, Zenon
  <2> QED
    BY <2>2, <2>4, Zenon DEF Acks
<1>6. Acks(q)' = Acks(q)
  BY <1>2, <1>3 DEF Acks
<1>7. /\ sentHashes[q] \in Seq(Hashes) /\ subtrieChan[q] \in Seq(Hashes)
      /\ Acks(p) \in Seq(BOOLEAN)
  BY <1>1, AcksType DEF TypeOK
<1>8. /\ InStep(sentHashes[q], Acks(p), subtrieChan[q])
      /\ AnswersHold(sentHashes[q], Acks(p), orig[p], trie[p])
      /\ InStep(sentHashes[p], Acks(q), subtrieChan[p])
      /\ AnswersHold(sentHashes[p], Acks(q), orig[q], trie[q])
  BY <1>1 DEF QueuesInv, Aligned, AnswersSound
<1>9. bit => \A x \in Keys : h = {x} => x \notin orig[p]
  <2> SUFFICES ASSUME NEW x \in Keys, h = {x}, x \in orig[p]
               PROVE  TrieContains(p, h)
    OBVIOUS
  <2>1. x \in trie[p] /\ trie[p] \in SUBSET Keys
    BY DEF SetsInv, KeysKept, TypeOK
  <2> QED
    BY <2>1, LeafIsNode DEF TrieContains
<1>10. ~bit => h \subseteq trie[p]
  BY NodeBelow DEF TrieContains
<1> HIDE DEF bit
<1>11. /\ InStep(sentHashes[q], Append(Acks(p), bit), Tail(subtrieChan[q]))
       /\ AnswersHold(sentHashes[q], Append(Acks(p), bit), orig[p], trie[p])
  BY <1>2, <1>4, <1>7, <1>8, <1>9, <1>10, InStepLookup
<1>12. Aligned'
  BY <1>1, <1>2, <1>3, <1>5, <1>6, <1>8, <1>11 DEF Aligned
<1>13. AnswersSound'
  BY <1>1, <1>2, <1>3, <1>5, <1>6, <1>8, <1>11 DEF AnswersSound
<1> QED
  BY <1>12, <1>13 DEF QueuesInv

LEMMA QueuesReadAcks ==
  ASSUME TypeOK, QueuesInv, NEW p \in Peers, NEW length \in AckBuffers,
         ReadSomeTrieAcks(p, length)
  PROVE  QueuesInv'
<1> DEFINE number == Smaller(length * ByteBits, Len(pendingAcks[p]))
<1>1. Other(p) \in Peers /\ Other(p) # p /\ \A r \in Peers : r = p \/ r = Other(p)
  BY OtherPeer
<1>2. number \in 0 .. Len(pendingAcks[p])
  BY BuffersAssumption, LenProperties DEF Smaller, TypeOK
<1>3. /\ ackChan'[p] = ackChan[p] \o SubSeq(pendingAcks[p], 1, number)
      /\ pendingAcks'[p] = SubSeq(pendingAcks[p], number + 1, Len(pendingAcks[p]))
      /\ ackChan'[Other(p)] = ackChan[Other(p)]
      /\ pendingAcks'[Other(p)] = pendingAcks[Other(p)]
  BY <1>1 DEF ReadSomeTrieAcks, TypeOK
<1> HIDE DEF number
<1>4. Acks(p)' = Acks(p)
  <2>1. ackChan[p] \in Seq(BOOLEAN) /\ pendingAcks[p] \in Seq(BOOLEAN)
    BY DEF TypeOK
  <2>2. Acks(p)' = (ackChan[p] \o SubSeq(pendingAcks[p], 1, number))
                     \o SubSeq(pendingAcks[p], number + 1, Len(pendingAcks[p]))
    BY <1>3, Zenon DEF Acks
  <2>3. Acks(p) = ackChan[p] \o pendingAcks[p]
    BY Zenon DEF Acks
  <2> QED
    BY ONLY <1>2, <2>1, <2>2, <2>3, ReadKeepsAnswers
<1>5. \A r \in Peers : Acks(r)' = Acks(r)
  BY <1>1, <1>3, <1>4 DEF Acks
<1>6. UNCHANGED <<trie, sentHashes, subtrieChan, orig>>
  BY DEF ReadSomeTrieAcks
<1> QED
  BY <1>5, <1>6, OtherPeer DEF QueuesInv, Aligned, AnswersSound

(* An answer is matched with the hash it is for, and a leaf that was asked *)
(* for is one that only this peer had.                                     *)
LEMMA ProcessAckSafe ==
  ASSUME TypeOK, SetsInv, QueuesInv, NEW p \in Peers, ProcessAck(p)
  PROVE  SetsInv' /\ QueuesInv'
<1> DEFINE q == Other(p)
           h == Head(sentHashes[p])
<1>1. q \in Peers /\ q # p /\ Other(q) = p /\ \A r \in Peers : r = p \/ r = q
  BY OtherPeer
<1>2. /\ UNCHANGED <<trie, stat, pendingAcks, subtrieChan, rootChan, orig>>
      /\ ackChan[q] # <<>>
      /\ sentHashes[p] # <<>>
  BY DEF ProcessAck
<1>3. /\ sentHashes'[p] = Tail(sentHashes[p])
      /\ sentHashes'[q] = sentHashes[q]
      /\ ackChan'[q] = Tail(ackChan[q])
      /\ ackChan'[p] = ackChan[p]
  BY <1>1 DEF ProcessAck, TypeOK
<1>4. /\ Acks(q) # <<>>
      /\ Head(Acks(q)) = Head(ackChan[q])
      /\ Tail(Acks(q)) = Acks(q)'
  <2>1. ackChan[q] \in Seq(BOOLEAN) /\ pendingAcks[q] \in Seq(BOOLEAN)
    BY <1>1 DEF TypeOK
  <2>2. Acks(q)' = Tail(ackChan[q]) \o pendingAcks[q]
    BY <1>2, <1>3 DEF Acks
  <2> QED
    BY <1>2, <2>1, <2>2, HeadTailConcat DEF Acks
<1>5. Acks(p)' = Acks(p)
  BY <1>2, <1>3 DEF Acks
<1>6. /\ InStep(sentHashes[p], Acks(q), subtrieChan[p])
      /\ AnswersHold(sentHashes[p], Acks(q), orig[q], trie[q])
      /\ InStep(sentHashes[q], Acks(p), subtrieChan[q])
      /\ AnswersHold(sentHashes[q], Acks(p), orig[p], trie[p])
  BY <1>1 DEF QueuesInv, Aligned, AnswersSound
<1>7. /\ sentHashes[p] \in Seq(Hashes) /\ subtrieChan[p] \in Seq(Hashes)
      /\ Acks(q) \in Seq(BOOLEAN)
  BY <1>1, AcksType DEF TypeOK
<1>8. /\ InStep(Tail(sentHashes[p]), Tail(Acks(q)), subtrieChan[p])
      /\ AnswersHold(Tail(sentHashes[p]), Tail(Acks(q)), orig[q], trie[q])
      /\ Head(Acks(q)) => \A x \in Keys : h = {x} => x \notin orig[q]
  BY <1>4, <1>6, <1>7, InStepAnswer
<1>9. Aligned'
  BY <1>1, <1>2, <1>3, <1>4, <1>5, <1>6, <1>8 DEF Aligned
<1>10. AnswersSound'
  BY <1>1, <1>2, <1>3, <1>4, <1>5, <1>6, <1>8 DEF AnswersSound
<1>11. /\ reported'[q] = reported[q]
       /\ reported'[p] \in {reported[p], reported[p] \cup h}
       /\ reported'[p] # reported[p] => ReportLeaf(p, h) /\ Head(ackChan[q])
  BY <1>1 DEF ProcessAck, ReportLeaf, PushInner, Restart, TypeOK
<1>12. reported'[p] \subseteq orig[p] \ orig[q]
  <2>1. CASE reported'[p] = reported[p]
    BY <1>1, <2>1 DEF SetsInv, ReportSound
  <2>2. CASE reported'[p] # reported[p]
    <3>1. PICK x \in h : h = {x}
      BY <1>11, <2>2 DEF ReportLeaf, IsLeaf
    <3>2. h \subseteq trie[p] /\ trie[p] \subseteq Keys
      <4>1. h \in Nodes(trie[p])
        BY <1>11, <2>2 DEF ReportLeaf, TrieContains
      <4>2. trie[p] \subseteq Keys
        BY <1>1 DEF TypeOK
      <4> QED
        BY <4>1, <4>2, NodeBelow
    <3>3. x \notin orig[q]
      BY <1>4, <1>8, <1>11, <2>2, <3>1, <3>2
    <3>4. x \in orig[p] \cup reported[q] /\ reported[q] \subseteq orig[q]
      BY <1>1, <3>1, <3>2 DEF SetsInv, KeysKept, ReportSound
    <3> QED
      BY <1>1, <1>11, <2>2, <3>1, <3>3, <3>4 DEF SetsInv, ReportSound
  <2> QED
    BY <2>1, <2>2
<1>13. ReportSound'
  BY <1>1, <1>2, <1>11, <1>12 DEF SetsInv, ReportSound
<1>14. KeysKept'
  BY <1>1, <1>2, <1>11 DEF SetsInv, KeysKept
<1>15. RootsDated' /\ EqualSound'
  BY <1>2 DEF SetsInv, RootsDated, EqualSound
<1> QED
  BY <1>9, <1>10, <1>13, <1>14, <1>15 DEF SetsInv, QueuesInv

LEMMA NextSafety == SafetyInv /\ [Next]_vars => SafetyInv'
<1> SUFFICES ASSUME SafetyInv, [Next]_vars PROVE SafetyInv'
  OBVIOUS
<1>1. TypeOK /\ SetsInv /\ QueuesInv
  BY DEF SafetyInv, SetsInv, QueuesInv
<1>2. TypeOK'
  BY <1>1, NextType
<1>3. ASSUME NEW p \in Peers, GetRootHashForSending(p)
      PROVE  SetsInv' /\ QueuesInv'
  BY <1>1, <1>3, SetsRootHash, QueuesStutter
  DEF GetRootHashForSending, process
<1>4. ASSUME NEW p \in Peers, IsEqual(p) PROVE SetsInv' /\ QueuesInv'
  BY <1>1, <1>4, SetsIsEqual, QueuesStutter DEF IsEqual
<1>5. ASSUME NEW p \in Peers, IsSubtrieOutputAvailable(p)
      PROVE  SetsInv' /\ QueuesInv'
  <2>1. \A r \in Peers : stat'[r] = "EQUAL" => stat[r] = "EQUAL"
    BY <1>1, <1>5 DEF IsSubtrieOutputAvailable, TypeOK
  <2>2. SetsInv'
    BY <1>1, <1>5, <2>1 DEF IsSubtrieOutputAvailable, channels, SetsInv,
       KeysKept, RootsDated, ReportSound, EqualSound
  <2>3. QueuesInv'
    BY <1>1, <1>5, QueuesStutter DEF IsSubtrieOutputAvailable, channels
  <2> QED
    BY <2>2, <2>3
<1>6. ASSUME NEW p \in Peers, NEW n \in Limits, GetSubTrie(p, n)
      PROVE  SetsInv' /\ QueuesInv'
  BY <1>1, <1>6, SetsStutter, QueuesGetSubTrie DEF GetSubTrie
<1>7. ASSUME NEW p \in Peers, ProcessSubTrie(p) PROVE SetsInv' /\ QueuesInv'
  BY <1>1, <1>7, SetsStutter, QueuesProcessSubTrie DEF ProcessSubTrie
<1>8. ASSUME NEW p \in Peers, NEW length \in AckBuffers,
             ReadSomeTrieAcks(p, length)
      PROVE  SetsInv' /\ QueuesInv'
  BY <1>1, <1>8, SetsStutter, QueuesReadAcks DEF ReadSomeTrieAcks
<1>9. ASSUME NEW p \in Peers, ProcessAck(p) PROVE SetsInv' /\ QueuesInv'
  BY <1>1, <1>9, ProcessAckSafe
<1>10. ASSUME NEW p \in Peers, NEW x \in Keys, ApplyReported(p, x)
       PROVE  SetsInv' /\ QueuesInv'
  BY <1>1, <1>10, SetsApply, QueuesStutter DEF ApplyReported, process, channels
<1>11. ASSUME UNCHANGED vars PROVE SetsInv' /\ QueuesInv'
  <2>1. /\ UNCHANGED <<trie, stat, rootChan, reported, orig>>
        /\ UNCHANGED <<sentHashes, pendingAcks, subtrieChan, ackChan, orig>>
    BY <1>11 DEF vars, process, channels
  <2>2. SetsInv'
    BY <1>1, <2>1, SetsStutter
  <2>3. QueuesInv'
    BY <1>1, <2>1, QueuesStutter
  <2> QED
    BY <2>2, <2>3
<1>12. SetsInv' /\ QueuesInv'
  BY <1>3, <1>4, <1>5, <1>6, <1>7, <1>8, <1>9, <1>10, <1>11
  DEF Next, Step, CompareRoots
<1> QED
  BY <1>2, <1>12 DEF SafetyInv, SetsInv, QueuesInv

LEMMA SafetyAlways == Spec => []SafetyInv
<1> QED
  BY InitSafety, NextSafety, PTL DEF Spec

(* A handler is called only with keys that this peer had and the other     *)
(* lacked from the beginning, also when reports are inserted while the     *)
(* descent is under way (processAcks, insertion by the application).       *)
THEOREM ReportsAreSound == Spec => []ReportSound
<1>1. SafetyInv => ReportSound
  BY DEF SafetyInv
<1> QED
  BY <1>1, SafetyAlways, PTL

(* A process that isEqual has marked EQUAL, for good and on the word of a  *)
(* root hash that may be outdated, is right about it.                      *)
THEOREM EqualIsSound == Spec => []EqualSound
<1>1. SafetyInv => EqualSound
  BY DEF SafetyInv
<1> QED
  BY <1>1, SafetyAlways, PTL

(* Through four queues that are read and written in pieces of any length,  *)
(* an acknowledgment of readSomeTrieAcks always meets, in processAcks, the *)
(* hash that it answers.                                                   *)
THEOREM AcksMeetTheirHashes == Spec => []Aligned
<1>1. SafetyInv => Aligned
  BY DEF SafetyInv
<1> QED
  BY <1>1, SafetyAlways, PTL

(* processAcks accepts every acknowledgment: it never gets more than it    *)
(* has hashes without one.                                                 *)
THEOREM AcksNeverExceedHashes == Spec => []AcksAccepted
<1>1. SafetyInv => AcksAccepted
  <2> SUFFICES ASSUME SafetyInv PROVE AcksAccepted
    OBVIOUS
  <2> SUFFICES ASSUME NEW p \in Peers
               PROVE  Len(ackChan[Other(p)]) <= Len(sentHashes[p])
    BY DEF AcksAccepted
  <2>1. Other(p) \in Peers
    BY OtherPeer
  <2>2. /\ ackChan[Other(p)] \in Seq(BOOLEAN)
        /\ pendingAcks[Other(p)] \in Seq(BOOLEAN)
        /\ subtrieChan[p] \in Seq(Hashes)
    BY <2>1 DEF SafetyInv, TypeOK
  <2>3. Len(Acks(Other(p)))
          = Len(ackChan[Other(p)]) + Len(pendingAcks[Other(p)])
    BY <2>2, ConcatProperties DEF Acks
  <2>4. Len(sentHashes[p]) = Len(Acks(Other(p))) + Len(subtrieChan[p])
    BY DEF SafetyInv, Aligned, InStep
  <2>5. /\ Len(ackChan[Other(p)]) \in Nat
        /\ Len(pendingAcks[Other(p)]) \in Nat
        /\ Len(subtrieChan[p]) \in Nat
    BY <2>2, LenProperties
  <2>6. \A a, b, c, sum, sent : /\ a \in Nat /\ b \in Nat /\ c \in Nat
                                /\ sum = a + b /\ sent = sum + c
                                => a <= sent
    OBVIOUS
  <2> QED
    BY <2>3, <2>4, <2>5, <2>6
<1> QED
  BY <1>1, SafetyAlways, PTL

-----------------------------------------------------------------------------
(* Nothing gets lost, provided that reports are inserted only when both    *)
(* peers are settled and that the output buffers hold two hashes.          *)

LEMMA PushKeeps ==
  ASSUME NEW s \in Seq(Hashes), NEW h \in Hashes, NEW S
  PROVE  /\ \A x : Below(s, x) \/ x \in h => Below(Append(s, h), x)
         /\ StoredIn(s, S) /\ h \in Nodes(S) => StoredIn(Append(s, h), S)
<1> DEFINE t == Append(s, h)
<1>1. /\ Len(s) \in Nat /\ Len(t) = Len(s) + 1
      /\ \A i \in 1 .. Len(s) : t[i] = s[i]
      /\ t[Len(s) + 1] = h
  BY AppendProperties, LenProperties
<1> HIDE DEF t
<1>2. Len(s) + 1 \in 1 .. Len(t) /\ \A i \in 1 .. Len(s) : i \in 1 .. Len(t)
  BY <1>1
<1>3. \A i \in 1 .. Len(t) : i \in 1 .. Len(s) \/ i = Len(s) + 1
  BY <1>1
<1>4. \A x : Below(s, x) \/ x \in h => Below(t, x)
  BY <1>1, <1>2 DEF Below
<1>5. StoredIn(s, S) /\ h \in Nodes(S) => StoredIn(t, S)
  BY <1>1, <1>3 DEF StoredIn
<1> QED
  BY <1>4, <1>5 DEF t

LEMMA SendKeeps ==
  ASSUME NEW s \in Seq(Hashes), NEW d \in Seq(Hashes), NEW S
  PROVE  /\ \A x : Below(s, x) \/ Below(d, x) => Below(s \o d, x)
         /\ StoredIn(s, S) /\ StoredIn(d, S) => StoredIn(s \o d, S)
<1> DEFINE t == s \o d
<1>1. /\ Len(s) \in Nat /\ Len(d) \in Nat /\ Len(t) = Len(s) + Len(d)
      /\ \A i \in 1 .. Len(t) :
           t[i] = IF i <= Len(s) THEN s[i] ELSE d[i - Len(s)]
  BY ConcatProperties, LenProperties
<1> HIDE DEF t
<1>2. \A x : Below(s, x) => Below(t, x)
  BY <1>1 DEF Below
<1>3. \A x : Below(d, x) => Below(t, x)
  <2> SUFFICES ASSUME NEW x, NEW i \in 1 .. Len(d), x \in d[i]
               PROVE  Below(t, x)
    BY DEF Below
  <2>1. Len(s) + i \in 1 .. Len(t) /\ t[Len(s) + i] = d[i]
    BY <1>1
  <2> QED
    BY <2>1 DEF Below
<1>4. StoredIn(s, S) /\ StoredIn(d, S) => StoredIn(t, S)
  <2> SUFFICES ASSUME StoredIn(s, S), StoredIn(d, S), NEW i \in 1 .. Len(t)
               PROVE  t[i] \in Nodes(S)
    BY DEF StoredIn
  <2>1. CASE i <= Len(s)
    BY <1>1, <2>1 DEF StoredIn
  <2>2. CASE i > Len(s)
    <3>1. i - Len(s) \in 1 .. Len(d) /\ t[i] = d[i - Len(s)]
      BY <1>1, <2>2
    <3> QED
      BY <3>1 DEF StoredIn
  <2> QED
    BY <1>1, <2>1, <2>2
<1> QED
  BY <1>2, <1>3, <1>4 DEF t

(* What is left of a queue or a stack when one hash has been taken off. *)
LEMMA PopKeeps ==
  ASSUME NEW s \in Seq(Hashes), s # <<>>, NEW S
  PROVE  /\ \A x : Below(s, x) => x \in Head(s) \/ Below(Tail(s), x)
         /\ \A x : Below(s, x) =>
              x \in s[Len(s)] \/ Below(SubSeq(s, 1, Len(s) - 1), x)
         /\ StoredIn(s, S) => /\ StoredIn(Tail(s), S)
                              /\ StoredIn(SubSeq(s, 1, Len(s) - 1), S)
                              /\ Head(s) \in Nodes(S)
                              /\ s[Len(s)] \in Nodes(S)
<1> DEFINE t == Tail(s)
           f == SubSeq(s, 1, Len(s) - 1)
<1>1. /\ Len(s) \in Nat \ {0} /\ Head(s) = s[1]
      /\ Len(t) = Len(s) - 1
      /\ \A i \in 1 .. Len(t) : t[i] = s[i + 1]
  BY EmptySeq, LenProperties, HeadTailProperties
<1>2. /\ Len(f) = Len(s) - 1
      /\ \A i \in 1 .. Len(f) : f[i] = s[i]
  BY <1>1, SubSeqProperties
<1> HIDE DEF t, f
<1>3. \A x : Below(s, x) => x \in s[1] \/ Below(t, x)
  <2> SUFFICES ASSUME NEW x, NEW i \in 1 .. Len(s), x \in s[i], i # 1
               PROVE  Below(t, x)
    BY DEF Below
  <2>1. i - 1 \in 1 .. Len(t) /\ t[i - 1] = s[i]
    BY <1>1
  <2> QED
    BY <2>1 DEF Below
<1>4. \A x : Below(s, x) => x \in s[Len(s)] \/ Below(f, x)
  <2> SUFFICES ASSUME NEW x, NEW i \in 1 .. Len(s), x \in s[i], i # Len(s)
               PROVE  Below(f, x)
    BY DEF Below
  <2>1. i \in 1 .. Len(f)
    BY <1>1, <1>2
  <2> QED
    BY <1>2, <2>1 DEF Below
<1>5. StoredIn(s, S) => /\ StoredIn(t, S) /\ StoredIn(f, S)
                       /\ s[1] \in Nodes(S) /\ s[Len(s)] \in Nodes(S)
  BY <1>1, <1>2 DEF StoredIn
<1> QED
  BY <1>1, <1>3, <1>4, <1>5 DEF t, f

LEMMA HeadIsFirst ==
  ASSUME NEW S, NEW s \in Seq(S), s # <<>>
  PROVE  1 \in 1 .. Len(s) /\ s[1] = Head(s)
BY EmptySeq, LenProperties, HeadTailProperties

LEMMA InitCareful == Init => CarefulInv
<1> SUFFICES ASSUME Init PROVE CarefulInv
  OBVIOUS
<1>1. \A p \in Peers : /\ stat[p] = "START"
                       /\ pendingSubtries[p] = <<>>
                       /\ sentHashes[p] = <<>>
  BY DEF Init
<1>2. \A S : StoredIn(<<>>, S)
  BY EmptySeq DEF StoredIn
<1> QED
  BY <1>1, <1>2 DEF CarefulInv, HashesStored, QuietBeforeStart,
     DifferencesCovered

(* A step that neither the tries nor what is remembered takes part in. *)
LEMMA CarefulStutter ==
  ASSUME CarefulInv,
         UNCHANGED <<trie, pendingSubtries, sentHashes, reported>>,
         \A p \in Peers : stat'[p] = stat[p] \/ stat'[p] = "EQUAL"
  PROVE  CarefulInv'
<1>1. HashesStored'
  BY DEF CarefulInv, HashesStored
<1>2. QuietBeforeStart'
  BY DEF CarefulInv, QuietBeforeStart
<1>3. DifferencesCovered'
  BY DEF CarefulInv, DifferencesCovered, Covered
<1> QED
  BY <1>1, <1>2, <1>3 DEF CarefulInv

LEMMA CarefulStart ==
  ASSUME TypeOK, CarefulInv, NEW p \in Peers, IsSubtrieOutputAvailable(p)
  PROVE  CarefulInv'
<1>1. /\ UNCHANGED <<trie, sentHashes, reported>>
      /\ stat[p] = "START" /\ trie[p] # {} /\ trie[p] \in SUBSET Keys
      /\ stat'[p] = "TRIE"
      /\ pendingSubtries'[p] = Append(pendingSubtries[p], trie[p])
      /\ \A r \in Peers \ {p} : /\ stat'[r] = stat[r]
                               /\ pendingSubtries'[r] = pendingSubtries[r]
  BY DEF IsSubtrieOutputAvailable, HasRoot, TypeOK
<1>2. trie[p] \in Hashes /\ pendingSubtries[p] \in Seq(Hashes)
  BY <1>1 DEF Hashes, TypeOK
<1>3. trie[p] \in Nodes(trie[p])
  BY <1>1, RootIsNode
<1>4. StoredIn(pendingSubtries'[p], trie[p])
  BY <1>1, <1>2, <1>3, PushKeeps DEF CarefulInv, HashesStored
<1>5. HashesStored'
  BY <1>1, <1>4 DEF CarefulInv, HashesStored
<1>6. QuietBeforeStart'
  BY <1>1 DEF CarefulInv, QuietBeforeStart
<1>7. \A x \in trie[p] : Below(pendingSubtries'[p], x)
  BY <1>1, <1>2, PushKeeps
<1>8. DifferencesCovered'
  BY <1>1, <1>7 DEF CarefulInv, DifferencesCovered, Covered
<1> QED
  BY <1>5, <1>6, <1>8 DEF CarefulInv

LEMMA CarefulGetSubTrie ==
  ASSUME TypeOK, CarefulInv, NEW p \in Peers, NEW n \in Limits, n >= 2,
         GetSubTrie(p, n)
  PROVE  CarefulInv'
<1> DEFINE s == pendingSubtries[p]
           top == s[Len(s)]
           cut == Cut(top, n)
<1>1. /\ UNCHANGED <<trie, stat, reported>>
      /\ s # <<>> /\ s \in Seq(Hashes) /\ sentHashes[p] \in Seq(Hashes)
      /\ trie[p] \in SUBSET Keys
  BY DEF GetSubTrie, TypeOK
<1>2. Len(s) \in Nat \ {0} /\ DOMAIN s = 1 .. Len(s)
  BY <1>1, EmptySeq, LenProperties
<1>3. Servable(p, n) = 1 .. Len(s)
  BY <1>2 DEF Servable, TrieContains, CarefulInv, HashesStored, StoredIn
<1>4. /\ pendingSubtries' =
           [pendingSubtries EXCEPT ![p] = SubSeq(@, 1, Len(s) - 1)]
      /\ sentHashes' = [sentHashes EXCEPT ![p] = @ \o cut]
  <2> DEFINE last == Len(s)
  <2>0. last \in Nat \ {0} /\ Servable(p, n) = 1 .. last
    BY <1>2, <1>3
  <2> HIDE DEF last
  <2>1. last \in Servable(p, n)
    BY <2>0
  <2>2. PICK i \in Servable(p, n) :
          /\ \A j \in Servable(p, n) : j <= i
          /\ sentHashes' =
               [sentHashes EXCEPT ![p] = @ \o Cut(pendingSubtries[p][i], n)]
          /\ pendingSubtries' =
               [pendingSubtries EXCEPT ![p] = SubSeq(@, 1, i - 1)]
    BY <2>1 DEF GetSubTrie
  <2>3. i = last
    BY <2>0, <2>1, <2>2
  <2> QED
    BY <2>2, <2>3 DEF last
<1>5. /\ pendingSubtries'[p] = SubSeq(s, 1, Len(s) - 1)
      /\ sentHashes'[p] = sentHashes[p] \o cut
      /\ \A r \in Peers \ {p} : /\ pendingSubtries'[r] = pendingSubtries[r]
                               /\ sentHashes'[r] = sentHashes[r]
  BY <1>4 DEF TypeOK
<1>6. /\ StoredIn(s, trie[p]) /\ StoredIn(sentHashes[p], trie[p])
      /\ top \in Nodes(trie[p])
  BY <1>1, PopKeeps DEF CarefulInv, HashesStored
<1>7. /\ cut \in Seq(Hashes)
      /\ StoredIn(cut, trie[p])
      /\ \A x \in top : Below(cut, x)
  BY <1>1, <1>6, CutNodes DEF StoredIn, Below
<1> HIDE DEF top, cut
<1>8. /\ StoredIn(pendingSubtries'[p], trie[p])
      /\ StoredIn(sentHashes'[p], trie[p])
  BY <1>1, <1>5, <1>6, <1>7, PopKeeps, SendKeeps
<1>9. HashesStored'
  BY <1>1, <1>5, <1>8 DEF CarefulInv, HashesStored
<1>10. QuietBeforeStart'
  BY <1>1, <1>5 DEF CarefulInv, QuietBeforeStart
<1>11. \A x : Below(s, x) => Below(pendingSubtries'[p], x) \/ Below(cut, x)
  BY <1>1, <1>5, <1>7, PopKeeps DEF top
<1>12. \A x : Covered(p, x) => Covered(p, x)'
  <2>1. \A x : Below(sentHashes[p], x) \/ Below(cut, x)
                => Below(sentHashes'[p], x)
    BY <1>1, <1>5, <1>7, SendKeeps
  <2> QED
    BY <1>1, <1>11, <2>1 DEF Covered
<1>13. \A r \in Peers \ {p} : \A x : Covered(r, x) => Covered(r, x)'
  BY <1>1, <1>5 DEF Covered
<1>14. DifferencesCovered'
  BY <1>1, <1>12, <1>13 DEF CarefulInv, DifferencesCovered
<1> QED
  BY <1>9, <1>10, <1>14 DEF CarefulInv

(* A requested hash is handed on to the handler or to the stack; one that  *)
(* is not requested stands for keys that the other peer has.               *)
LEMMA CarefulProcessAck ==
  ASSUME SafetyInv, CarefulInv, NEW p \in Peers, ProcessAck(p)
  PROVE  CarefulInv'
<1> DEFINE q == Other(p)
           s == sentHashes[p]
           h == Head(s)
<1>1. q \in Peers /\ q # p /\ Other(q) = p /\ \A r \in Peers : r = p \/ r = q
  BY OtherPeer
<1>2. /\ UNCHANGED <<trie, stat>>
      /\ ackChan[q] # <<>> /\ s # <<>> /\ s \in Seq(Hashes)
      /\ sentHashes'[p] = Tail(s) /\ sentHashes'[q] = sentHashes[q]
      /\ pendingSubtries[p] \in Seq(Hashes)
  BY <1>1 DEF ProcessAck, SafetyInv, TypeOK
<1>3. /\ StoredIn(s, trie[p]) /\ StoredIn(pendingSubtries[p], trie[p])
      /\ StoredIn(Tail(s), trie[p]) /\ h \in Nodes(trie[p])
      /\ \A x : Below(s, x) => x \in h \/ Below(Tail(s), x)
  BY <1>2, PopKeeps DEF CarefulInv, HashesStored
<1>4. h \in Hashes
  BY <1>3, NodeBelow DEF SafetyInv, TypeOK, Hashes
<1>5. /\ pendingSubtries'[q] = pendingSubtries[q]
      /\ reported'[q] = reported[q]
      /\ reported[p] \subseteq reported'[p]
      /\ \/ pendingSubtries'[p] = pendingSubtries[p]
         \/ pendingSubtries'[p] = Append(pendingSubtries[p], h)
      /\ \/ ~Head(ackChan[q])
         \/ h \subseteq reported'[p]
         \/ pendingSubtries'[p] = Append(pendingSubtries[p], h)
  <2>1. ~Restart(p, h)
    BY <1>3 DEF Restart, TrieContains
  <2>2. CASE Head(ackChan[q]) /\ ReportLeaf(p, h)
    BY <1>1, <2>2 DEF ReportLeaf, SafetyInv, TypeOK
  <2>3. CASE Head(ackChan[q]) /\ PushInner(p, h)
    BY <1>1, <2>3 DEF PushInner, SafetyInv, TypeOK
  <2>4. CASE ~Head(ackChan[q])
    <3>1. UNCHANGED <<pendingSubtries, reported>>
      BY <2>4 DEF ProcessAck
    <3> QED
      BY <2>4, <3>1
  <2> QED
    BY <2>1, <2>2, <2>3, <2>4 DEF ProcessAck
<1>6. ~Head(ackChan[q]) => h \subseteq trie[q]
  <2> SUFFICES ASSUME ~Head(ackChan[q]) PROVE h \subseteq trie[q]
    OBVIOUS
  <2>1. ackChan[q] \in Seq(BOOLEAN) /\ pendingAcks[q] \in Seq(BOOLEAN)
    BY <1>1 DEF SafetyInv, TypeOK
  <2>2. /\ Acks(q) \in Seq(BOOLEAN) /\ Acks(q) # <<>>
        /\ Head(Acks(q)) = Head(ackChan[q])
    BY <1>1, <1>2, <2>1, AcksType, HeadTailConcat DEF Acks, SafetyInv
  <2>3. 1 \in 1 .. Len(Acks(q)) /\ Acks(q)[1] = Head(Acks(q)) /\ h = s[1]
    BY <1>2, <2>2, HeadIsFirst
  <2> QED
    BY <1>1, <2>2, <2>3 DEF SafetyInv, AnswersSound, AnswersHold
<1> HIDE DEF h, q, s
<1>7. /\ StoredIn(pendingSubtries'[p], trie[p])
      /\ \A x : Below(pendingSubtries[p], x) => Below(pendingSubtries'[p], x)
      /\ pendingSubtries'[p] = Append(pendingSubtries[p], h)
         => \A x \in h : Below(pendingSubtries'[p], x)
  <2> DEFINE before == pendingSubtries[p]
             pushed == Append(before, h)
  <2>1. before \in Seq(Hashes) /\ StoredIn(before, trie[p])
    BY <1>2, <1>3
  <2> HIDE DEF before
  <2>2. /\ StoredIn(pushed, trie[p])
        /\ \A x : Below(before, x) \/ x \in h => Below(pushed, x)
    BY <1>3, <1>4, <2>1, PushKeeps
  <2>3. pendingSubtries'[p] = before \/ pendingSubtries'[p] = pushed
    BY <1>5 DEF before
  <2> HIDE DEF pushed
  <2>4. StoredIn(pendingSubtries'[p], trie[p])
    BY <2>1, <2>2, <2>3
  <2>5. \A x : Below(before, x) => Below(pendingSubtries'[p], x)
    BY <2>2, <2>3
  <2>6. pendingSubtries'[p] = pushed
        => \A x \in h : Below(pendingSubtries'[p], x)
    BY <2>2
  <2> QED
    BY <2>4, <2>5, <2>6 DEF before, pushed
<1>8. HashesStored'
  BY <1>1, <1>2, <1>3, <1>5, <1>7 DEF CarefulInv, HashesStored, s
<1>9. QuietBeforeStart'
  BY <1>1, <1>2, <1>5 DEF CarefulInv, QuietBeforeStart, s
<1>10. \A x : Covered(q, x) => Covered(q, x)'
  BY <1>2, <1>5 DEF Covered
<1>11. ASSUME NEW x \in trie[p] \ trie[q], Covered(p, x)
       PROVE  Covered(p, x)'
  BY <1>2, <1>3, <1>5, <1>6, <1>7, <1>11 DEF Covered, s
<1>12. DifferencesCovered'
  BY <1>1, <1>2, <1>10, <1>11 DEF CarefulInv, DifferencesCovered, q
<1> QED
  BY <1>8, <1>9, <1>12 DEF CarefulInv

(* An insertion changes the nodes of a trie, but when it is made nothing   *)
(* is remembered that could become outdated.                               *)
LEMMA CarefulApply ==
  ASSUME SafetyInv, CarefulInv, ~EarlyApply,
         NEW p \in Peers, NEW x \in Keys, ApplyReported(p, x)
  PROVE  CarefulInv'
<1> DEFINE q == Other(p)
<1>1. q \in Peers /\ q # p /\ Other(q) = p /\ \A r \in Peers : r = p \/ r = q
  BY OtherPeer
<1>2. /\ Settled(p) /\ Settled(q)
      /\ x \in reported[q] /\ x \notin trie[p]
      /\ trie'[p] = trie[p] \cup {x} /\ trie'[q] = trie[q]
      /\ UNCHANGED <<stat, pendingSubtries, sentHashes, reported>>
  BY <1>1 DEF ApplyReported, process, SafetyInv, TypeOK
<1>3. x \in trie[q]
  BY <1>1, <1>2 DEF SafetyInv, ReportSound, KeysKept
<1>4. stat[p] # "EQUAL" /\ stat[q] # "EQUAL"
  BY <1>1, <1>2, <1>3 DEF SafetyInv, EqualSound
<1>5. ASSUME NEW r \in Peers
      PROVE  pendingSubtries[r] = <<>> /\ sentHashes[r] = <<>>
  <2>1. Settled(r) /\ stat[r] # "EQUAL"
    BY <1>1, <1>2, <1>4
  <2>2. CASE Done(r)
    BY <2>1, <2>2 DEF Done
  <2>3. CASE trie[r] = {}
    <3>1. Nodes(trie[r]) = {}
      BY <2>3 DEF Nodes
    <3>2. \A s \in Seq(Hashes) : StoredIn(s, trie[r]) => s = <<>>
      <4> SUFFICES ASSUME NEW s \in Seq(Hashes), StoredIn(s, trie[r]), s # <<>>
                   PROVE  FALSE
        OBVIOUS
      <4>1. s[1] \in Nodes(trie[r])
        BY EmptySeq, LenProperties DEF StoredIn
      <4> QED
        BY <3>1, <4>1
    <3> QED
      BY <3>2 DEF CarefulInv, HashesStored, SafetyInv, TypeOK
  <2> QED
    BY <2>1, <2>2, <2>3 DEF Settled, HasRoot
<1>6. HashesStored'
  <2>1. \A S : StoredIn(<<>>, S)
    BY EmptySeq DEF StoredIn
  <2> QED
    BY <1>2, <1>5, <2>1 DEF HashesStored
<1>7. QuietBeforeStart'
  BY <1>2, <1>5 DEF QuietBeforeStart
<1>8. \A r \in Peers : \A y : Covered(r, y) => Covered(r, y)'
  BY <1>2 DEF Covered
<1>9. DifferencesCovered'
  BY <1>1, <1>2, <1>3, <1>8 DEF CarefulInv, DifferencesCovered
<1> QED
  BY <1>6, <1>7, <1>9 DEF CarefulInv

LEMMA NextCareful ==
  ASSUME Careful, SafetyInv, CarefulInv, [Next]_vars
  PROVE  CarefulInv'
<1>1. TypeOK /\ ~EarlyApply /\ \A n \in Limits : n >= 2
  BY DEF Careful, SafetyInv
<1>2. ASSUME NEW p \in Peers, GetRootHashForSending(p) PROVE CarefulInv'
  BY <1>2, CarefulStutter DEF GetRootHashForSending, process
<1>3. ASSUME NEW p \in Peers, IsEqual(p) PROVE CarefulInv'
  <2>1. \A r \in Peers : stat'[r] = stat[r] \/ stat'[r] = "EQUAL"
    BY <1>1, <1>3 DEF IsEqual, TypeOK
  <2> QED
    BY <1>3, <2>1, CarefulStutter DEF IsEqual
<1>4. ASSUME NEW p \in Peers, IsSubtrieOutputAvailable(p) PROVE CarefulInv'
  BY <1>1, <1>4, CarefulStart
<1>5. ASSUME NEW p \in Peers, NEW n \in Limits, GetSubTrie(p, n)
      PROVE  CarefulInv'
  BY <1>1, <1>5, CarefulGetSubTrie
<1>6. ASSUME NEW p \in Peers, ProcessSubTrie(p) PROVE CarefulInv'
  BY <1>6, CarefulStutter DEF ProcessSubTrie
<1>7. ASSUME NEW p \in Peers, NEW length \in AckBuffers,
             ReadSomeTrieAcks(p, length)
      PROVE  CarefulInv'
  BY <1>7, CarefulStutter DEF ReadSomeTrieAcks
<1>8. ASSUME NEW p \in Peers, ProcessAck(p) PROVE CarefulInv'
  BY <1>8, CarefulProcessAck
<1>9. ASSUME NEW p \in Peers, NEW x \in Keys, ApplyReported(p, x)
      PROVE  CarefulInv'
  BY <1>1, <1>9, CarefulApply
<1>10. ASSUME UNCHANGED vars PROVE CarefulInv'
  BY <1>10, CarefulStutter DEF vars, process
<1> QED
  BY <1>2, <1>3, <1>4, <1>5, <1>6, <1>7, <1>8, <1>9, <1>10
  DEF Next, Step, CompareRoots

LEMMA CarefulAlways ==
  ASSUME Careful
  PROVE  Spec => [](SafetyInv /\ CarefulInv)
<1>1. Init => SafetyInv /\ CarefulInv
  BY InitSafety, InitCareful
<1>2. (SafetyInv /\ CarefulInv) /\ [Next]_vars => (SafetyInv /\ CarefulInv)'
  BY NextSafety, NextCareful
<1> QED
  BY <1>1, <1>2, PTL DEF Spec

LEMMA CarefulDone == SafetyInv /\ CarefulInv => DoneComplete
<1> SUFFICES ASSUME SafetyInv, CarefulInv, NEW p \in Peers, Done(p)
             PROVE  trie[p] \ trie[Other(p)] \subseteq reported[p]
  BY DEF DoneComplete
<1>1. CASE stat[p] = "EQUAL"
  BY <1>1 DEF SafetyInv, EqualSound
<1>2. CASE stat[p] # "EQUAL"
  <2>1. /\ stat[p] = "TRIE"
        /\ pendingSubtries[p] = <<>>
        /\ sentHashes[p] = <<>>
    BY <1>2 DEF Done, SafetyInv, TypeOK, Stats
  <2>2. \A x : ~Below(<<>>, x)
    BY EmptySeq DEF Below
  <2> QED
    BY <2>1, <2>2 DEF CarefulInv, DifferencesCovered, Covered
<1> QED
  BY <1>1, <1>2

(* done() can be relied on: it tells a peer that its handler was called    *)
(* with every key the other peer lacks.                                    *)
THEOREM DoneIsComplete ==
  ASSUME Careful
  PROVE  Spec => []DoneComplete
BY CarefulAlways, CarefulDone, PTL

(* The branch of processAcks that restarts the descent is not taken.       *)
THEOREM RestartIsNotTaken ==
  ASSUME Careful
  PROVE  Spec => []NeverRestarts
<1>1. SafetyInv /\ CarefulInv => NeverRestarts
  BY PopKeeps DEF SafetyInv, TypeOK, CarefulInv, HashesStored, NeverRestarts,
     TrieContains
<1> QED
  BY <1>1, CarefulAlways, PTL

(* When both peers are done and have inserted what was reported, their     *)
(* sets are the same, as the tests assert after their loops.               *)
THEOREM FinishedSetsAreEqual ==
  ASSUME Careful
  PROVE  Spec => []FinishedEqual
<1>1. SafetyInv /\ CarefulInv => FinishedEqual
  <2> SUFFICES ASSUME DoneComplete, Finished PROVE trie[A] = trie[B]
    BY CarefulDone DEF FinishedEqual
  <2>1. /\ trie[A] \ trie[B] \subseteq reported[A]
        /\ trie[B] \ trie[A] \subseteq reported[B]
        /\ reported[A] \subseteq trie[B]
        /\ reported[B] \subseteq trie[A]
    BY PeersAssumption DEF DoneComplete, Finished, Peers, Other
  <2> QED
    BY <2>1
<1> QED
  BY <1>1, CarefulAlways, PTL

-----------------------------------------------------------------------------
(* The refinement of Reconciliation.                                       *)

LEMMA DoneIsBoolean ==
  /\ \A p \in Peers : Done(p) \in BOOLEAN
  /\ [p \in Peers |-> Done(p)] \in [Peers -> BOOLEAN]
<1>1. \A p \in Peers : Done(p) \in BOOLEAN
  BY Zenon DEF Done
<1> QED
  BY <1>1, Zenon

(* A process that answers that it is done is complete. *)
LEMMA AnswersAreComplete ==
  ASSUME DoneComplete'
  PROVE  Promised!Answers
<1>1. ([p \in Peers |-> Done(p)] \in [Peers -> BOOLEAN])'
  BY DoneIsBoolean, PTL
<1>2. \A p \in Peers : Done(p)' => trie'[p] \ trie'[Other(p)] \subseteq reported'[p]
  BY DEF DoneComplete
<1> QED
  BY <1>1, <1>2 DEF Promised!Answers, Promised!Complete, Promised!Lacking

(* A step that neither calls a handler nor inserts anything. *)
LEMMA ComparesOnly ==
  ASSUME DoneComplete', UNCHANGED <<trie, reported>>
  PROVE  Promised!Next
BY AnswersAreComplete DEF Promised!Next, Promised!Compare

(* Of what is reported the other peer knows nothing. *)
LEMMA ReportIsTold ==
  ASSUME SafetyInv, SafetyInv', DoneComplete',
         NEW p \in Peers, NEW h, ReportLeaf(p, h), UNCHANGED <<trie, orig>>
  PROVE  Promised!Next
<1>1. PICK x \in h : h = {x}
  BY DEF ReportLeaf, IsLeaf
<1>2. x \in trie[p] /\ x \in Keys
  <2>1. h \subseteq trie[p] /\ trie[p] \subseteq Keys
    BY NodeBelow DEF ReportLeaf, TrieContains, SafetyInv, TypeOK
  <2> QED
    BY <2>1
<1>3. reported' = [reported EXCEPT ![p] = @ \cup {x}]
  BY <1>1 DEF ReportLeaf
<1>4. CASE x \in reported[p]
  <2>1. reported' = reported
    BY <1>3, <1>4 DEF SafetyInv, TypeOK
  <2> QED
    BY <2>1, ComparesOnly
<1>5. CASE x \notin reported[p]
  <2>1. x \notin orig[Other(p)]
    <3>1. x \in reported'[p]
      BY <1>3 DEF SafetyInv, TypeOK
    <3> QED
      BY <3>1 DEF SafetyInv, ReportSound
  <2>2. trie[Other(p)] \subseteq orig[Other(p)] \cup reported[p]
    BY OtherPeer DEF SafetyInv, KeysKept
  <2>3. x \notin trie[Other(p)]
    BY <1>5, <2>1, <2>2
  <2>4. Promised!Tell(p, x)
    BY <1>2, <1>3, <1>5, <2>3, AnswersAreComplete DEF Promised!Tell, Promised!Lacking
  <2> QED
    BY <1>2, <2>4 DEF Promised!Next
<1> QED
  BY <1>4, <1>5

(* An insertion waits for the end, and is of a key that was reported. *)
LEMMA ApplyIsAdopted ==
  ASSUME Careful, SafetyInv, DoneComplete', NEW p \in Peers, NEW x \in Keys, ApplyReported(p, x)
  PROVE  Promised!Next
<1>1. \A q \in Peers : Done(q) \/ trie[q] = {}
  BY DEF Careful, ApplyReported, Settled, HasRoot
<1>2. \A q \in Peers : [r \in Peers |-> Done(r)][q] \/ trie[q] = {}
  BY <1>1, Zenon
<1>3. Promised!Adopt(p, x)
  BY <1>2, AnswersAreComplete DEF ApplyReported, Promised!Adopt
<1> QED
  BY <1>3 DEF Promised!Next

LEMMA StepKeepsPromise ==
  ASSUME Careful, SafetyInv, SafetyInv', DoneComplete', Next
  PROVE  Promised!Next
<1>1. ASSUME NEW p \in Peers, CompareRoots(p) PROVE Promised!Next
  BY <1>1, ComparesOnly DEF CompareRoots, GetRootHashForSending, IsEqual
<1>2. ASSUME NEW p \in Peers, IsSubtrieOutputAvailable(p) PROVE Promised!Next
  BY <1>2, ComparesOnly DEF IsSubtrieOutputAvailable
<1>3. ASSUME NEW p \in Peers, NEW n \in Limits, GetSubTrie(p, n) PROVE Promised!Next
  BY <1>3, ComparesOnly DEF GetSubTrie
<1>4. ASSUME NEW p \in Peers, ProcessSubTrie(p) PROVE Promised!Next
  BY <1>4, ComparesOnly DEF ProcessSubTrie
<1>5. ASSUME NEW p \in Peers, NEW length \in AckBuffers, ReadSomeTrieAcks(p, length)
      PROVE  Promised!Next
  BY <1>5, ComparesOnly DEF ReadSomeTrieAcks
<1>6. ASSUME NEW p \in Peers, ProcessAck(p) PROVE Promised!Next
  <2>1. UNCHANGED <<trie, orig>>
    BY <1>6 DEF ProcessAck
  <2>2. ReportLeaf(p, Head(sentHashes[p])) \/ UNCHANGED reported
    BY <1>6 DEF ProcessAck, PushInner, Restart
  <2> QED
    BY <2>1, <2>2, ReportIsTold, ComparesOnly
<1>7. ASSUME NEW p \in Peers, NEW x \in Keys, ApplyReported(p, x) PROVE Promised!Next
  BY <1>7, ApplyIsAdopted
<1> QED
  BY <1>1, <1>2, <1>3, <1>4, <1>5, <1>6, <1>7 DEF Next, Step

LEMMA StutterKeepsPromise ==
  ASSUME UNCHANGED vars
  PROVE  UNCHANGED Promised!vars
BY DEF vars, process, Promised!vars, Done

LEMMA InitPromised == Init => Promised!Init
<1> SUFFICES ASSUME Init PROVE Promised!Init
  OBVIOUS
<1>1. \A p \in Peers : Done(p) = FALSE
  <2>1. \A p \in Peers : stat[p] = "START"
    BY DEF Init
  <2> QED
    BY <2>1, Zenon DEF Done
<1>2. [p \in Peers |-> Done(p)] = [p \in Peers |-> FALSE]
  BY <1>1, Zenon
<1> QED
  BY <1>2 DEF Init, Promised!Init

(* What strict synchronization promises is kept, whatever buffers, orders  *)
(* and partial reads: each call of the handler tells a peer of a key that  *)
(* the other one lacks at that moment, done() comes only after the last of *)
(* them, and the insertions that follow take nothing of it back.           *)
THEOREM PromiseIsKept ==
  ASSUME Careful
  PROVE  Spec => Reconciles
<1>1. Init => Promised!Init
  BY InitPromised
<1>2. (SafetyInv /\ CarefulInv) /\ (SafetyInv /\ CarefulInv)' /\ [Next]_vars
        => [Promised!Next]_(Promised!vars)
  <2> SUFFICES ASSUME SafetyInv, SafetyInv', CarefulInv', [Next]_vars
               PROVE  [Promised!Next]_(Promised!vars)
    OBVIOUS
  <2>1. DoneComplete'
    BY CarefulDone, PTL
  <2> QED
    BY <2>1, StepKeepsPromise, StutterKeepsPromise
<1> QED
  BY <1>1, <1>2, CarefulAlways, PTL DEF Spec, Reconciles, Promised!Spec

-----------------------------------------------------------------------------
(* The programs of StrictLoop.                                             *)

Placed == program \in Programs /\ at \in 0 .. 5

LEMMA TransferIs ==
  ASSUME Placed, at \in 1 .. 4
  PROVE  Transfer.from \in Peers
<1>1. A \in Peers /\ B \in Peers
  BY DEF Peers
<1>2. program.transfers \in {TestOrder, RunOrder}
  BY ProgramsAssumption DEF Placed, TestSync, TestCAPI, RunStrictSyncs, RunStrictSync
<1>3. at = 1 \/ at = 2 \/ at = 3 \/ at = 4
  OBVIOUS
<1> QED
  BY <1>1, <1>2, <1>3 DEF Transfer, TestOrder, RunOrder, Subtries, Answered

LEMMA StepIsPlaced == Placed /\ [LoopNext]_loopVars => Placed'
<1> SUFFICES ASSUME Placed, [LoopNext]_loopVars PROVE Placed'
  OBVIOUS
<1>1. program' = program
  BY DEF LoopNext, AskDone, Read, HandOver, InsertReports, GoOn, loopVars
<1>2. at' \in 0 .. 5
  BY DEF Placed, LoopNext, AskDone, Read, HandOver, InsertReports, GoOn, Ready, loopVars
<1> QED
  BY <1>1, <1>2 DEF Placed

LEMMA StepIsAllowed ==
  ASSUME Placed, [LoopNext]_loopVars
  PROVE  [Next]_vars
<1>1. CASE AskDone \/ GoOn \/ UNCHANGED loopVars
  BY <1>1 DEF AskDone, GoOn, loopVars
<1>2. CASE Read
  <2> DEFINE p == Transfer.from
  <2>1. p \in Peers
    BY <1>2, TransferIs DEF Read, Ready
  <2> HIDE DEF p
  <2>2. Step(p)
    BY <1>2 DEF Read, Step, p
  <2> QED
    BY <2>1, <2>2 DEF Next
<1>3. CASE HandOver
  BY <1>3 DEF HandOver, Next, Step
<1>4. CASE InsertReports
  BY <1>4 DEF InsertReports, Next, Step
<1> QED
  BY <1>1, <1>2, <1>3, <1>4 DEF LoopNext

(* A program of the repository does nothing that TrieSync does not allow:  *)
(* the safety theorems about TrieSync hold for each of their loops.        *)
THEOREM LoopsAreAllowed == LoopSpec => Spec
<1>1. LoopInit => Init /\ Placed
  BY DEF LoopInit, Placed
<1> QED
  BY <1>1, StepIsPlaced, StepIsAllowed, PTL DEF LoopSpec, Spec

LEMMA LoopSafety == LoopSpec => []SafetyInv
BY LoopsAreAllowed, SafetyAlways, PTL

(* The transfers of runStrictSync, one by one. *)
LEMMA RunTransfers ==
  ASSUME RunInv
  PROVE  /\ at = 1 => Transfer.what = "acks" /\ Transfer.from = A
         /\ at = 2 => Transfer.what = "acks" /\ Transfer.from = B
         /\ at = 3 => Transfer.what = "subtries" /\ Transfer.from = B
         /\ at = 4 => Transfer.what = "subtries" /\ Transfer.from = A
BY DEF RunInv, RunForm, RunStrictSyncs, RunStrictSync, RunOrder, Subtries, Answered, Transfer

(* What is asked between two calls changes nothing but the position. *)
LEMMA RunAsks ==
  ASSUME SafetyInv, RunInv, AskDone
  PROVE  RunInv'
<1>1. UNCHANGED vars /\ UNCHANGED <<program, served>> /\ at = 0 /\ at' \in {1, 5}
  BY DEF AskDone
<1>2. at' = 5 => Done(A) \/ Done(B)
  BY DEF AskDone
<1>3. UNCHANGED <<stat, pendingSubtries, sentHashes, pendingAcks, subtrieChan, ackChan>>
  BY <1>1 DEF vars, process, channels
<1>4. Waits(A)' /\ Waits(B)' /\ QuietBeforeStart' /\ (at' = 5 => \E p \in Peers : Done(p)')
  BY <1>1, <1>2, <1>3 DEF RunInv, RunStatus, RunWaits, Waits, QuietBeforeStart, Done, Peers
<1>5. RunForm'
  BY <1>1 DEF RunInv, RunForm
<1>6. RunStatus'
  BY <1>3, <1>4 DEF RunInv, RunStatus
<1>7. RunChannels'
  BY <1>1, <1>3 DEF RunInv, RunChannels
<1>8. RunWaits'
  BY <1>1, <1>4 DEF RunWaits
<1> QED
  BY <1>4, <1>5, <1>6, <1>7, <1>8 DEF RunInv, Ended

LEMMA RunGoesOn ==
  ASSUME SafetyInv, RunInv, GoOn
  PROVE  RunInv'
<1>1. UNCHANGED vars /\ program' = program /\ served' = FALSE /\ at \in 1 .. 4
  BY DEF GoOn, Ready
<1>2. UNCHANGED <<stat, pendingSubtries, sentHashes, pendingAcks, subtrieChan, ackChan>>
  BY <1>1 DEF vars, process, channels
<1>3. \A p \in Peers : subtrieChan[p] = <<>> /\ ackChan[p] = <<>>
  BY DEF GoOn, Ready, Carrying
<1>4. at' \in {0, 2, 3, 4} /\ (at' = 4 => at = 3) /\ (at' = 0 => at = 4)
  BY <1>1 DEF GoOn
<1>5. at = 3 => Waits(B)
  BY RunTransfers DEF GoOn, NothingToRead, RunInv, RunWaits, Waits
<1>6. at = 4 => Waits(A) /\ Waits(B)
  BY RunTransfers DEF GoOn, NothingToRead, RunInv, RunWaits, Waits
<1>7. QuietBeforeStart' /\ Waits(A)' = Waits(A) /\ Waits(B)' = Waits(B)
  BY <1>2 DEF RunInv, RunStatus, QuietBeforeStart, Waits
<1>8. RunForm'
  <2>1. at' \in 0 .. 5
    BY <1>4
  <2> QED
    BY ONLY RunInv, <1>1, <2>1, Zenon DEF RunInv, RunForm
<1>9. RunStatus'
  BY <1>2, <1>7 DEF RunInv, RunStatus
<1>10. RunChannels'
  BY <1>2, <1>3 DEF RunChannels
<1>11. RunWaits'
  BY <1>1, <1>4, <1>5, <1>6, <1>7 DEF RunWaits
<1>12. (Ended => \E p \in Peers : Done(p))'
  BY <1>4 DEF Ended
<1> QED
  BY <1>8, <1>9, <1>10, <1>11, <1>12 DEF RunInv

(* Reading acknowledgments, which is done before subtries are read. *)
LEMMA RunReadsAcks ==
  ASSUME SafetyInv, RunInv, at \in {1, 2}, UNCHANGED <<program, at>>, served' = TRUE,
         NEW p \in Peers, NEW length \in AckBuffers, ReadSomeTrieAcks(p, length)
  PROVE  RunInv'
<1>1. UNCHANGED <<stat, pendingSubtries, sentHashes>>
  BY DEF ReadSomeTrieAcks
<1>2. QuietBeforeStart'
  BY <1>1 DEF RunInv, RunStatus, QuietBeforeStart
<1>3. RunForm'
  BY DEF RunInv, RunForm
<1>4. RunStatus'
  BY <1>1, <1>2 DEF RunInv, RunStatus
<1>5. RunChannels'
  BY DEF RunChannels
<1>6. RunWaits'
  BY DEF RunWaits
<1>7. (Ended => \E r \in Peers : Done(r))'
  BY DEF Ended
<1> QED
  BY <1>3, <1>4, <1>5, <1>6, <1>7 DEF RunInv

LEMMA RunStarts ==
  ASSUME SafetyInv, RunInv, at \in {3, 4}, UNCHANGED <<program, at, served>>,
         Transfer.from \in Peers, IsSubtrieOutputAvailable(Transfer.from)
  PROVE  RunInv'
<1> DEFINE p == Transfer.from
<1>1. /\ stat[p] = "START" /\ stat' = [stat EXCEPT ![p] = "TRIE"]
      /\ \A r \in Peers \ {p} : pendingSubtries'[r] = pendingSubtries[r]
      /\ UNCHANGED <<sentHashes, pendingAcks, subtrieChan, ackChan>>
  BY DEF IsSubtrieOutputAvailable, channels, SafetyInv, TypeOK
<1>2. (at = 3 => p = B) /\ (at = 4 => p = A) /\ A # B
  BY RunTransfers, PeersAssumption
<1>3. DOMAIN stat = Peers
  BY DEF SafetyInv, TypeOK
<1> HIDE DEF p
<1>4. p \in Peers
  BY DEF p
<1>5. \A r \in Peers : stat'[r] = IF r = p THEN "TRIE" ELSE stat[r]
  BY <1>1, <1>3
<1>6. QuietBeforeStart'
  BY <1>1, <1>5 DEF RunInv, RunStatus, QuietBeforeStart
<1>7. A \in Peers /\ B \in Peers
  BY DEF Peers
<1>8. at = 4 => Waits(B)'
  BY <1>1, <1>2, <1>7 DEF RunInv, RunWaits, Waits
<1>9. (at = 3 => ~served) /\ (at = 4 => ~served)
  BY <1>1, <1>2 DEF RunInv, RunWaits
<1>10. RunForm'
  BY DEF RunInv, RunForm
<1>11. RunStatus'
  BY <1>4, <1>5, <1>6 DEF RunInv, RunStatus
<1>12. RunChannels'
  BY <1>1 DEF RunInv, RunChannels
<1>13. RunWaits'
  BY <1>8, <1>9 DEF RunWaits
<1>14. (Ended => \E r \in Peers : Done(r))'
  BY DEF Ended
<1> QED
  BY <1>10, <1>11, <1>12, <1>13, <1>14 DEF RunInv

(* Whoever hands over a subtrie waits for its acknowledgments: a cut is    *)
(* not empty. *)
LEMMA RunReadsSubtrie ==
  ASSUME SafetyInv, RunInv, at \in {3, 4}, UNCHANGED <<program, at>>, served' = TRUE,
         Transfer.from \in Peers, NEW n \in Limits, GetSubTrie(Transfer.from, n)
  PROVE  RunInv'
<1> DEFINE p == Transfer.from
<1>1. /\ UNCHANGED <<stat, pendingAcks, ackChan>> /\ pendingSubtries[p] # <<>>
      /\ \A r \in Peers \ {p} : /\ pendingSubtries'[r] = pendingSubtries[r]
                               /\ sentHashes'[r] = sentHashes[r]
  <2>1. UNCHANGED <<stat, pendingAcks, ackChan>> /\ pendingSubtries[p] # <<>>
    BY DEF GetSubTrie
  <2>2. \A r \in Peers \ {p} : pendingSubtries'[r] = pendingSubtries[r]
    BY DEF GetSubTrie, SafetyInv, TypeOK
  <2>3. \A r \in Peers \ {p} : sentHashes'[r] = sentHashes[r]
    BY DEF GetSubTrie, SafetyInv, TypeOK
  <2> QED
    BY <2>1, <2>2, <2>3
<1>2. (at = 3 => p = B) /\ (at = 4 => p = A) /\ A # B
  BY RunTransfers, PeersAssumption
<1>3. pendingSubtries'[p] = <<>> \/ sentHashes'[p] # <<>>
  <2>1. CASE Servable(p, n) = {} /\ pendingSubtries' = [pendingSubtries EXCEPT ![p] = <<>>]
    BY <2>1 DEF SafetyInv, TypeOK
  <2>2. ASSUME NEW top \in Servable(p, n),
               sentHashes' = [sentHashes EXCEPT ![p] = @ \o Cut(pendingSubtries[p][top], n)]
        PROVE  sentHashes'[p] # <<>>
    <3> DEFINE h == pendingSubtries[p][top]
               cut == Cut(h, n)
    <3>1. n >= 2 /\ h \in Nodes(trie[p]) /\ trie[p] \in SUBSET Keys /\ sentHashes[p] \in Seq(Hashes)
      BY <2>2 DEF Servable, TrieContains, SafetyInv, TypeOK
    <3> HIDE DEF h
    <3>2. cut \in Seq(Hashes) /\ (\A x \in h : \E i \in 1 .. Len(cut) : x \in cut[i]) /\ h # {}
      BY <3>1, CutNodes, NodeBelow
    <3> HIDE DEF cut
    <3>3. Len(cut) \in Nat \ {0}
      BY <3>2, LenProperties
    <3>4. Len(sentHashes[p] \o cut) = Len(sentHashes[p]) + Len(cut) /\ Len(sentHashes[p]) \in Nat
      BY <3>1, <3>2, ConcatProperties, LenProperties
    <3>5. sentHashes'[p] = sentHashes[p] \o cut
      BY <2>2 DEF SafetyInv, TypeOK, cut, h
    <3> QED
      BY <3>3, <3>4, <3>5
  <2> QED
    BY <2>1, <2>2 DEF GetSubTrie
<1> HIDE DEF p
<1>4. p \in Peers /\ A \in Peers /\ B \in Peers
  BY DEF p, Peers
<1>5. stat[p] = "TRIE"
  BY <1>1, <1>4 DEF RunInv, RunStatus, QuietBeforeStart, SafetyInv, TypeOK, Stats
<1>6. QuietBeforeStart'
  BY <1>1, <1>4, <1>5 DEF RunInv, RunStatus, QuietBeforeStart
<1>7. (at = 3 => Waits(B)') /\ (at = 4 => Waits(A)' /\ Waits(B)')
  BY <1>1, <1>2, <1>3, <1>4 DEF RunInv, RunWaits, Waits
<1>8. RunForm'
  BY DEF RunInv, RunForm
<1>9. RunStatus'
  BY <1>1, <1>6 DEF RunInv, RunStatus
<1>10. RunChannels'
  BY <1>1 DEF RunInv, RunChannels
<1>11. RunWaits'
  BY <1>1, <1>2, <1>5, <1>7 DEF RunWaits
<1>12. (Ended => \E r \in Peers : Done(r))'
  BY DEF Ended
<1> QED
  BY <1>8, <1>9, <1>10, <1>11, <1>12 DEF RunInv

LEMMA RunReads ==
  ASSUME SafetyInv, RunInv, Read
  PROVE  RunInv'
<1>1. at \in 1 .. 4 /\ UNCHANGED <<program, at>>
  BY DEF Read, Ready
<1>2. Transfer.from \in Peers /\ (Transfer.what = "acks" => at \in {1, 2})
      /\ (Transfer.what = "subtries" => at \in {3, 4})
  BY <1>1, RunTransfers DEF Peers
<1>3. CASE Transfer.what = "acks" /\ served' = TRUE
           /\ \E length \in AckBuffers : ReadSomeTrieAcks(Transfer.from, length)
  BY <1>1, <1>2, <1>3, RunReadsAcks
<1>4. CASE Transfer.what = "subtries" /\ UNCHANGED served
           /\ IsSubtrieOutputAvailable(Transfer.from)
  BY <1>1, <1>2, <1>4, RunStarts
<1>5. CASE Transfer.what = "subtries" /\ served' = TRUE
           /\ \E n \in Limits : GetSubTrie(Transfer.from, n)
  BY <1>1, <1>2, <1>5, RunReadsSubtrie
<1> QED
  BY <1>3, <1>4, <1>5 DEF Read

(* A subtrie is looked up at once, acknowledgments are processed before    *)
(* any subtrie of the round is read. *)
LEMMA RunHandsOver ==
  ASSUME SafetyInv, RunInv, HandOver
  PROVE  RunInv'
<1>1. UNCHANGED <<program, at, served>>
  BY DEF HandOver
<1>2. ASSUME NEW p \in Peers, ProcessSubTrie(p)
      PROVE  RunInv'
  <2>1. UNCHANGED <<stat, pendingSubtries, sentHashes, ackChan>> /\ subtrieChan[Other(p)] # <<>>
    BY <1>2 DEF ProcessSubTrie
  <2>2. at \notin {0, 5}
    BY <1>2, <2>1, OtherPeer DEF RunInv, RunChannels
  <2>3. QuietBeforeStart' /\ Waits(A)' = Waits(A) /\ Waits(B)' = Waits(B)
    BY <2>1 DEF RunInv, RunStatus, QuietBeforeStart, Waits
  <2>4. RunForm' /\ RunStatus'
    BY <1>1, <2>1, <2>3 DEF RunInv, RunForm, RunStatus
  <2>5. RunChannels' /\ RunWaits' /\ (at' # 5)
    BY <1>1, <2>1, <2>2, <2>3 DEF RunInv, RunChannels, RunWaits
  <2> QED
    BY <2>4, <2>5 DEF RunInv, Ended
<1>3. ASSUME NEW p \in Peers, ProcessAck(p)
      PROVE  RunInv'
  <2>1. stat' = stat /\ subtrieChan' = subtrieChan /\ ackChan[Other(p)] # <<>> /\ sentHashes[p] # <<>>
    BY <1>3 DEF ProcessAck
  <2>2. at \notin {0, 3, 4, 5}
    BY <1>3, <2>1, OtherPeer DEF RunInv, RunChannels
  <2>3. \A r \in Peers \ {p} : pendingSubtries'[r] = pendingSubtries[r] /\ sentHashes'[r] = sentHashes[r]
    <3>1. \A r \in Peers \ {p} : sentHashes'[r] = sentHashes[r]
      BY <1>3 DEF ProcessAck, SafetyInv, TypeOK
    <3>2. \A r \in Peers \ {p} : pendingSubtries'[r] = pendingSubtries[r]
      BY <1>3 DEF ProcessAck, ReportLeaf, PushInner, Restart, SafetyInv, TypeOK
    <3> QED
      BY <3>1, <3>2
  <2>4. stat[p] # "START"
    BY <1>3, <2>1 DEF RunInv, RunStatus, QuietBeforeStart
  <2>5. QuietBeforeStart'
    BY <2>1, <2>3, <2>4 DEF RunInv, RunStatus, QuietBeforeStart
  <2>6. RunForm' /\ RunStatus'
    BY <1>1, <2>1, <2>5 DEF RunInv, RunForm, RunStatus
  <2>7. RunChannels' /\ RunWaits' /\ at' # 5
    BY <1>1, <2>1, <2>2 DEF RunInv, RunChannels, RunWaits
  <2> QED
    BY <2>6, <2>7 DEF RunInv, Ended
<1> QED
  BY <1>2, <1>3 DEF HandOver

LEMMA RunInserts ==
  ASSUME RunInv, InsertReports \/ UNCHANGED loopVars
  PROVE  RunInv'
<1>1. UNCHANGED <<program, at, served, stat, pendingSubtries, sentHashes, pendingAcks, subtrieChan, ackChan>>
  BY DEF InsertReports, ApplyReported, process, channels, loopVars, vars
<1>2. /\ QuietBeforeStart' /\ Waits(A)' = Waits(A) /\ Waits(B)' = Waits(B)
      /\ \A p \in Peers : Done(p)' = Done(p)
  BY <1>1 DEF RunInv, RunStatus, QuietBeforeStart, Waits, Done
<1>3. RunForm' /\ RunStatus'
  BY <1>1, <1>2 DEF RunInv, RunForm, RunStatus
<1>4. RunChannels' /\ RunWaits'
  BY <1>1, <1>2 DEF RunInv, RunChannels, RunWaits
<1> QED
  BY <1>1, <1>2, <1>3, <1>4 DEF RunInv, Ended

LEMMA InitRun == LoopInit => LoopInv
<1> SUFFICES ASSUME LoopInit, program.inserts = "call" PROVE RunInv
  BY DEF LoopInv
<1>1. program \in RunStrictSyncs
  BY ProgramsAssumption DEF LoopInit, TestSync, TestCAPI
<1>2. A \in Peers /\ B \in Peers
  BY DEF Peers
<1>3. at = 0 /\ served = FALSE /\ Init
  BY DEF LoopInit
<1>4. \A p \in Peers : /\ stat[p] = "START" /\ pendingSubtries[p] = <<>> /\ sentHashes[p] = <<>>
                       /\ subtrieChan[p] = <<>> /\ ackChan[p] = <<>>
  BY <1>3 DEF Init
<1>5. QuietBeforeStart /\ Waits(A) /\ Waits(B)
  BY <1>2, <1>4 DEF QuietBeforeStart, Waits
<1>6. RunForm
  <2>1. at \in 0 .. 5
    BY <1>3
  <2> QED
    BY ONLY <1>1, <1>3, <2>1, Zenon DEF RunForm
<1>7. RunStatus
  BY <1>4, <1>5 DEF RunStatus
<1>8. RunChannels
  BY <1>4 DEF RunChannels
<1>9. RunWaits
  BY <1>3, <1>5 DEF RunWaits
<1>10. Ended => \E p \in Peers : Done(p)
  BY <1>3 DEF Ended
<1> QED
  BY <1>6, <1>7, <1>8, <1>9, <1>10 DEF RunInv

LEMMA NextRun == SafetyInv /\ LoopInv /\ [LoopNext]_loopVars => LoopInv'
<1> SUFFICES ASSUME SafetyInv, LoopInv, [LoopNext]_loopVars, program'.inserts = "call"
             PROVE  RunInv'
  BY DEF LoopInv
<1>1. program' = program
  BY DEF LoopNext, AskDone, Read, HandOver, InsertReports, GoOn, loopVars
<1>2. RunInv
  BY <1>1 DEF LoopInv
<1> QED
  BY <1>2, RunAsks, RunGoesOn, RunReads, RunHandsOver, RunInserts DEF LoopNext

(* An empty sequence is as long as it looks. *)
LEMMA RunLeavesNothing == SafetyInv /\ LoopInv => LeavesNothing
<1> SUFFICES ASSUME SafetyInv, LoopInv, Ended, program.inserts = "call", NEW q \in Peers
             PROVE  pendingSubtries[q] = <<>> /\ sentHashes[q] = <<>> /\ pendingAcks[q] = <<>>
  BY DEF LeavesNothing
<1>1. RunInv
  BY DEF LoopInv
<1>2. PICK p \in Peers : Done(p)
  BY <1>1 DEF RunInv
<1> DEFINE o == Other(p)
<1>3. o \in Peers /\ Other(o) = p /\ (q = p \/ q = o)
  BY OtherPeer
<1>4. pendingAcks[p] = <<>> /\ pendingSubtries[p] = <<>> /\ sentHashes[p] = <<>>
  BY <1>1, <1>2 DEF RunInv, RunStatus, Done
<1>5. \A r \in Peers : /\ ackChan[r] = <<>> /\ subtrieChan[r] = <<>>
                       /\ pendingSubtries[r] = <<>> \/ sentHashes[r] # <<>>
  BY <1>1 DEF RunInv, RunChannels, RunWaits, Ended, Waits, Peers
<1>6. \A r \in Peers : /\ sentHashes[r] \in Seq(Hashes)
                       /\ pendingAcks[r] \in Seq(BOOLEAN)
  BY DEF SafetyInv, TypeOK
<1>7. \A r \in Peers : Len(sentHashes[r]) = Len(pendingAcks[Other(r)])
  <2> SUFFICES ASSUME NEW r \in Peers
               PROVE  Len(sentHashes[r]) = Len(pendingAcks[Other(r)])
    OBVIOUS
  <2>1. Len(sentHashes[r]) = Len(Acks(Other(r))) + Len(subtrieChan[r])
    BY DEF SafetyInv, Aligned, InStep
  <2>2. Other(r) \in Peers
    BY OtherPeer
  <2>3. Acks(Other(r)) = <<>> \o pendingAcks[Other(r)]
    BY <1>5, <2>2 DEF Acks
  <2>4. <<>> \o pendingAcks[Other(r)] = pendingAcks[Other(r)]
    BY <1>6, <2>2, ConcatEmptySeq
  <2>5. Len(pendingAcks[Other(r)]) \in Nat /\ Len(<<>>) = 0
    BY <1>6, <2>2, LenProperties
  <2>6. Len(subtrieChan[r]) = 0
    BY <1>5, <2>5
  <2> QED
    BY <2>1, <2>3, <2>4, <2>5, <2>6
<1> HIDE DEF o
<1>8. Len(sentHashes[o]) = 0 /\ Len(pendingAcks[o]) = 0
  BY <1>3, <1>4, <1>7 DEF o
<1>9. sentHashes[o] = <<>> /\ pendingAcks[o] = <<>>
  BY <1>3, <1>6, <1>8, EmptySeq
<1> QED
  BY <1>3, <1>4, <1>5, <1>9

(* When runStrictSync finds one process done, neither of them has anything *)
(* to hand over, with or without synchron_, for any sets and any buffers,  *)
(* and although it inserts reports while the tries are compared.           *)
THEOREM RunLeavesNothingBehind == LoopSpec => []LeavesNothing
BY LoopSafety, InitRun, NextRun, RunLeavesNothing, PTL DEF LoopSpec

=============================================================================
