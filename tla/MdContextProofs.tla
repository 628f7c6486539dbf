---------------------------- MODULE MdContextProofs ----------------------------
(***************************************************************************)
(* Proofs about MdContext: for blocks, length fields, words and digests of *)
(* any size that fit each other, for messages cut into any pieces, and for *)
(* any sequence of calls.                                                  *)
(***************************************************************************)
EXTENDS MdContext, WellFoundedInduction, SequenceTheorems, TLAPS

-----------------------------------------------------------------------------
(* Induction over the natural numbers, about a set.                        *)

LEMMA NumberInduction ==
  ASSUME NEW S, 0 \in S, \A n \in Nat : n \in S => n + 1 \in S
  PROVE  Nat \subseteq S
<1> SUFFICES ASSUME Nat \ S # {} PROVE FALSE
  OBVIOUS
<1> DEFINE R == OpToRel(<, Nat)
<1>1. IsWellFoundedOn(R, Nat)
  BY NatLessThanWellFounded
<1>2. \A x, y \in Nat : x < y <=> <<x, y>> \in R
  BY DEF OpToRel
<1> HIDE DEF R
<1>3. PICK x \in Nat \ S : \A y \in Nat \ S : ~ (<<y, x>> \in R)
  BY <1>1, WFMin
<1>4. x # 0 /\ x - 1 \in Nat /\ x - 1 < x /\ x = (x - 1) + 1
  OBVIOUS
<1>5. x - 1 \in S
  BY <1>2, <1>3, <1>4
<1> QED
  BY <1>4, <1>5

-----------------------------------------------------------------------------
(* Arithmetic of the counters.                                             *)

LEMMA Division ==
  ASSUME NEW a \in Nat, NEW b \in Nat \ {0}
  PROVE  /\ a % b \in 0 .. b - 1
         /\ a \div b \in Nat
         /\ a = b * (a \div b) + (a % b)
OBVIOUS

LEMMA Times ==
  ASSUME NEW a \in Nat, NEW b \in Nat, NEW c \in Nat, a <= b
  PROVE  c * a <= c * b /\ a * c <= b * c /\ c * a = a * c /\ c * a \in Nat
OBVIOUS

LEMMA Unique ==
  ASSUME NEW b \in Nat \ {0}, NEW q \in Nat, NEW r \in 0 .. b - 1
  PROVE  (b * q + r) % b = r /\ (b * q + r) \div b = q
OBVIOUS

-----------------------------------------------------------------------------
(* Strings of bytes: sequences of whatever.                                *)

Str(s) == Len(s) \in Nat /\ s = [i \in 1 .. Len(s) |-> s[i]]

LEMMA IsStr ==
  ASSUME NEW n \in Nat, NEW s, s = [i \in 1 .. n |-> s[i]]
  PROVE  Str(s) /\ Len(s) = n
<1> DEFINE S == {s[i] : i \in 1 .. n}
<1>1. \A i \in 1 .. n : s[i] \in S
  OBVIOUS
<1> HIDE DEF S
<1>2. s \in [1 .. n -> S]
  BY <1>1
<1>3. s \in Seq(S) /\ Len(s) = n
  BY <1>2
<1> QED
  BY <1>3 DEF Str

LEMMA StrIn ==
  ASSUME NEW s, Str(s)
  PROVE  \E S : s \in Seq(S)
<1> DEFINE S == {s[i] : i \in 1 .. Len(s)}
<1>1. \A i \in 1 .. Len(s) : s[i] \in S
  OBVIOUS
<1> HIDE DEF S
<1>2. s \in [1 .. Len(s) -> S] /\ Len(s) \in Nat
  BY <1>1 DEF Str
<1>3. s \in Seq(S)
  BY <1>2
<1> QED
  BY <1>3

LEMMA SeqIsStr ==
  ASSUME NEW S, NEW s \in Seq(S)
  PROVE  Str(s)
BY DEF Str

LEMMA BothIn ==
  ASSUME NEW s, NEW t, Str(s), Str(t)
  PROVE  \E S : s \in Seq(S) /\ t \in Seq(S)
<1>1. PICK S : s \in Seq(S)
  BY StrIn
<1>2. PICK T : t \in Seq(T)
  BY StrIn
<1>3. S \subseteq S \cup T /\ T \subseteq S \cup T
  OBVIOUS
<1>4. s \in Seq(S \cup T) /\ t \in Seq(S \cup T)
  BY <1>1, <1>2, <1>3, SeqMonotonic
<1> QED
  BY <1>4

LEMMA SameStr ==
  ASSUME NEW s, NEW t, Str(s), Str(t), Len(s) = Len(t),
         \A i \in 1 .. Len(s) : s[i] = t[i]
  PROVE  s = t
BY DEF Str

LEMMA JoinStr ==
  ASSUME NEW s, NEW t, Str(s), Str(t)
  PROVE  /\ Str(s \o t)
         /\ Len(s) \in Nat /\ Len(t) \in Nat
         /\ Len(s \o t) = Len(s) + Len(t)
         /\ \A i \in 1 .. Len(s) : (s \o t)[i] = s[i]
         /\ \A i \in 1 .. Len(t) : (s \o t)[Len(s) + i] = t[i]
<1>1. PICK S : s \in Seq(S) /\ t \in Seq(S)
  BY BothIn
<1> DEFINE u == s \o t
           m == Len(s)
           n == Len(t)
<1>2. m \in Nat /\ n \in Nat
  BY DEF Str
<1>3. /\ u \in Seq(S) /\ Len(u) = m + n
      /\ \A i \in 1 .. m + n : u[i] = IF i <= m THEN s[i] ELSE t[i - m]
  BY <1>1, ConcatProperties
<1> HIDE DEF u, m, n
<1>4. \A i \in 1 .. m : u[i] = s[i]
  BY <1>2, <1>3
<1>5. \A i \in 1 .. n : u[m + i] = t[i]
  <2> SUFFICES ASSUME NEW i \in 1 .. n PROVE u[m + i] = t[i]
    OBVIOUS
  <2>1. m + i \in 1 .. m + n /\ ~(m + i <= m) /\ (m + i) - m = i
    BY <1>2
  <2> QED
    BY <1>3, <2>1
<1>6. Str(u)
  BY <1>3, SeqIsStr
<1> QED
  BY <1>2, <1>3, <1>4, <1>5, <1>6 DEF u, m, n

LEMMA PartStr ==
  ASSUME NEW s, Str(s), NEW a \in Nat \ {0}, NEW b \in Nat, a <= b + 1, b <= Len(s)
  PROVE  /\ Str(SubSeq(s, a, b))
         /\ Len(SubSeq(s, a, b)) = b - a + 1
         /\ \A i \in 1 .. b - a + 1 : SubSeq(s, a, b)[i] = s[a + i - 1]
<1>1. PICK S : s \in Seq(S)
  BY StrIn
<1> DEFINE t == SubSeq(s, a, b)
<1>2. Len(s) \in Nat
  BY DEF Str
<1>3. \A i \in a .. b : s[i] \in S
  BY <1>1, <1>2
<1>4. /\ t \in Seq(S)
      /\ Len(t) = IF a <= b THEN b - a + 1 ELSE 0
      /\ \A i \in 1 .. b - a + 1 : t[i] = s[a + i - 1]
  BY <1>3, SubSeqProperties
<1> HIDE DEF t
<1>5. Len(t) = b - a + 1
  BY <1>4
<1>6. Str(t)
  BY <1>4, SeqIsStr
<1> QED
  BY <1>4, <1>5, <1>6 DEF t

(* How strings are joined does not matter. *)
Joined(s, t, u) == (s \o t) \o u = s \o (t \o u)

LEMMA JoinAssociates ==
  ASSUME NEW s, NEW t, NEW u, Str(s), Str(t), Str(u)
  PROVE  Joined(s, t, u)
<1>1. PICK S : s \in Seq(S) /\ t \in Seq(S)
  BY BothIn
<1>2. PICK U : u \in Seq(U)
  BY StrIn
<1>3. S \subseteq S \cup U /\ U \subseteq S \cup U
  OBVIOUS
<1>4. s \in Seq(S \cup U) /\ t \in Seq(S \cup U) /\ u \in Seq(S \cup U)
  BY <1>1, <1>2, <1>3, SeqMonotonic
<1> QED
  BY <1>4, ConcatAssociative DEF Joined

LEMMA EmptyStr ==
  /\ Str(<<>>) /\ Len(<<>>) = 0
  /\ \A s : Str(s) => s \o <<>> = s /\ <<>> \o s = s
  /\ \A s : Str(s) /\ Len(s) = 0 => s = <<>>
<1>1. Str(<<>>) /\ Len(<<>>) = 0
  BY DEF Str
<1>2. ASSUME NEW s, Str(s)
      PROVE  s \o <<>> = s /\ <<>> \o s = s
  BY <1>2, StrIn, ConcatEmptySeq
<1>3. ASSUME NEW s, Str(s), Len(s) = 0
      PROVE  s = <<>>
  BY <1>1, <1>3, SameStr
<1> QED
  BY <1>1, <1>2, <1>3

(* A string is what comes before a place and what comes behind it. *)
LEMMA SplitStr ==
  ASSUME NEW s, Str(s), NEW k \in Nat, k <= Len(s)
  PROVE  /\ Str(SubSeq(s, 1, k)) /\ Len(SubSeq(s, 1, k)) = k
         /\ \A i \in 1 .. k : SubSeq(s, 1, k)[i] = s[i]
         /\ Str(SubSeq(s, k + 1, Len(s))) /\ Len(SubSeq(s, k + 1, Len(s))) = Len(s) - k
         /\ \A i \in 1 .. Len(s) - k : SubSeq(s, k + 1, Len(s))[i] = s[k + i]
         /\ s = SubSeq(s, 1, k) \o SubSeq(s, k + 1, Len(s))
<1> DEFINE n == Len(s)
           t == SubSeq(s, 1, k)
           u == SubSeq(s, k + 1, n)
<1>1. n \in Nat
  BY DEF Str
<1>2. Str(t) /\ Len(t) = k - 1 + 1 /\ \A i \in 1 .. k - 1 + 1 : t[i] = s[1 + i - 1]
  <2>1. 1 \in Nat \ {0} /\ 1 <= k + 1
    OBVIOUS
  <2> QED
    BY <2>1, PartStr
<1>3. /\ Str(u) /\ Len(u) = n - (k + 1) + 1
      /\ \A i \in 1 .. n - (k + 1) + 1 : u[i] = s[(k + 1) + i - 1]
  <2>1. k + 1 \in Nat \ {0} /\ k + 1 <= n + 1 /\ n <= n
    BY <1>1
  <2> QED
    BY <1>1, <2>1, PartStr
<1> HIDE DEF n, t, u
<1>4. Len(t) = k /\ \A i \in 1 .. k : t[i] = s[i]
  BY <1>2
<1>5. Len(u) = n - k /\ \A i \in 1 .. n - k : u[i] = s[k + i]
  <2>1. n - (k + 1) + 1 = n - k
    BY <1>1
  <2>2. \A i \in 1 .. n - k : (k + 1) + i - 1 = k + i
    BY <1>1
  <2> QED
    BY <1>3, <2>1, <2>2
<1> DEFINE v == t \o u
<1>6. /\ Str(v) /\ Len(v) = Len(t) + Len(u)
      /\ \A i \in 1 .. Len(t) : v[i] = t[i]
      /\ \A i \in 1 .. Len(u) : v[Len(t) + i] = u[i]
  <2>1. Str(t) /\ Str(u)
    BY <1>2, <1>3
  <2> QED
    BY <2>1, JoinStr
<1> HIDE DEF v
<1>7. Len(v) = n /\ k <= n
  BY <1>1, <1>4, <1>5, <1>6 DEF n
<1>8. \A i \in 1 .. n : v[i] = s[i]
  <2> SUFFICES ASSUME NEW i \in 1 .. n PROVE v[i] = s[i]
    OBVIOUS
  <2>1. CASE i <= k
    BY <1>4, <1>6, <2>1
  <2>2. CASE ~(i <= k)
    <3>1. i - k \in 1 .. n - k /\ k + (i - k) = i
      BY <1>1, <2>2
    <3> QED
      BY <1>4, <1>5, <1>6, <3>1
  <2> QED
    BY <2>1, <2>2
<1>9. v = s
  BY <1>6, <1>7, <1>8, SameStr DEF n
<1> QED
  BY <1>2, <1>3, <1>4, <1>5, <1>9 DEF n, t, u, v

(* What an append does to a string, under one name: Appended is cited where *)
(* the facts about the elements are wanted and the sequence itself is not.  *)
Appended(s, e) ==
  /\ Str(Append(s, e)) /\ Len(Append(s, e)) = Len(s) + 1
  /\ \A i \in 1 .. Len(s) : Append(s, e)[i] = s[i]
  /\ Append(s, e)[Len(s) + 1] = e

LEMMA InSeqWith ==
  ASSUME NEW s, Str(s), NEW e
  PROVE  \E S : s \in Seq(S) /\ e \in S
<1>1. PICK S : s \in Seq(S)
  BY StrIn
<1>2. S \subseteq S \cup {e}
  OBVIOUS
<1>3. s \in Seq(S \cup {e}) /\ e \in S \cup {e}
  BY <1>1, <1>2, SeqMonotonic
<1> QED
  BY <1>3

LEMMA AppendAdds ==
  ASSUME NEW s, Str(s), NEW e
  PROVE  Appended(s, e)
<1>1. PICK S : s \in Seq(S) /\ e \in S
  BY InSeqWith
<1>2. /\ Append(s, e) \in Seq(S) /\ Len(Append(s, e)) = Len(s) + 1
      /\ \A i \in 1 .. Len(s) : Append(s, e)[i] = s[i]
      /\ Append(s, e)[Len(s) + 1] = e
  BY <1>1, AppendProperties
<1>3. Str(Append(s, e))
  BY <1>2, SeqIsStr
<1> QED
  BY ONLY <1>2, <1>3, Zenon DEF Appended

LEMMA AppendStr ==
  ASSUME NEW s, Str(s), NEW e
  PROVE  /\ Str(<<e>>) /\ Len(<<e>>) = 1 /\ <<e>>[1] = e
         /\ Append(s, e) = s \o <<e>>
         /\ Str(Append(s, e)) /\ Len(Append(s, e)) = Len(s) + 1
         /\ \A i \in 1 .. Len(s) : Append(s, e)[i] = s[i]
         /\ Append(s, e)[Len(s) + 1] = e
<1>1. Str(<<e>>) /\ Len(<<e>>) = 1 /\ <<e>>[1] = e
  BY DEF Str
<1>2. PICK S : s \in Seq(S) /\ e \in S
  BY InSeqWith
<1>3. Append(s, e) = s \o <<e>>
  BY <1>2, AppendIsConcat
<1>4. Appended(s, e)
  BY AppendAdds, Zenon
<1> QED
  BY ONLY <1>1, <1>3, <1>4, Zenon DEF Appended

-----------------------------------------------------------------------------
(* Blocks.                                                                 *)

(* Where the i-th byte of block b is in the message. *)
At(k, b, i) == (b - 1) * k + i

LEMMA AtInside ==
  ASSUME NEW k \in Nat \ {0}, NEW n \in Nat, NEW b \in 1 .. n, NEW i \in 1 .. k
  PROVE  At(k, b, i) \in 1 .. k * n
<1>1. b - 1 \in Nat /\ b \in Nat /\ b <= n /\ k \in Nat
  OBVIOUS
<1>2. (b - 1) * k \in Nat /\ b * k = (b - 1) * k + k
  BY <1>1
<1>3. b * k <= k * n /\ k * n \in Nat
  BY <1>1, Times
<1> QED
  BY <1>2, <1>3 DEF At

LEMMA AtBehind ==
  ASSUME NEW k \in Nat \ {0}, NEW q \in Nat, NEW b \in Nat \ {0}, NEW i \in 1 .. k
  PROVE  At(k, q + b, i) = k * q + At(k, b, i)
<1>1. ((q + b) - 1) * k = k * q + (b - 1) * k
  OBVIOUS
<1>2. (b - 1) * k \in Nat /\ k * q \in Nat
  OBVIOUS
<1> QED
  BY <1>1, <1>2 DEF At

Chopped(x, k, s) ==
  /\ Str(x)
  /\ \A b \in 1 .. Len(x) :
       Str(x[b]) /\ Len(x[b]) = k /\ \A i \in 1 .. k : x[b][i] = s[At(k, b, i)]

LEMMA BlocksStr ==
  ASSUME NEW k \in Nat \ {0}, NEW s, Str(s), NEW n, n = Len(s) \div k
  PROVE  Chopped(Blocks(k, s), k, s) /\ Len(Blocks(k, s)) = n /\ n \in Nat
<1> DEFINE t == Blocks(k, s)
<1>1. Len(s) \in Nat
  BY DEF Str
<1>2. n \in Nat /\ Len(s) % k \in 0 .. k - 1 /\ Len(s) = k * n + (Len(s) % k)
  BY <1>1, Division
<1>3. t = [b \in 1 .. n |-> SubSeq(s, (b - 1) * k + 1, b * k)]
  BY DEF Blocks
<1> HIDE DEF t
<1>4. \A b \in 1 .. n : t[b] = SubSeq(s, (b - 1) * k + 1, b * k)
  BY <1>3
<1>5. t = [b \in 1 .. n |-> t[b]]
  BY <1>3, <1>4
<1>6. Str(t) /\ Len(t) = n
  BY <1>2, <1>5, IsStr
<1>7. ASSUME NEW b \in 1 .. n
      PROVE  Str(t[b]) /\ Len(t[b]) = k /\ \A i \in 1 .. k : t[b][i] = s[At(k, b, i)]
  <2> DEFINE c == (b - 1) * k
  <2>1. c \in Nat /\ b * k = c + k
    <3>1. b - 1 \in Nat
      BY <1>2
    <3>2. c \in Nat
      BY <3>1
    <3>3. b * k = (b - 1) * k + k
      BY <1>2
    <3> QED
      BY <3>2, <3>3
  <2>2. b * k <= k * n /\ k * n \in Nat
    <3>1. b \in Nat /\ b <= n /\ k \in Nat
      BY <1>2
    <3> QED
      BY <1>2, <3>1, Times
  <2>3. c + k <= Len(s)
    BY <1>2, <2>1, <2>2
  <2>4. t[b] = SubSeq(s, c + 1, c + k)
    BY <1>4, <2>1
  <2>5. \A i \in 1 .. k : At(k, b, i) = c + i
    BY DEF At
  <2> HIDE DEF c
  <2>6. c + 1 \in Nat \ {0} /\ c + k \in Nat /\ c + 1 <= (c + k) + 1
    BY <2>1
  <2>7. /\ Str(t[b]) /\ Len(t[b]) = (c + k) - (c + 1) + 1
        /\ \A i \in 1 .. (c + k) - (c + 1) + 1 : t[b][i] = s[(c + 1) + i - 1]
    BY <2>3, <2>4, <2>6, PartStr
  <2>8. (c + k) - (c + 1) + 1 = k /\ \A i \in 1 .. k : (c + 1) + i - 1 = c + i
    BY <2>1
  <2> QED
    BY <2>5, <2>7, <2>8
<1>8. Chopped(t, k, s)
  BY <1>6, <1>7 DEF Chopped
<1> QED
  BY <1>2, <1>6, <1>8 DEF t

(* They are determined by their number and their bytes. *)
LEMMA SameBlocks ==
  ASSUME NEW k \in Nat \ {0}, NEW s, NEW x, NEW y,
         Chopped(x, k, s), Chopped(y, k, s), Len(x) = Len(y)
  PROVE  x = y
<1>1. Str(x) /\ Str(y)
  BY DEF Chopped
<1>2. ASSUME NEW b \in 1 .. Len(x)
      PROVE  x[b] = y[b]
  <2>1. Str(x[b]) /\ Len(x[b]) = k /\ \A i \in 1 .. k : x[b][i] = s[At(k, b, i)]
    BY DEF Chopped
  <2>2. Str(y[b]) /\ Len(y[b]) = k /\ \A i \in 1 .. k : y[b][i] = s[At(k, b, i)]
    BY DEF Chopped
  <2>3. \A i \in 1 .. Len(x[b]) : x[b][i] = y[b][i]
    BY <2>1, <2>2
  <2> QED
    BY <2>1, <2>2, <2>3, SameStr
<1> QED
  BY <1>1, <1>2, SameStr

LEMMA ShortBlocks ==
  ASSUME NEW k \in Nat \ {0}, NEW s, Str(s), Len(s) < k
  PROVE  Blocks(k, s) = <<>>
<1>1. Len(s) \in Nat
  BY DEF Str
<1>2. Len(s) \div k = 0
  BY <1>1, Unique
<1>3. Chopped(Blocks(k, s), k, s) /\ Len(Blocks(k, s)) = 0
  BY <1>2, BlocksStr
<1>4. Str(Blocks(k, s))
  BY <1>3 DEF Chopped
<1> QED
  BY <1>3, <1>4, EmptyStr

LEMMA OneBlock ==
  ASSUME NEW k \in Nat \ {0}, NEW s, Str(s), Len(s) = k
  PROVE  Blocks(k, s) = <<s>>
<1>1. Len(s) \div k = 1
  <2>1. k * 1 + 0 = k /\ 0 \in 0 .. k - 1
    OBVIOUS
  <2>2. (k * 1 + 0) \div k = 1
    BY <2>1, Unique
  <2> QED
    BY <2>1, <2>2
<1>2. Chopped(Blocks(k, s), k, s) /\ Len(Blocks(k, s)) = 1
  BY <1>1, BlocksStr
<1>3. Str(<<s>>) /\ Len(<<s>>) = 1 /\ <<s>>[1] = s
  BY AppendStr, EmptyStr
<1>4. \A i \in 1 .. k : At(k, 1, i) = i
  BY DEF At
<1>5. \A b \in 1 .. Len(<<s>>) : b = 1
  BY <1>3
<1>6. Chopped(<<s>>, k, s)
  BY <1>3, <1>4, <1>5 DEF Chopped
<1> QED
  BY <1>2, <1>3, <1>6, SameBlocks

(* A message whose first part is whole blocks. *)
LEMMA BlocksJoin ==
  ASSUME NEW k \in Nat \ {0}, NEW s, NEW t, Str(s), Str(t), NEW q \in Nat, Len(s) = k * q
  PROVE  Blocks(k, s \o t) = Blocks(k, s) \o Blocks(k, t)
<1> DEFINE u == s \o t
           d == Len(t) \div k
           r == Len(t) % k
           x == Blocks(k, s)
           y == Blocks(k, t)
           z == Blocks(k, u)
<1>1. /\ Str(u) /\ Len(s) \in Nat /\ Len(t) \in Nat /\ Len(u) = Len(s) + Len(t)
      /\ \A i \in 1 .. Len(s) : u[i] = s[i]
      /\ \A i \in 1 .. Len(t) : u[Len(s) + i] = t[i]
  BY JoinStr
<1>2. d \in Nat /\ r \in 0 .. k - 1 /\ Len(t) = k * d + r
  BY <1>1, Division
<1> HIDE DEF u, r
<1>3. Chopped(x, k, s) /\ Len(x) = q
  <2>1. Len(s) = k * q + 0 /\ 0 \in 0 .. k - 1
    BY <1>1
  <2>2. Len(s) \div k = q
    BY <2>1, Unique
  <2> QED
    BY <2>2, BlocksStr
<1>4. Chopped(y, k, t) /\ Len(y) = d
  BY BlocksStr
<1> HIDE DEF d
<1>5. Chopped(z, k, u) /\ Len(z) = q + d
  <2>1. Len(u) = k * (q + d) + r
    <3>1. k * (q + d) = k * q + k * d
      BY <1>2
    <3> QED
      BY <1>1, <1>2, <3>1
  <2>2. q + d \in Nat
    BY <1>2
  <2>3. Len(u) \div k = q + d
    BY <1>2, <2>1, <2>2, Unique
  <2>4. Str(u)
    BY <1>1
  <2> QED
    BY <2>3, <2>4, BlocksStr
<1> HIDE DEF x, y, z
<1>6. Str(x) /\ Str(y)
  BY <1>3, <1>4 DEF Chopped
<1> DEFINE v == x \o y
<1>7. /\ Str(v) /\ Len(v) = q + d
      /\ \A b \in 1 .. q : v[b] = x[b]
      /\ \A b \in 1 .. d : v[q + b] = y[b]
  BY <1>3, <1>4, <1>6, JoinStr
<1> HIDE DEF v
<1>8. ASSUME NEW b \in 1 .. q + d
      PROVE  Str(v[b]) /\ Len(v[b]) = k /\ \A i \in 1 .. k : v[b][i] = u[At(k, b, i)]
  <2>1. CASE b <= q
    <3>1. b \in 1 .. q /\ v[b] = x[b]
      BY <1>7, <2>1
    <3>2. Str(x[b]) /\ Len(x[b]) = k /\ \A i \in 1 .. k : x[b][i] = s[At(k, b, i)]
      BY <1>3, <3>1 DEF Chopped
    <3>3. \A i \in 1 .. k : At(k, b, i) \in 1 .. Len(s)
      BY <3>1, AtInside
    <3>4. \A i \in 1 .. k : s[At(k, b, i)] = u[At(k, b, i)]
      BY <1>1, <3>3
    <3> QED
      BY <3>1, <3>2, <3>4
  <2>2. CASE ~(b <= q)
    <3> DEFINE c == b - q
    <3>1. c \in 1 .. d /\ b = q + c /\ c \in Nat \ {0}
      BY <1>2, <2>2
    <3> HIDE DEF c
    <3>2. v[b] = y[c]
      BY <1>7, <3>1
    <3>3. Str(y[c]) /\ Len(y[c]) = k /\ \A i \in 1 .. k : y[c][i] = t[At(k, c, i)]
      BY <1>4, <3>1 DEF Chopped
    <3>4. ASSUME NEW i \in 1 .. k
          PROVE  t[At(k, c, i)] = u[At(k, b, i)]
      <4>1. At(k, c, i) \in 1 .. k * d
        BY <1>2, <3>1, AtInside
      <4>2. At(k, c, i) \in 1 .. Len(t)
        BY <1>1, <1>2, <4>1
      <4>3. At(k, b, i) = Len(s) + At(k, c, i)
        BY <3>1, AtBehind
      <4> QED
        BY <1>1, <4>2, <4>3
    <3> QED
      BY <3>2, <3>3, <3>4
  <2> QED
    BY <2>1, <2>2
<1>9. Chopped(v, k, u)
  BY <1>7, <1>8 DEF Chopped
<1>10. z = v
  BY <1>5, <1>7, <1>9, SameBlocks
<1> QED
  BY <1>10 DEF x, y, z, u, v

(* What the loop over whole blocks makes of a chaining state. *)
LEMMA CompressedAppends ==
  ASSUME NEW s, NEW bs, Str(s), Str(bs)
  PROVE  Compressed(Append, s, bs) = s \o bs
<1> DEFINE n == Len(bs)
           Run(f) == f = [i \in 0 .. n |-> IF i = 0 THEN s ELSE Append(f[i - 1], bs[i])]
           w == [i \in 0 .. n |-> s \o SubSeq(bs, 1, i)]
<1>1. n \in Nat
  BY DEF Str
<1>2. \A i \in 0 .. n : /\ Str(SubSeq(bs, 1, i)) /\ Len(SubSeq(bs, 1, i)) = i
                        /\ \A j \in 1 .. i : SubSeq(bs, 1, i)[j] = bs[j]
  <2> SUFFICES ASSUME NEW i \in 0 .. n
               PROVE  /\ Str(SubSeq(bs, 1, i)) /\ Len(SubSeq(bs, 1, i)) = i
                      /\ \A j \in 1 .. i : SubSeq(bs, 1, i)[j] = bs[j]
    OBVIOUS
  <2>1. i \in Nat /\ i <= Len(bs)
    BY <1>1
  <2> QED
    BY <2>1, SplitStr
<1>3. SubSeq(bs, 1, 0) = <<>>
  BY <1>1, <1>2, EmptyStr
<1>4. SubSeq(bs, 1, n) = bs
  <2> DEFINE p == SubSeq(bs, 1, n)
  <2>1. Str(p) /\ Len(p) = Len(bs) /\ \A j \in 1 .. Len(p) : p[j] = bs[j]
    BY <1>1, <1>2
  <2> HIDE DEF p
  <2>2. p = bs
    BY <2>1, SameStr
  <2> QED
    BY <2>2 DEF p
<1>5. ASSUME NEW i \in 1 .. n
      PROVE  s \o SubSeq(bs, 1, i) = Append(s \o SubSeq(bs, 1, i - 1), bs[i])
  <2> DEFINE p == SubSeq(bs, 1, i - 1)
             p1 == SubSeq(bs, 1, i)
             e == bs[i]
  <2>1. i - 1 \in 0 .. n /\ i \in 0 .. n /\ (i - 1) + 1 = i
    BY <1>1
  <2>2. Str(p) /\ Len(p) = i - 1 /\ \A j \in 1 .. i - 1 : p[j] = bs[j]
    BY <1>2, <2>1
  <2>3. Str(p1) /\ Len(p1) = i /\ \A j \in 1 .. i : p1[j] = bs[j]
    BY <1>2, <2>1
  <2> HIDE DEF p, p1, e
  <2>4. /\ Str(Append(p, e)) /\ Len(Append(p, e)) = i
        /\ \A j \in 1 .. i - 1 : Append(p, e)[j] = p[j]
        /\ Append(p, e)[i] = e
    <3>1. Str(p) /\ Len(p) + 1 = i
      BY <2>1, <2>2
    <3>2. /\ Str(Append(p, e)) /\ Len(Append(p, e)) = Len(p) + 1
          /\ \A j \in 1 .. Len(p) : Append(p, e)[j] = p[j]
          /\ Append(p, e)[Len(p) + 1] = e
      <4>1. Appended(p, e)
        BY ONLY <3>1, AppendAdds, Zenon
      <4> QED
        BY ONLY <4>1, Zenon DEF Appended
    <3> QED
      BY <2>2, <3>1, <3>2
  <2>5. \A j \in 1 .. i : j = i \/ j \in 1 .. i - 1
    BY <1>1
  <2>6. p1 = Append(p, e)
    <3>1. \A j \in 1 .. Len(p1) : p1[j] = Append(p, e)[j]
      BY <2>2, <2>3, <2>4, <2>5 DEF e
    <3>2. Str(p1) /\ Str(Append(p, e)) /\ Len(p1) = Len(Append(p, e))
      BY <2>3, <2>4
    <3> QED
      BY <3>1, <3>2, SameStr
  <2>7. Append(p, e) = p \o <<e>> /\ Str(<<e>>)
    BY <2>2, AppendStr
  <2>8. (s \o p) \o <<e>> = s \o (p \o <<e>>)
    <3>1. Str(s) /\ Str(p) /\ Str(<<e>>)
      BY <2>2, <2>7
    <3>2. Joined(s, p, <<e>>)
      BY <3>1, JoinAssociates, Zenon
    <3> QED
      BY <3>2, Zenon DEF Joined
  <2>9. Append(s \o p, e) = (s \o p) \o <<e>>
    <3>1. Str(s \o p)
      BY <2>2, JoinStr
    <3> QED
      BY <3>1, AppendStr
  <2> QED
    BY <2>6, <2>7, <2>8, <2>9 DEF p, p1, e
<1>6. s \o SubSeq(bs, 1, 0) = s
  BY <1>3, EmptyStr
<1>7. Run(w)
  <2>1. \A i \in 0 .. n : w[i] = IF i = 0 THEN s ELSE Append(w[i - 1], bs[i])
    <3> SUFFICES ASSUME NEW i \in 0 .. n
                 PROVE  w[i] = IF i = 0 THEN s ELSE Append(w[i - 1], bs[i])
      OBVIOUS
    <3>1. CASE i = 0
      BY <1>6, <3>1
    <3>2. CASE i # 0
      <4>1. i \in 1 .. n /\ i - 1 \in 0 .. n
        BY <1>1, <3>2
      <4> HIDE DEF n
      <4>2. w[i] = s \o SubSeq(bs, 1, i) /\ w[i - 1] = s \o SubSeq(bs, 1, i - 1)
        BY <4>1
      <4> QED
        BY <1>5, <3>2, <4>1, <4>2
    <3> QED
      BY <3>1, <3>2
  <2>2. w = [i \in 0 .. n |-> w[i]]
    OBVIOUS
  <2> HIDE DEF w
  <2> QED
    BY <2>1, <2>2
<1>8. Compressed(Append, s, bs) = (CHOOSE f : Run(f))[n]
  BY DEF Compressed
<1> DEFINE after == CHOOSE f : Run(f)
<1> HIDE DEF w, Run
<1>9. Run(after)
  BY <1>7
<1> HIDE DEF after
<1>10. \A i \in 0 .. n : after[i] = IF i = 0 THEN s ELSE Append(after[i - 1], bs[i])
  BY <1>9 DEF Run
<1> DEFINE S == {i \in Nat : i <= n => after[i] = s \o SubSeq(bs, 1, i)}
<1>11. 0 \in S
  BY <1>1, <1>6, <1>10
<1>12. ASSUME NEW i \in Nat, i \in S
       PROVE  i + 1 \in S
  <2> SUFFICES ASSUME i + 1 <= n PROVE after[i + 1] = s \o SubSeq(bs, 1, i + 1)
    OBVIOUS
  <2>1. i + 1 \in 1 .. n /\ i + 1 \in 0 .. n /\ i + 1 # 0 /\ (i + 1) - 1 = i /\ i <= n
    BY <1>1
  <2>2. after[i + 1] = Append(after[(i + 1) - 1], bs[i + 1])
    BY <1>10, <2>1
  <2>3. after[i] = s \o SubSeq(bs, 1, i)
    BY <1>12, <2>1
  <2>4. s \o SubSeq(bs, 1, i + 1) = Append(s \o SubSeq(bs, 1, (i + 1) - 1), bs[i + 1])
    BY <1>5, <2>1
  <2> QED
    BY <2>1, <2>2, <2>3, <2>4
<1> HIDE DEF S
<1>13. n \in S
  BY <1>1, <1>11, <1>12, NumberInduction
<1>14. after[n] = s \o SubSeq(bs, 1, n)
  BY <1>1, <1>13 DEF S
<1> QED
  BY <1>4, <1>8, <1>14 DEF after

-----------------------------------------------------------------------------
(* The two words that count.                                               *)

Counts(g, total, n) ==
  /\ total[1] \in 0 .. g.word - 1
  /\ total[2] \in 0 .. g.word - 1
  /\ n = total[2] * g.word + total[1]

LEMMA CountedAdds ==
  ASSUME NEW g, FitsTotals(g), NEW total, NEW n \in Nat, Counts(g, total, n),
         NEW l \in Nat, l < g.word, n + l < g.word * g.word
  PROVE  Counts(g, Counted(g, total, l), n + l)
<1> DEFINE w == g.word
           a == total[1]
           b == total[2]
           low == (a + l) % w
           new == Counted(g, total, l)
<1>1. /\ w \in Nat \ {0} /\ a \in 0 .. w - 1 /\ b \in 0 .. w - 1 /\ n = b * w + a
      /\ l < w /\ n + l < w * w
  BY DEF FitsTotals, Counts
<1>2. l % w = l
  <2>1. w * 0 + l = l /\ l \in 0 .. w - 1
    BY <1>1
  <2>2. (w * 0 + l) % w = l
    BY <1>1, <2>1, Unique
  <2> QED
    BY <2>1, <2>2
<1>3. new[1] = low /\ new[2] = IF low < l THEN (b + 1) % w ELSE b
  BY <1>2 DEF Counted
<1> HIDE DEF w, a, b, new
<1>4. CASE a + l < w
  <2>1. low = a + l
    <3>1. w * 0 + (a + l) = a + l /\ a + l \in 0 .. w - 1
      BY <1>1, <1>4
    <3>2. (w * 0 + (a + l)) % w = a + l
      BY <1>1, <3>1, Unique
    <3> QED
      BY <3>1, <3>2
  <2>2. ~(low < l)
    BY <1>1, <2>1
  <2>3. new[1] = a + l /\ new[2] = b
    BY <1>3, <2>1, <2>2
  <2>4. n + l = b * w + (a + l)
    BY <1>1
  <2>5. a + l \in 0 .. w - 1
    BY <1>1, <1>4
  <2> QED
    BY <1>1, <2>3, <2>4, <2>5 DEF Counts, new, w
<1>5. CASE ~(a + l < w)
  <2> DEFINE c == a + l - w
  <2>1. c \in 0 .. w - 1 /\ a + l = w * 1 + c /\ c < l
    BY <1>1, <1>5
  <2>2. low = c
    <3> HIDE DEF c
    <3>1. (w * 1 + c) % w = c
      BY <1>1, <2>1, Unique
    <3> QED
      BY <2>1, <3>1
  <2>3. b + 1 \in 0 .. w - 1
    <3>1. CASE b + 1 < w
      BY <1>1, <3>1
    <3>2. CASE ~(b + 1 < w)
      <4>1. b = w - 1
        BY <1>1, <3>2
      <4>2. b * w = w * w - w
        BY <1>1, <4>1
      <4>3. w * w \in Nat
        BY <1>1
      <4> HIDE DEF c
      <4>4. b * w + (a + l) >= w * w
        BY <1>1, <2>1, <4>2, <4>3
      <4>5. b * w \in Int
        BY <1>1
      <4> QED
        BY <1>1, <4>3, <4>4, <4>5
    <3> QED
      BY <3>1, <3>2
  <2>4. (b + 1) % w = b + 1
    <3>1. w * 0 + (b + 1) = b + 1
      BY <1>1
    <3>2. (w * 0 + (b + 1)) % w = b + 1
      BY <1>1, <2>3, Unique
    <3> QED
      BY <3>1, <3>2
  <2>5. new[1] = c /\ new[2] = b + 1
    BY <1>3, <2>1, <2>2, <2>4
  <2>6. n + l = (b + 1) * w + c
    <3>1. (b + 1) * w = b * w + w
      BY <1>1
    <3>2. b * w \in Nat
      BY <1>1
    <3> QED
      BY <1>1, <2>1, <3>1, <3>2
  <2> HIDE DEF c
  <2> QED
    BY <2>1, <2>3, <2>5, <2>6 DEF Counts, new, w
<1> QED
  BY <1>4, <1>5

(* The low bits of the first word count the bytes of the last block. *)
LEMMA CountsRest ==
  ASSUME NEW g, FitsTotals(g), NEW total, NEW n \in Nat, Counts(g, total, n),
         NEW q \in Nat, NEW r \in 0 .. g.block - 1, n = g.block * q + r
  PROVE  total[1] % g.block = r
<1> DEFINE w == g.word
           k == g.block
           a == total[1]
           b == total[2]
           c == w \div k
           d == a \div k
           e == a % k
<1>1. /\ w \in Nat \ {0} /\ k \in Nat \ {0} /\ w % k = 0
      /\ a \in 0 .. w - 1 /\ b \in 0 .. w - 1 /\ n = b * w + a
  BY DEF FitsTotals, Counts
<1> HIDE DEF w, k, a, b
<1>2. c \in Nat /\ w = k * c
  <2>1. w \in Nat /\ k \in Nat \ {0}
    BY <1>1
  <2>2. c \in Nat /\ w = k * c + (w % k)
    BY <2>1, Division
  <2> HIDE DEF c
  <2>3. k * c \in Nat
    BY <2>1, <2>2
  <2> QED
    BY <1>1, <2>2, <2>3
<1>3. d \in Nat /\ e \in 0 .. k - 1 /\ a = k * d + e
  <2>1. a \in Nat /\ k \in Nat \ {0}
    BY <1>1
  <2> QED
    BY <2>1, Division
<1> HIDE DEF c, d, e
<1>4. n = k * (b * c + d) + e
  <2>1. b * w = k * (b * c)
    BY <1>1, <1>2
  <2>2. b * c \in Nat
    BY <1>1, <1>2
  <2>3. k * (b * c + d) = k * (b * c) + k * d
    BY <1>1, <1>3, <2>2
  <2>4. k * (b * c) \in Nat /\ k * d \in Nat
    BY <1>1, <1>3, <2>2
  <2> QED
    BY <1>1, <1>3, <2>1, <2>3, <2>4
<1>5. n % k = e
  <2>1. b * c + d \in Nat
    BY <1>1, <1>2, <1>3
  <2> QED
    BY <1>1, <1>3, <1>4, <2>1, Unique
<1>6. n % k = r
  <2>1. r \in 0 .. k - 1 /\ n = k * q + r
    BY DEF k
  <2>2. k \in Nat \ {0}
    BY <1>1
  <2>3. (k * q + r) % k = r
    BY <2>1, <2>2, Unique
  <2> QED
    BY <2>1, <2>3
<1> QED
  BY <1>5, <1>6 DEF a, e, k

-----------------------------------------------------------------------------
(* Buffering.                                                              *)

LEMMA CopiedStr ==
  ASSUME NEW s, Str(s), NEW p \in Nat, NEW t, Str(t), p + Len(t) <= Len(s)
  PROVE  /\ Str(Copied(s, p, t)) /\ Len(Copied(s, p, t)) = Len(s)
         /\ \A i \in 1 .. p : Copied(s, p, t)[i] = s[i]
         /\ \A i \in 1 .. Len(t) : Copied(s, p, t)[p + i] = t[i]
<1> DEFINE u == Copied(s, p, t)
           n == Len(s)
<1>1. n \in Nat /\ Len(t) \in Nat /\ DOMAIN s = 1 .. n
  BY DEF Str
<1>2. u = [i \in 1 .. n |-> IF i \in p + 1 .. p + Len(t) THEN t[i - p] ELSE s[i]]
  BY <1>1 DEF Copied
<1> HIDE DEF u, n
<1>3. \A i \in 1 .. n : u[i] = IF i \in p + 1 .. p + Len(t) THEN t[i - p] ELSE s[i]
  BY <1>2
<1>4. u = [i \in 1 .. n |-> u[i]]
  BY <1>2, <1>3
<1>5. Str(u) /\ Len(u) = n
  BY <1>1, <1>4, IsStr
<1>6. \A i \in 1 .. p : u[i] = s[i]
  <2> SUFFICES ASSUME NEW i \in 1 .. p PROVE u[i] = s[i]
    OBVIOUS
  <2>1. i \in 1 .. n /\ i \notin p + 1 .. p + Len(t)
    BY <1>1 DEF n
  <2> QED
    BY <1>3, <2>1
<1>7. \A i \in 1 .. Len(t) : u[p + i] = t[i]
  <2> SUFFICES ASSUME NEW i \in 1 .. Len(t) PROVE u[p + i] = t[i]
    OBVIOUS
  <2>1. p + i \in 1 .. n /\ p + i \in p + 1 .. p + Len(t) /\ (p + i) - p = i
    BY <1>1 DEF n
  <2> QED
    BY <1>3, <2>1
<1> QED
  BY <1>5, <1>6, <1>7 DEF u, n

-----------------------------------------------------------------------------
(* Numbers of whole blocks.                                                *)

Multiple(k, n) == \E q \in Nat : n = k * q
Remainder(k, n) == n % k
Largest(k, n) == (n \div k) * k
Behind(k, s) == SubSeq(s, Largest(k, Len(s)) + 1, Len(s))

LEMMA Remains ==
  ASSUME NEW k \in Nat \ {0}, NEW a, Multiple(k, a), NEW r \in Nat, r < k
  PROVE  Remainder(k, a + r) = r
<1>1. PICK q \in Nat : a = k * q
  BY DEF Multiple
<1>2. (k * q + r) % k = r
  BY Unique
<1> QED
  BY <1>1, <1>2 DEF Remainder

LEMMA LargestMultiple ==
  ASSUME NEW k \in Nat \ {0}, NEW n \in Nat
  PROVE  /\ Largest(k, n) \in Nat /\ Largest(k, n) <= n /\ n - Largest(k, n) < k
         /\ Multiple(k, Largest(k, n))
         /\ Remainder(k, n) = n - Largest(k, n)
<1> DEFINE q == n \div k
           r == n % k
<1>1. q \in Nat /\ r \in 0 .. k - 1 /\ n = k * q + r
  BY Division
<1> HIDE DEF q, r
<1>2. k * q \in Nat /\ q * k = k * q
  BY <1>1
<1>3. Largest(k, n) = k * q
  BY <1>2 DEF Largest, q
<1>4. Multiple(k, Largest(k, n))
  BY <1>1, <1>3 DEF Multiple
<1>5. Remainder(k, n) = r
  BY DEF Remainder, r
<1> DEFINE d == Largest(k, n)
<1>6. d \in Nat /\ n = d + r
  BY <1>1, <1>2, <1>3
<1> HIDE DEF d
<1>7. d <= n /\ n - d = r /\ r < k
  BY <1>1, <1>6
<1> QED
  BY <1>4, <1>5, <1>6, <1>7 DEF d

LEMMA NoMultiple ==
  ASSUME NEW k \in Nat \ {0}, NEW n \in Nat, n < k
  PROVE  Largest(k, n) = 0 /\ Remainder(k, n) = n
<1>1. n \in 0 .. k - 1 /\ k * 0 + n = n
  OBVIOUS
<1>2. (k * 0 + n) \div k = 0 /\ (k * 0 + n) % k = n
  BY <1>1, Unique
<1> QED
  BY <1>1, <1>2 DEF Largest, Remainder

LEMMA MultiplesAdd ==
  ASSUME NEW k \in Nat \ {0}, NEW a, NEW b, Multiple(k, a), Multiple(k, b)
  PROVE  Multiple(k, a + b) /\ a \in Nat /\ b \in Nat
<1>1. PICK q \in Nat, r \in Nat : a = k * q /\ b = k * r
  BY DEF Multiple
<1>2. k * (q + r) = k * q + k * r /\ k * q \in Nat /\ k * r \in Nat
  OBVIOUS
<1>3. q + r \in Nat /\ a + b = k * (q + r)
  BY <1>1, <1>2
<1> QED
  BY <1>1, <1>2, <1>3 DEF Multiple

LEMMA OneMultiple ==
  ASSUME NEW k \in Nat \ {0}
  PROVE  Multiple(k, k) /\ Multiple(k, 0)
<1>1. k = k * 1 /\ 0 = k * 0
  OBVIOUS
<1> QED
  BY <1>1 DEF Multiple

LEMMA MultipleJoins ==
  ASSUME NEW k \in Nat \ {0}, NEW s, NEW t, Str(s), Str(t), Multiple(k, Len(s))
  PROVE  Blocks(k, s \o t) = Blocks(k, s) \o Blocks(k, t)
<1>1. PICK q \in Nat : Len(s) = k * q
  BY DEF Multiple
<1> QED
  BY <1>1, BlocksJoin

LEMMA BlocksAreStr ==
  ASSUME NEW k \in Nat \ {0}, NEW s, Str(s)
  PROVE  Str(Blocks(k, s))
<1>1. Chopped(Blocks(k, s), k, s)
  BY BlocksStr
<1> QED
  BY <1>1 DEF Chopped

-----------------------------------------------------------------------------
(* What a context holds of a message: the blocks that were compressed since*)
(* s0, and the bytes that lie in the buffer.                               *)

Held(k, chain, buffer, s0, whole, part) ==
  /\ Str(whole) /\ Str(part)
  /\ Multiple(k, Len(whole)) /\ Len(part) < k
  /\ chain = s0 \o Blocks(k, whole)
  /\ \A i \in 1 .. Len(part) : buffer[i] = part[i]

Buffered(k, chain, buffer, s0, m) ==
  \E whole, part : m = whole \o part /\ Held(k, chain, buffer, s0, whole, part)

(* How much of the message lies in the buffer. *)
LEMMA HeldRest ==
  ASSUME NEW k \in Nat \ {0}, NEW chain, NEW buffer, NEW s0, NEW whole, NEW part,
         Held(k, chain, buffer, s0, whole, part)
  PROVE  /\ Len(part) \in Nat /\ Len(part) < k
         /\ Str(whole \o part) /\ Len(whole \o part) \in Nat
         /\ Remainder(k, Len(whole \o part)) = Len(part)
<1>1. Str(whole) /\ Str(part) /\ Multiple(k, Len(whole)) /\ Len(part) < k
  BY DEF Held
<1>2. /\ Str(whole \o part) /\ Len(whole \o part) = Len(whole) + Len(part)
      /\ Len(part) \in Nat /\ Len(whole) \in Nat
  BY <1>1, JoinStr
<1>3. Remainder(k, Len(whole) + Len(part)) = Len(part)
  BY <1>1, <1>2, Remains
<1> QED
  BY <1>1, <1>2, <1>3

(* What is copied behind the bytes in the buffer joins them. *)
LEMMA Fills ==
  ASSUME NEW part, Str(part), NEW t, Str(t), NEW buffer, Str(buffer),
         Len(part) + Len(t) <= Len(buffer),
         \A i \in 1 .. Len(part) : buffer[i] = part[i]
  PROVE  /\ Str(Copied(buffer, Len(part), t))
         /\ Len(Copied(buffer, Len(part), t)) = Len(buffer)
         /\ Str(part \o t) /\ Len(part \o t) = Len(part) + Len(t)
         /\ \A i \in 1 .. Len(part \o t) : Copied(buffer, Len(part), t)[i] = (part \o t)[i]
<1> DEFINE p == Len(part)
           u == Copied(buffer, p, t)
           v == part \o t
<1>1. p \in Nat /\ Len(t) \in Nat
  BY DEF Str
<1>2. /\ Str(v) /\ Len(v) = p + Len(t)
      /\ \A i \in 1 .. p : v[i] = part[i]
      /\ \A i \in 1 .. Len(t) : v[p + i] = t[i]
  BY JoinStr
<1>3. /\ Str(u) /\ Len(u) = Len(buffer)
      /\ \A i \in 1 .. p : u[i] = buffer[i]
      /\ \A i \in 1 .. Len(t) : u[p + i] = t[i]
  BY <1>1, CopiedStr
<1> HIDE DEF u, v
<1>4. ASSUME NEW i \in 1 .. p + Len(t)
      PROVE  u[i] = v[i]
  <2>1. CASE i <= p
    <3>1. i \in 1 .. p
      BY <1>1, <2>1
    <3> QED
      BY <1>2, <1>3, <3>1
  <2>2. CASE ~(i <= p)
    <3>1. i - p \in 1 .. Len(t) /\ p + (i - p) = i
      BY <1>1, <2>2
    <3>2. u[p + (i - p)] = t[i - p] /\ v[p + (i - p)] = t[i - p]
      BY <1>2, <1>3, <3>1
    <3> QED
      BY <3>1, <3>2
  <2> QED
    BY <2>1, <2>2
<1> QED
  BY <1>2, <1>3, <1>4 DEF u, v, p

(* A buffer that is filled up is compressed as one more block. *)
LEMMA FillsUp ==
  ASSUME NEW k \in Nat \ {0}, NEW chain, NEW buffer, NEW s0, Str(s0), NEW whole, NEW part,
         Held(k, chain, buffer, s0, whole, part), Str(buffer), Len(buffer) = k,
         NEW head, Str(head), Len(part) + Len(head) = k
  PROVE  LET full == Copied(buffer, Len(part), head) IN
         /\ Str(full) /\ Len(full) = k /\ full = part \o head
         /\ Held(k, Append(chain, full), full, s0, whole \o full, <<>>)
<1> DEFINE full == Copied(buffer, Len(part), head)
           u == part \o head
           x == Blocks(k, whole)
           y == Blocks(k, whole \o full)
<1>1. /\ Str(whole) /\ Str(part) /\ Multiple(k, Len(whole)) /\ chain = s0 \o x
      /\ \A i \in 1 .. Len(part) : buffer[i] = part[i]
  BY DEF Held
<1>2. /\ Str(full) /\ Len(full) = k
      /\ Str(u) /\ Len(u) = k
      /\ \A i \in 1 .. k : full[i] = u[i]
  <2>1. Len(part) + Len(head) <= Len(buffer)
    BY DEF Str
  <2>2. /\ Str(full) /\ Len(full) = Len(buffer)
        /\ Str(u) /\ Len(u) = Len(part) + Len(head)
        /\ \A i \in 1 .. Len(u) : full[i] = u[i]
    BY <1>1, <2>1, Fills
  <2> QED
    BY <2>2
<1> HIDE DEF u, x, y, full
<1>3. full = u
  <2>1. \A i \in 1 .. Len(full) : full[i] = u[i]
    BY <1>2
  <2> QED
    BY <1>2, <2>1, SameStr
<1>4. /\ Str(whole \o full) /\ Multiple(k, Len(whole \o full))
  <2>1. Str(whole \o full) /\ Len(whole \o full) = Len(whole) + Len(full)
    BY <1>1, <1>2, JoinStr
  <2>2. Multiple(k, Len(whole) + k)
    BY <1>1, OneMultiple, MultiplesAdd
  <2> QED
    BY <1>2, <2>1, <2>2
<1>5. Str(x) /\ Str(y)
  BY <1>1, <1>4, BlocksAreStr DEF x, y
<1>6. y = x \o <<full>>
  <2>1. Blocks(k, full) = <<full>>
    BY <1>2, OneBlock
  <2>2. y = x \o Blocks(k, full)
    BY <1>1, <1>2, MultipleJoins DEF x, y
  <2> QED
    BY <2>1, <2>2
<1>7. Append(chain, full) = s0 \o y
  <2>1. Str(s0 \o x)
    BY <1>5, JoinStr
  <2>2. Append(s0 \o x, full) = (s0 \o x) \o <<full>> /\ Str(<<full>>)
    BY <2>1, AppendStr
  <2>3. (s0 \o x) \o <<full>> = s0 \o (x \o <<full>>)
    <3>1. Str(s0) /\ Str(x) /\ Str(<<full>>)
      BY <1>5, <2>2
    <3>2. Joined(s0, x, <<full>>)
      BY <3>1, JoinAssociates, Zenon
    <3> QED
      BY <3>2, Zenon DEF Joined
  <2> QED
    BY <1>1, <1>6, <2>2, <2>3
<1>8. Held(k, Append(chain, full), full, s0, whole \o full, <<>>)
  <2>1. \A i \in 1 .. Len(<<>>) : full[i] = <<>>[i]
    OBVIOUS
  <2>2. Str(<<>>) /\ Len(<<>>) < k
    BY EmptyStr
  <2> QED
    BY <1>4, <1>7, <2>1, <2>2 DEF Held, y
<1> QED
  BY <1>2, <1>3, <1>8 DEF u, full

(* An input that leaves room in the buffer waits there. *)
LEMMA TakesLittle ==
  ASSUME NEW k \in Nat \ {0}, NEW chain, NEW buffer, NEW s0, NEW whole, NEW part,
         Held(k, chain, buffer, s0, whole, part), Str(buffer), Len(buffer) = k,
         NEW input, Str(input), Len(part) + Len(input) < k,
         NEW t, t = Copied(buffer, Len(part), input)
  PROVE  /\ Str(t) /\ Len(t) = k
         /\ Held(k, chain, t, s0, whole, part \o input)
<1> DEFINE u == part \o input
<1>1. /\ Str(whole) /\ Str(part) /\ Multiple(k, Len(whole))
      /\ chain = s0 \o Blocks(k, whole)
      /\ \A i \in 1 .. Len(part) : buffer[i] = part[i]
  BY DEF Held
<1>2. /\ Str(t) /\ Len(t) = k
      /\ Str(u) /\ Len(u) = Len(part) + Len(input)
      /\ \A i \in 1 .. Len(u) : t[i] = u[i]
  <2>1. Len(part) + Len(input) <= Len(buffer)
    BY DEF Str
  <2>2. /\ Str(t) /\ Len(t) = Len(buffer)
        /\ Str(u) /\ Len(u) = Len(part) + Len(input)
        /\ \A i \in 1 .. Len(u) : t[i] = u[i]
    BY <1>1, <2>1, Fills
  <2> QED
    BY <2>2
<1> HIDE DEF u
<1>3. Held(k, chain, t, s0, whole, u)
  BY <1>1, <1>2 DEF Held
<1> QED
  BY <1>2, <1>3 DEF u

(* Behind whole blocks, the blocks of the input are compressed, and what  *)
(* remains of it waits in the buffer.                                     *)
LEMMA TakesRest ==
  ASSUME NEW k \in Nat \ {0}, NEW chain, NEW buffer, NEW s0, Str(s0), NEW whole,
         Held(k, chain, buffer, s0, whole, <<>>), Str(buffer), Len(buffer) = k,
         NEW rest, Str(rest)
  PROVE  /\ Str(Copied(buffer, 0, Behind(k, rest)))
         /\ Len(Copied(buffer, 0, Behind(k, rest))) = k
         /\ Buffered(k, chain \o Blocks(k, rest), Copied(buffer, 0, Behind(k, rest)), s0,
                     whole \o rest)
<1> DEFINE n == Len(rest)
           d == Largest(k, n)
           b == SubSeq(rest, d + 1, n)
           t == Copied(buffer, 0, b)
           a == SubSeq(rest, 1, d)
           w == whole \o a
           x == Blocks(k, whole)
           y == Blocks(k, a)
           z == Blocks(k, w)
           new == chain \o Blocks(k, rest)
<1>1. n \in Nat /\ Str(whole) /\ Multiple(k, Len(whole)) /\ chain = s0 \o x
  BY DEF Held, Str
<1>2. d \in Nat /\ d <= n /\ n - d < k /\ Multiple(k, d)
  BY <1>1, LargestMultiple
<1>3. /\ Str(a) /\ Len(a) = d
      /\ Str(b) /\ Len(b) = n - d
      /\ rest = a \o b
  <2> HIDE DEF d
  <2> QED
    BY <1>2, SplitStr
<1> HIDE DEF n, d, a, b, t, w, x, y, z
<1>4. /\ Str(w) /\ Multiple(k, Len(w)) /\ z = x \o y
  <2>1. Str(w) /\ Len(w) = Len(whole) + Len(a)
    BY <1>1, <1>3, JoinStr DEF w
  <2>2. Multiple(k, Len(whole) + d)
    BY <1>1, <1>2, MultiplesAdd
  <2>3. z = x \o y
    BY <1>1, <1>3, MultipleJoins DEF w, x, y, z
  <2> QED
    BY <1>3, <2>1, <2>2, <2>3
<1>5. Str(x) /\ Str(y)
  BY <1>1, <1>3, BlocksAreStr DEF x, y
<1>6. Blocks(k, rest) = y
  <2>1. Str(a) /\ Str(b) /\ Multiple(k, Len(a)) /\ Len(b) < k
    BY <1>2, <1>3
  <2> USE DEF y
  <2>2. Blocks(k, a \o b) = y \o Blocks(k, b)
    BY <2>1, MultipleJoins
  <2>3. Blocks(k, b) = <<>>
    BY <2>1, ShortBlocks
  <2>4. y \o <<>> = y
    BY <1>5, EmptyStr
  <2> QED
    BY <1>3, <2>2, <2>3, <2>4
<1>7. new = s0 \o z
  <2>1. (s0 \o x) \o y = s0 \o (x \o y)
    <3>1. Str(s0) /\ Str(x) /\ Str(y)
      BY <1>5
    <3>2. Joined(s0, x, y)
      BY <3>1, JoinAssociates, Zenon
    <3> QED
      BY <3>2, Zenon DEF Joined
  <2> QED
    BY <1>1, <1>4, <1>6, <2>1
<1>8. /\ Str(t) /\ Len(t) = k
      /\ \A i \in 1 .. Len(b) : t[i] = b[i]
  <2>1. 0 + Len(b) <= Len(buffer) /\ Len(b) \in Nat
    BY <1>1, <1>2, <1>3
  <2>2. /\ Str(t) /\ Len(t) = Len(buffer)
        /\ \A i \in 1 .. Len(b) : t[0 + i] = b[i]
    BY <1>3, <2>1, CopiedStr DEF t
  <2>3. \A i \in 1 .. Len(b) : 0 + i = i
    BY <2>1
  <2> QED
    BY <2>2, <2>3
<1>9. w \o b = whole \o rest
  <2>1. (whole \o a) \o b = whole \o (a \o b)
    <3>1. Str(whole) /\ Str(a) /\ Str(b)
      BY <1>1, <1>3
    <3>2. Joined(whole, a, b)
      BY <3>1, JoinAssociates, Zenon
    <3> QED
      BY <3>2, Zenon DEF Joined
  <2> QED
    BY <1>3, <2>1 DEF w
<1>10. Len(b) < k
  BY <1>2, <1>3
<1> HIDE DEF new
<1>11. Held(k, new, t, s0, w, b)
  BY <1>3, <1>4, <1>7, <1>8, <1>10 DEF Held, z
<1>12. Buffered(k, new, t, s0, whole \o rest)
  BY <1>9, <1>11 DEF Buffered
<1>13. t = Copied(buffer, 0, Behind(k, rest))
  BY DEF t, b, d, n, Behind
<1> QED
  BY <1>8, <1>12, <1>13 DEF new

(* An input that fills the buffer up, and goes on. *)
LEMMA TakesJoined ==
  ASSUME NEW k \in Nat \ {0}, NEW chain, NEW buffer, NEW s0, Str(s0), NEW m, NEW input,
         Buffered(k, chain, buffer, s0, m), Str(buffer), Len(buffer) = k,
         Str(input), Len(input) >= k - Remainder(k, Len(m))
  PROVE  LET left == Remainder(k, Len(m))
             fill == k - left
             full == Copied(buffer, left, SubSeq(input, 1, fill))
             rest == SubSeq(input, fill + 1, Len(input))
             t    == Copied(full, 0, Behind(k, rest))
         IN  /\ Buffered(k, Append(chain, full) \o Blocks(k, rest), t, s0, m \o input)
             /\ Str(t) /\ Len(t) = k
<1> DEFINE left == Remainder(k, Len(m))
           fill == k - left
           head == SubSeq(input, 1, fill)
           full == Copied(buffer, left, head)
           rest == SubSeq(input, fill + 1, Len(input))
           t    == Copied(full, 0, Behind(k, rest))
           new  == Append(chain, full) \o Blocks(k, rest)
<1>1. PICK whole, part : m = whole \o part /\ Held(k, chain, buffer, s0, whole, part)
  BY DEF Buffered
<1>2. Len(part) = left /\ left \in Nat /\ left < k
  BY <1>1, HeldRest
<1> HIDE DEF left
<1>3. Len(input) >= fill
  BY DEF left
<1>4. /\ Str(head) /\ Len(head) = fill /\ Str(rest) /\ input = head \o rest
  <2>1. fill \in Nat /\ fill <= Len(input)
    BY <1>2, <1>3 DEF Str
  <2> HIDE DEF fill
  <2> QED
    BY <2>1, SplitStr
<1>5. Len(part) + Len(head) = k
  BY <1>2, <1>4
<1> HIDE DEF fill, head, rest
<1>6. /\ Str(full) /\ Len(full) = k /\ full = part \o head
      /\ Held(k, Append(chain, full), full, s0, whole \o full, <<>>)
  <2>1. full = Copied(buffer, Len(part), head) /\ Held(k, chain, buffer, s0, whole, part)
    BY <1>1, <1>2
  <2> HIDE DEF full
  <2>2. LET u == Copied(buffer, Len(part), head) IN
        /\ Str(u) /\ Len(u) = k /\ u = part \o head
        /\ Held(k, Append(chain, u), u, s0, whole \o u, <<>>)
    BY <1>4, <1>5, <2>1, FillsUp
  <2> QED
    BY <2>1, <2>2
<1> HIDE DEF full
<1> DEFINE w == whole \o full
<1>7. m \o input = w \o rest
  <2>1. Str(whole) /\ Str(part) /\ Str(input)
    BY <1>1 DEF Held
  <2>2. (whole \o part) \o input = whole \o (part \o input)
    <3>1. Joined(whole, part, input)
      BY <2>1, JoinAssociates, Zenon
    <3> QED
      BY <3>1, Zenon DEF Joined
  <2>3. (part \o head) \o rest = part \o (head \o rest)
    <3>1. Str(part) /\ Str(head) /\ Str(rest)
      BY <1>4, <2>1
    <3>2. Joined(part, head, rest)
      BY <3>1, JoinAssociates, Zenon
    <3> QED
      BY <3>2, Zenon DEF Joined
  <2>4. (whole \o full) \o rest = whole \o (full \o rest)
    <3>1. Str(whole) /\ Str(full) /\ Str(rest)
      BY <1>4, <1>6, <2>1
    <3>2. Joined(whole, full, rest)
      BY <3>1, JoinAssociates, Zenon
    <3> QED
      BY <3>2, Zenon DEF Joined
  <2> QED
    BY <1>1, <1>4, <1>6, <2>2, <2>3, <2>4
<1> HIDE DEF w
<1>8. Str(t) /\ Len(t) = k /\ Buffered(k, new, t, s0, w \o rest)
  <2>1. Held(k, Append(chain, full), full, s0, w, <<>>)
    BY <1>6 DEF w
  <2>2. Str(full) /\ Len(full) = k /\ Str(rest)
    BY <1>4, <1>6
  <2> DEFINE c == Append(chain, full)
  <2> HIDE DEF c
  <2>3. Held(k, c, full, s0, w, <<>>)
    BY <2>1 DEF c
  <2>4. /\ Str(t) /\ Len(t) = k
        /\ Buffered(k, c \o Blocks(k, rest), t, s0, w \o rest)
    BY <2>2, <2>3, TakesRest
  <2> QED
    BY <2>4 DEF c
<1> HIDE DEF new, t
<1> QED
  BY <1>7, <1>8 DEF new, t, full, rest, head, fill, left

(* An input behind whole blocks. *)
LEMMA TakesBehind ==
  ASSUME NEW k \in Nat \ {0}, NEW chain, NEW buffer, NEW s0, Str(s0), NEW m, NEW input,
         Buffered(k, chain, buffer, s0, m), Str(buffer), Len(buffer) = k,
         Str(input), Remainder(k, Len(m)) = 0
  PROVE  LET t == Copied(buffer, 0, Behind(k, input)) IN
         /\ Buffered(k, chain \o Blocks(k, input), t, s0, m \o input)
         /\ Str(t) /\ Len(t) = k
<1>1. PICK whole, part : m = whole \o part /\ Held(k, chain, buffer, s0, whole, part)
  BY DEF Buffered
<1>2. Len(part) = 0
  BY <1>1, HeldRest
<1>3. Str(whole) /\ Str(part)
  BY <1>1 DEF Held
<1>4. part = <<>> /\ m = whole
  BY <1>1, <1>2, <1>3, EmptyStr
<1>5. Held(k, chain, buffer, s0, whole, <<>>)
  BY <1>1, <1>4
<1> QED
  BY <1>4, <1>5, TakesRest

(* An input that the buffer has room for. *)
LEMMA TakesWaiting ==
  ASSUME NEW k \in Nat \ {0}, NEW chain, NEW buffer, NEW s0, NEW m, NEW input,
         Buffered(k, chain, buffer, s0, m), Str(buffer), Len(buffer) = k,
         Str(input), Remainder(k, Len(m)) + Len(input) < k
  PROVE  LET t == Copied(buffer, Remainder(k, Len(m)), input) IN
         /\ Buffered(k, chain, t, s0, m \o input)
         /\ Str(t) /\ Len(t) = k
<1> DEFINE t == Copied(buffer, Remainder(k, Len(m)), input)
<1>1. PICK whole, part : m = whole \o part /\ Held(k, chain, buffer, s0, whole, part)
  BY DEF Buffered
<1>2. Len(part) = Remainder(k, Len(m))
  BY <1>1, HeldRest
<1>3. /\ Str(t) /\ Len(t) = k
      /\ Held(k, chain, t, s0, whole, part \o input)
  <2>1. Len(part) + Len(input) < k /\ t = Copied(buffer, Len(part), input)
    BY <1>2
  <2> HIDE DEF t
  <2>2. Held(k, chain, buffer, s0, whole, part)
    BY <1>1
  <2> QED
    BY <2>1, <2>2, TakesLittle
<1>4. m \o input = whole \o (part \o input)
  <2>1. Str(whole) /\ Str(part) /\ Str(input)
    BY <1>1 DEF Held
  <2>2. (whole \o part) \o input = whole \o (part \o input)
    <3>1. Joined(whole, part, input)
      BY <2>1, JoinAssociates, Zenon
    <3> QED
      BY <3>1, Zenon DEF Joined
  <2> QED
    BY <1>1, <2>2
<1> HIDE DEF t
<1>5. Buffered(k, chain, t, s0, m \o input)
  BY <1>3, <1>4 DEF Buffered
<1> QED
  BY <1>3, <1>5 DEF t

-----------------------------------------------------------------------------
(* A context of the digests that count in two words.                       *)

Fields == {"total", "left", "variant", "state", "cksum", "buffer", "ipad", "opad"}

(* The pads, and what the function that counts does not use. *)
SameButMessage(a, b) ==
  /\ DOMAIN a = Fields /\ DOMAIN b = Fields
  /\ a.variant = b.variant /\ a.ipad = b.ipad /\ a.opad = b.opad
  /\ a.left = b.left /\ a.cksum = b.cksum

Holds(g, s0, ctx, m) ==
  /\ DOMAIN ctx = Fields
  /\ Str(ctx.buffer) /\ Len(ctx.buffer) = g.block
  /\ Buffered(g.block, ctx.state, ctx.buffer, s0, m)
  /\ Counts(g, ctx.total, Len(m))

LEMMA CountsRemainder ==
  ASSUME NEW g, FitsTotals(g), NEW total, NEW n \in Nat, Counts(g, total, n)
  PROVE  total[1] % g.block = Remainder(g.block, n)
<1>1. g.block \in Nat \ {0}
  BY DEF FitsTotals
<1>2. n \div g.block \in Nat /\ n % g.block \in 0 .. g.block - 1
      /\ n = g.block * (n \div g.block) + (n % g.block)
  BY <1>1, Division
<1> DEFINE q == n \div g.block
           r == n % g.block
<1> HIDE DEF q, r
<1>3. q \in Nat /\ r \in 0 .. g.block - 1 /\ n = g.block * q + r
  BY <1>2 DEF q, r
<1>4. total[1] % g.block = r
  BY <1>3, CountsRest
<1> QED
  BY <1>4 DEF Remainder, r

(* What a whole update does: every byte of the input goes, in order, to   *)
(* the blocks or to the buffer, and is counted.                           *)
LEMMA UpdateTakes ==
  ASSUME NEW g, FitsTotals(g), NEW ctx, NEW s0, Str(s0), NEW m, Holds(g, s0, ctx, m),
         NEW input, Str(input), Len(input) < g.word,
         Len(m) + Len(input) < g.word * g.word
  PROVE  /\ Holds(g, s0, Update(g, Append, ctx, input), m \o input)
         /\ SameButMessage(ctx, Update(g, Append, ctx, input))
<1> DEFINE k     == g.block
           left  == ctx.total[1] % g.block
           fill  == k - left
           joins == left # 0 /\ Len(input) >= fill
           full  == Copied(ctx.buffer, left, SubSeq(input, 1, fill))
           rest  == IF joins THEN SubSeq(input, fill + 1, Len(input)) ELSE input
           done  == (Len(rest) \div k) * k
           count == Counted(g, ctx.total, Len(input))
           start == IF joins THEN Append(ctx.state, full) ELSE ctx.state
           chain == Compressed(Append, start, Blocks(k, rest))
           bytes == Copied(IF joins THEN full ELSE ctx.buffer, IF joins THEN 0 ELSE left,
                           SubSeq(rest, done + 1, Len(rest)))
           new   == Update(g, Append, ctx, input)
<1>1. new = [ctx EXCEPT !.total = count, !.state = chain, !.buffer = bytes]
  <2>1. new = [ctx EXCEPT
                 !.total = Counted(g, @, Len(input)),
                 !.state = Compressed(Append, IF joins THEN Append(@, full) ELSE @,
                                      Blocks(k, rest)),
                 !.buffer = Copied(IF joins THEN full ELSE @, IF joins THEN 0 ELSE left,
                                   SubSeq(rest, done + 1, Len(rest)))]
    BY DEF Update
  <2> QED
    BY <2>1
<1>2. k \in Nat \ {0} /\ Len(input) \in Nat
  BY DEF FitsTotals, Str
<1>3. /\ DOMAIN ctx = Fields /\ Str(ctx.buffer) /\ Len(ctx.buffer) = k
      /\ Buffered(k, ctx.state, ctx.buffer, s0, m)
      /\ Counts(g, ctx.total, Len(m))
  BY DEF Holds
<1>4. Str(m) /\ Len(m) \in Nat
  <2>1. PICK whole, part : m = whole \o part /\ Held(k, ctx.state, ctx.buffer, s0, whole, part)
    BY <1>3 DEF Buffered
  <2> HIDE DEF k
  <2> QED
    BY <1>2, <2>1, HeldRest
<1>5. left = Remainder(k, Len(m)) /\ left \in Nat /\ left < k
  <2>1. left = Remainder(k, Len(m))
    BY <1>3, <1>4, CountsRemainder
  <2> HIDE DEF left, k
  <2>2. PICK whole, part : m = whole \o part /\ Held(k, ctx.state, ctx.buffer, s0, whole, part)
    BY <1>3 DEF Buffered
  <2>3. Len(part) \in Nat /\ Len(part) < k /\ Remainder(k, Len(m)) = Len(part)
    BY <1>2, <2>2, HeldRest
  <2> QED
    BY <2>1, <2>3
<1>6. SubSeq(rest, done + 1, Len(rest)) = Behind(k, rest)
  BY DEF Behind, Largest
<1> HIDE DEF left, count, done
<1>7. Str(ctx.state)
  <2>1. PICK whole, part : m = whole \o part /\ Held(k, ctx.state, ctx.buffer, s0, whole, part)
    BY <1>3 DEF Buffered
  <2> HIDE DEF k
  <2>2. Str(whole) /\ ctx.state = s0 \o Blocks(k, whole)
    BY <2>1 DEF Held
  <2>3. Str(Blocks(k, whole))
    BY <1>2, <2>2, BlocksAreStr
  <2> QED
    BY <2>2, <2>3, JoinStr
<1>8. /\ Buffered(k, chain, bytes, s0, m \o input)
      /\ Str(bytes) /\ Len(bytes) = k
  <2> HIDE DEF k
  <2>1. CASE joins
    <3> DEFINE c == Append(ctx.state, full)
               more == SubSeq(input, fill + 1, Len(input))
               t == Copied(full, 0, Behind(k, more))
    <3>1. Len(input) >= k - Remainder(k, Len(m))
      BY <1>5, <2>1
    <3>2. /\ Buffered(k, c \o Blocks(k, more), t, s0, m \o input)
          /\ Str(t) /\ Len(t) = k
      BY <1>2, <1>3, <1>5, <3>1, TakesJoined
    <3>3. rest = more /\ start = c
      BY <2>1
    <3>4. bytes = t
      BY <1>6, <2>1, <3>3
    <3>5. Str(c) /\ Str(more)
      <4>1. Str(c)
        BY <1>7, AppendStr
      <4>2. fill \in Nat /\ fill <= Len(input)
        BY <1>2, <1>5, <2>1
      <4> HIDE DEF fill
      <4> QED
        BY <4>1, <4>2, SplitStr
    <3>6. chain = Compressed(Append, c, Blocks(k, more))
      BY <3>3
    <3> HIDE DEF c, more, t, chain, bytes, joins, rest, start, full, fill
    <3>7. Compressed(Append, c, Blocks(k, more)) = c \o Blocks(k, more)
      BY <1>2, <3>5, BlocksAreStr, CompressedAppends
    <3> QED
      BY <3>2, <3>4, <3>6, <3>7
  <2>2. CASE ~joins
    <3>1. rest = input /\ start = ctx.state
      BY <2>2
    <3>2. bytes = Copied(ctx.buffer, left, Behind(k, input))
      BY <1>6, <2>2, <3>1
    <3>3. chain = ctx.state \o Blocks(k, input)
      <4>1. chain = Compressed(Append, ctx.state, Blocks(k, input))
        BY <3>1
      <4> HIDE DEF chain
      <4>2. Compressed(Append, ctx.state, Blocks(k, input)) = ctx.state \o Blocks(k, input)
        BY <1>2, <1>7, BlocksAreStr, CompressedAppends
      <4> QED
        BY <4>1, <4>2
    <3>4. CASE left = 0
      <4>1. Remainder(k, Len(m)) = 0 /\ bytes = Copied(ctx.buffer, 0, Behind(k, input))
        BY <1>5, <3>2, <3>4
      <4> HIDE DEF chain, bytes, joins, rest, start, full, fill
      <4>2. LET t == Copied(ctx.buffer, 0, Behind(k, input)) IN
            /\ Buffered(k, ctx.state \o Blocks(k, input), t, s0, m \o input)
            /\ Str(t) /\ Len(t) = k
        BY <1>2, <1>3, <4>1, TakesBehind
      <4> QED
        BY <3>3, <4>1, <4>2
    <3>5. CASE left # 0
      <4>1. left + Len(input) < k
        BY <1>2, <1>5, <2>2, <3>5
      <4> HIDE DEF chain, bytes, joins, rest, start, full, fill
      <4>2. Len(input) < k /\ Remainder(k, Len(m)) + Len(input) < k
        BY <1>2, <1>5, <4>1
      <4>3. Behind(k, input) = input
        <5>1. Largest(k, Len(input)) = 0
          BY <1>2, <4>2, NoMultiple
        <5>2. Behind(k, input) = SubSeq(input, 1, Len(input))
          BY <5>1 DEF Behind
        <5> DEFINE p == SubSeq(input, 1, Len(input))
        <5>3. Str(p) /\ Len(p) = Len(input) /\ \A i \in 1 .. Len(input) : p[i] = input[i]
          <6>1. Len(input) <= Len(input)
            BY <1>2
          <6> QED
            BY <1>2, <6>1, SplitStr
        <5> HIDE DEF p
        <5>4. p = input
          BY <5>3, SameStr
        <5> QED
          BY <5>2, <5>4 DEF p
      <4>4. Blocks(k, input) = <<>>
        BY <1>2, <4>2, ShortBlocks
      <4>5. chain = ctx.state
        BY <1>7, <3>3, <4>4, EmptyStr
      <4>6. LET t == Copied(ctx.buffer, Remainder(k, Len(m)), input) IN
            /\ Buffered(k, ctx.state, t, s0, m \o input)
            /\ Str(t) /\ Len(t) = k
        BY <1>2, <1>3, <4>2, TakesWaiting
      <4> QED
        BY <1>5, <3>2, <4>3, <4>5, <4>6
    <3> QED
      BY <3>4, <3>5
  <2> QED
    BY <2>1, <2>2
<1>9. Counts(g, count, Len(m \o input))
  <2>1. Counts(g, count, Len(m) + Len(input))
    BY <1>2, <1>3, <1>4, CountedAdds DEF count
  <2>2. Len(m \o input) = Len(m) + Len(input)
    BY <1>4, JoinStr
  <2> QED
    BY <2>1, <2>2
<1> HIDE DEF chain, bytes, new
<1>10. /\ new.total = count /\ new.state = chain /\ new.buffer = bytes
       /\ SameButMessage(ctx, new)
  BY <1>1, <1>3 DEF Fields, SameButMessage
<1> QED
  BY <1>8, <1>9, <1>10 DEF Holds, SameButMessage, new

(* A chaining state that takes in blocks of k bytes only. *)
Chain(k, state) ==
  Str(state) /\ \A i \in DOMAIN state \ {1} : Len(state[i]) = k

(* The blocks of a message have all been compressed. *)
LEMMA BufferedBlocks ==
  ASSUME NEW k \in Nat \ {0}, NEW chain, NEW buffer, NEW s0, NEW m,
         Buffered(k, chain, buffer, s0, m), Str(s0), Str(buffer), Len(buffer) = k
  PROVE  /\ Str(m) /\ Str(Blocks(k, m)) /\ Str(chain)
         /\ chain = s0 \o Blocks(k, m)
<1>1. PICK whole, part : m = whole \o part /\ Held(k, chain, buffer, s0, whole, part)
  BY DEF Buffered
<1>2. Len(part) < k /\ Str(m)
  BY <1>1, HeldRest
<1>3. /\ Str(whole) /\ Str(part) /\ Multiple(k, Len(whole))
      /\ chain = s0 \o Blocks(k, whole)
  BY <1>1 DEF Held
<1>4. Blocks(k, m) = Blocks(k, whole) /\ Str(Blocks(k, whole))
  <2>1. Blocks(k, whole \o part) = Blocks(k, whole) \o Blocks(k, part)
    BY <1>3, MultipleJoins
  <2>2. Blocks(k, part) = <<>>
    BY <1>2, <1>3, ShortBlocks
  <2>3. Str(Blocks(k, whole))
    BY <1>3, BlocksAreStr
  <2> QED
    BY <1>1, <2>1, <2>2, <2>3, EmptyStr
<1>5. Str(chain)
  BY <1>3, <1>4, JoinStr
<1> QED
  BY <1>2, <1>3, <1>4, <1>5

(* What can be seen of a message that a context holds. *)
(* The buffer shows the end of the message that is in no full block. *)
EndShown(k, buffer, m) ==
  /\ Len(m) \in Nat /\ Remainder(k, Len(m)) \in 0 .. k - 1
  /\ SubSeq(buffer, 1, Remainder(k, Len(m))) =
       SubSeq(m, Len(m) - Remainder(k, Len(m)) + 1, Len(m))

LEMMA BufferedShows ==
  ASSUME NEW k \in Nat \ {0}, NEW chain, NEW buffer, NEW s0, NEW m,
         Buffered(k, chain, buffer, s0, m), Str(s0), Str(buffer), Len(buffer) = k
  PROVE  EndShown(k, buffer, m)
<1> DEFINE n == Len(m)
<1>1. PICK whole, part : m = whole \o part /\ Held(k, chain, buffer, s0, whole, part)
  BY DEF Buffered
<1>2. /\ Len(part) \in Nat /\ Len(part) < k /\ Str(m) /\ n \in Nat
      /\ Remainder(k, n) = Len(part)
  BY <1>1, HeldRest
<1>3. /\ Str(whole) /\ Str(part)
      /\ \A i \in 1 .. Len(part) : buffer[i] = part[i]
  BY <1>1 DEF Held
<1> DEFINE r == Len(part)
           u == SubSeq(buffer, 1, r)
           v == SubSeq(m, n - r + 1, n)
<1>4. u = v
  <2>1. Len(whole) \in Nat /\ n = Len(whole) + r /\ r \in Nat /\ r <= n
        /\ \A i \in 1 .. r : m[Len(whole) + i] = part[i]
    <3>1. /\ Len(whole \o part) = Len(whole) + Len(part)
          /\ Len(whole) \in Nat /\ Len(part) \in Nat
          /\ \A i \in 1 .. Len(part) : (whole \o part)[Len(whole) + i] = part[i]
      BY <1>3, JoinStr
    <3> QED
      BY <1>1, <3>1
  <2> DEFINE l == Len(whole)
  <2> HIDE DEF r, l
  <2>2. Str(u) /\ Len(u) = r /\ \A i \in 1 .. r : u[i] = buffer[i]
    <3>1. r <= Len(buffer) /\ r \in Nat
      BY <1>2 DEF r
    <3> HIDE DEF u
    <3> QED
      BY <3>1, SplitStr DEF u
  <2>3. Str(v) /\ Len(v) = r /\ \A i \in 1 .. r : v[i] = m[l + i]
    <3>1. l \in Nat /\ l <= Len(m) /\ n - r + 1 = l + 1 /\ Len(m) - l = r
      BY <2>1 DEF l
    <3>2. v = SubSeq(m, l + 1, Len(m))
      BY <3>1
    <3> HIDE DEF v
    <3> QED
      BY <1>2, <3>1, <3>2, SplitStr
  <2> HIDE DEF u, v
  <2>4. \A i \in 1 .. Len(u) : u[i] = v[i]
    BY <1>3, <2>1, <2>2, <2>3 DEF r, l
  <2> QED
    BY <2>2, <2>3, <2>4, SameStr
<1>5. /\ n \in Nat /\ Remainder(k, n) \in 0 .. k - 1
      /\ SubSeq(buffer, 1, Remainder(k, n)) = SubSeq(m, n - Remainder(k, n) + 1, n)
  BY <1>2, <1>4
<1> QED
  BY ONLY <1>5, Zenon DEF EndShown

LEMMA ChainOfBlocks ==
  ASSUME NEW k \in Nat \ {0}, NEW m, Str(m), NEW iv
  PROVE  Chain(k, <<iv>> \o Blocks(k, m))
<1> DEFINE x == Blocks(k, m)
           c == <<iv>> \o x
<1>1. /\ Str(x) /\ \A b \in 1 .. Len(x) : Len(x[b]) = k
  BY BlocksStr DEF Chopped
<1> HIDE DEF x
<1>2. Str(<<>>) /\ Str(<<iv>>) /\ Len(<<iv>>) = 1
  BY EmptyStr, AppendStr
<1>3. /\ Str(c) /\ Len(c) = 1 + Len(x) /\ Len(x) \in Nat
      /\ \A i \in 1 .. Len(x) : c[1 + i] = x[i]
  BY <1>1, <1>2, JoinStr
<1> HIDE DEF c
<1>4. DOMAIN c = 1 .. Len(c)
  BY <1>3 DEF Str
<1>5. ASSUME NEW i \in DOMAIN c \ {1}
      PROVE  Len(c[i]) = k
  <2>1. i - 1 \in 1 .. Len(x) /\ 1 + (i - 1) = i
    BY <1>3, <1>4
  <2>2. c[1 + (i - 1)] = x[i - 1]
    BY <1>3, <2>1
  <2> QED
    BY <1>1, <2>1, <2>2
<1> QED
  BY <1>3, <1>5 DEF Chain, c, x

-----------------------------------------------------------------------------
(* The padding.                                                            *)

(* The padding ends where the length field just fits into a block, and no  *)
(* other number of zeros below a block does that.                          *)
LEMMA PadReaches ==
  ASSUME NEW g, FitsTotals(g), NEW total, NEW n \in Nat, Counts(g, total, n)
  PROVE  /\ PadCount(g, total) \in 1 .. g.block
         /\ Multiple(g.block, n + PadCount(g, total) + g.field)
         /\ \A z \in 0 .. g.block - 1 :
              Remainder(g.block, n + 1 + z + g.field) = 0 <=> z = PadCount(g, total) - 1
<1> DEFINE k == g.block
           f == g.field
           p == PadCount(g, total)
           r == Remainder(k, n)
           d == Largest(k, n)
<1>1. k \in Nat \ {0} /\ f \in Nat /\ f < k
  BY DEF FitsTotals
<1>2. /\ d \in Nat /\ r = n - d /\ n - d < k /\ d <= n /\ Multiple(k, d)
  <2> HIDE DEF k
  <2> QED
    BY <1>1, LargestMultiple
<1>3. p = IF r < k - f THEN (k - f) - r ELSE (k - f) + k - r
  <2>1. total[1] % g.block = r
    BY CountsRemainder
  <2> QED
    BY <2>1 DEF PadCount
<1> HIDE DEF k, f, p, r, d
<1>4. PICK e \in Nat : Multiple(k, e) /\ n + p + f = e + k
  <2>1. Multiple(k, d + k)
    BY <1>1, <1>2, OneMultiple, MultiplesAdd
  <2>2. CASE r < k - f
    <3>1. n + p + f = d + k
      BY <1>1, <1>2, <1>3, <2>2
    <3> QED
      BY <1>2, <3>1
  <2>3. CASE ~(r < k - f)
    <3>1. n + p + f = (d + k) + k /\ d + k \in Nat
      BY <1>1, <1>2, <1>3, <2>3
    <3> QED
      BY <2>1, <3>1
  <2> QED
    BY <2>2, <2>3
<1>5. p \in 1 .. k
  BY <1>1, <1>2, <1>3
<1>6. Multiple(k, n + p + f)
  <2>1. Multiple(k, e + k)
    BY <1>1, <1>4, OneMultiple, MultiplesAdd
  <2> QED
    BY <1>4, <2>1
<1>7. ASSUME NEW z \in 0 .. k - 1
      PROVE  Remainder(k, n + 1 + z + f) = 0 <=> z = p - 1
  <2>1. CASE z + 1 >= p
    <3>1. z + 1 - p \in Nat /\ z + 1 - p < k
      BY <1>1, <1>5, <2>1
    <3>2. n + 1 + z + f = (n + p + f) + (z + 1 - p)
      BY <1>1, <1>5
    <3>3. Remainder(k, (n + p + f) + (z + 1 - p)) = z + 1 - p
      BY <1>1, <1>6, <3>1, Remains
    <3> QED
      BY <1>5, <3>2, <3>3
  <2>2. CASE ~(z + 1 >= p)
    <3>1. k + z + 1 - p \in Nat /\ k + z + 1 - p < k /\ k + z + 1 - p # 0
      BY <1>1, <1>5, <2>2
    <3>2. n + 1 + z + f = e + (k + z + 1 - p)
      BY <1>1, <1>4, <1>5
    <3>3. Remainder(k, e + (k + z + 1 - p)) = k + z + 1 - p
      BY <1>1, <1>4, <3>1, Remains
    <3> QED
      BY <1>5, <2>2, <3>1, <3>2, <3>3
  <2> QED
    BY <2>1, <2>2
<1> QED
  BY <1>5, <1>6, <1>7 DEF p, k, f

(* The two words of the length field hold the number of bits. *)
LEMMA LengthWords ==
  ASSUME NEW g, FitsTotals(g), NEW total, NEW n \in Nat, Counts(g, total, n),
         8 * n < g.word * g.word
  PROVE  /\ High(g, total) = (8 * n) \div g.word
         /\ Low(g, total) = (8 * n) % g.word
<1> DEFINE w == g.word
           a == total[1]
           b == total[2]
           c == (8 * a) \div w
           r == (8 * a) % w
<1>1. w \in Nat \ {0} /\ a \in 0 .. w - 1 /\ b \in 0 .. w - 1 /\ n = b * w + a
      /\ 8 * n < w * w
  BY DEF FitsTotals, Counts
<1>2. /\ High(g, total) = c + ((8 * b) % w)
      /\ Low(g, total) = r
  BY DEF High, Low
<1> HIDE DEF w, a, b
<1>3. c \in Nat /\ r \in 0 .. w - 1 /\ 8 * a = w * c + r
  <2>1. 8 * a \in Nat
    BY <1>1
  <2> QED
    BY <1>1, <2>1, Division
<1> HIDE DEF c, r
<1>4. 8 * b < w
  <2>1. b * w \in Nat /\ 8 * (b * w) <= 8 * n /\ 8 * (b * w) = (8 * b) * w
    BY <1>1
  <2>2. (8 * b) * w < w * w
    BY <1>1, <2>1
  <2>3. SUFFICES ASSUME w <= 8 * b PROVE FALSE
    BY <1>1
  <2>4. w * w <= (8 * b) * w
    <3>1. 8 * b \in Nat
      BY <1>1
    <3> QED
      BY <1>1, <2>3, <3>1, Times
  <2>5. w * w \in Nat /\ (8 * b) * w \in Nat
    BY <1>1
  <2> QED
    BY <2>2, <2>4, <2>5
<1>5. (8 * b) % w = 8 * b
  <2>1. 8 * b \in 0 .. w - 1 /\ w * 0 + 8 * b = 8 * b
    BY <1>1, <1>4
  <2>2. (w * 0 + 8 * b) % w = 8 * b
    BY <1>1, <2>1, Unique
  <2> QED
    BY <2>1, <2>2
<1>6. 8 * n = w * (c + 8 * b) + r
  <2>1. w * (c + 8 * b) = w * c + w * (8 * b)
    BY <1>1, <1>3
  <2>2. w * (8 * b) = 8 * (b * w) /\ b * w \in Nat
    BY <1>1
  <2>3. 8 * n = 8 * (b * w) + 8 * a
    BY <1>1, <2>2
  <2>4. w * c \in Nat
    BY <1>1, <1>3
  <2> QED
    BY <1>1, <1>3, <2>1, <2>2, <2>3, <2>4
<1>7. (w * (c + 8 * b) + r) \div w = c + 8 * b /\ (w * (c + 8 * b) + r) % w = r
  <2>1. c + 8 * b \in Nat
    BY <1>1, <1>3
  <2> QED
    BY <1>1, <1>3, <2>1, Unique
<1> QED
  BY <1>2, <1>5, <1>6, <1>7 DEF w

LEMMA PaddingIs ==
  ASSUME NEW p \in Nat \ {0}
  PROVE  /\ Str(Padding(p)) /\ Len(Padding(p)) = p
         /\ Str([i \in 1 .. p - 1 |-> Zero])
         /\ Padding(p) = <<<<"pad", 128>>>> \o [i \in 1 .. p - 1 |-> Zero]
<1> DEFINE a == <<<<"pad", 128>>>>
           b == [i \in 1 .. p - 1 |-> Zero]
           c == a \o b
           x == Padding(p)
<1>1. x = [i \in 1 .. p |-> IF i = 1 THEN <<"pad", 128>> ELSE Zero]
  BY DEF Padding
<1>2. Str(x) /\ Len(x) = p
  <2> HIDE DEF x
  <2>1. x = [i \in 1 .. p |-> x[i]]
    BY <1>1
  <2> QED
    BY <2>1, IsStr
<1>3. Str(b) /\ Len(b) = p - 1 /\ \A i \in 1 .. p - 1 : b[i] = Zero
  <2>1. p - 1 \in Nat
    OBVIOUS
  <2>2. b = [i \in 1 .. p - 1 |-> b[i]] /\ \A i \in 1 .. p - 1 : b[i] = Zero
    OBVIOUS
  <2> HIDE DEF b
  <2> QED
    BY <2>1, <2>2, IsStr
<1>4. Str(a) /\ Len(a) = 1 /\ a[1] = <<"pad", 128>>
  BY EmptyStr, AppendStr
<1> HIDE DEF a, b, x
<1>5. /\ Str(c) /\ Len(c) = p
      /\ c[1] = <<"pad", 128>>
      /\ \A i \in 1 .. p - 1 : c[1 + i] = Zero
  <2>1. /\ Str(c) /\ Len(c) = Len(a) + Len(b)
        /\ \A i \in 1 .. Len(a) : c[i] = a[i]
        /\ \A i \in 1 .. Len(b) : c[Len(a) + i] = b[i]
    <3>1. Str(a) /\ Str(b)
      BY <1>3, <1>4
    <3> QED
      BY <3>1, JoinStr
  <2> HIDE DEF c
  <2>2. Len(c) = p
    BY <1>3, <1>4, <2>1
  <2>3. c[1] = <<"pad", 128>>
    <3>1. 1 \in 1 .. Len(a)
      BY <1>4
    <3>2. c[1] = a[1]
      BY <2>1, <3>1
    <3> QED
      BY <1>4, <3>2
  <2>4. ASSUME NEW i \in 1 .. p - 1
        PROVE  c[1 + i] = Zero
    <3>1. c[Len(a) + i] = b[i] /\ b[i] = Zero
      BY <1>3, <2>1
    <3> QED
      BY <1>4, <3>1
  <2> QED
    BY <2>1, <2>2, <2>3, <2>4
<1> HIDE DEF c
<1>6. ASSUME NEW i \in 1 .. p
      PROVE  x[i] = c[i]
  <2>1. CASE i = 1
    BY <1>1, <1>5, <2>1
  <2>2. CASE i # 1
    <3>1. i - 1 \in 1 .. p - 1 /\ 1 + (i - 1) = i
      BY <2>2
    <3> QED
      BY <1>1, <1>5, <2>2, <3>1
  <2> QED
    BY <2>1, <2>2
<1>7. x = c
  BY <1>2, <1>5, <1>6, SameStr
<1> QED
  BY <1>2, <1>3, <1>7 DEF a, b, c, x

(* The length field of an algorithm: two words, the lower one first in MD4 *)
(* and MD5.                                                                *)
FieldOf(type, g, high, low) ==
  IF type \in {"MD4", "MD5"} THEN LittleEndian(g, high, low) ELSE BigEndian(g, high, low)

LEMMA FieldIs ==
  ASSUME NEW g, FitsTotals(g), NEW high, NEW low, NEW type
  PROVE  /\ Str(FieldOf(type, g, high, low))
         /\ Len(FieldOf(type, g, high, low)) = g.field
         /\ LET w == g.field \div 2
                Field(i) == IF i <= w THEN <<"length", high, i>> ELSE <<"length", low, i - w>>
            IN  FieldOf(type, g, high, low) =
                  [i \in 1 .. g.field |->
                     IF type \in {"MD4", "MD5"} THEN Field(g.field + 1 - i) ELSE Field(i)]
<1> DEFINE f == g.field
           w == g.field \div 2
           Field(i) == IF i <= w THEN <<"length", high, i>> ELSE <<"length", low, i - w>>
           b == BigEndian(g, high, low)
           l == LittleEndian(g, high, low)
           x == FieldOf(type, g, high, low)
<1>1. f \in Nat
  BY DEF FitsTotals
<1>2. b = [i \in 1 .. f |-> Field(i)]
  BY DEF BigEndian
<1> HIDE DEF w, b, f
<1>3. Str(b) /\ Len(b) = f
  <2>1. b = [i \in 1 .. f |-> b[i]]
    BY <1>2
  <2> QED
    BY <1>1, <2>1, IsStr
<1>4. l = [i \in 1 .. f |-> Field(f + 1 - i)]
  <2>1. l = [i \in 1 .. Len(b) |-> b[(Len(b) - i) + 1]]
    BY DEF LittleEndian, Reverse, b
  <2>2. ASSUME NEW i \in 1 .. f
        PROVE  b[(f - i) + 1] = Field(f + 1 - i)
    <3>1. (f - i) + 1 \in 1 .. f /\ (f - i) + 1 = f + 1 - i
      BY <1>1
    <3> HIDE DEF Field
    <3> QED
      BY <1>2, <3>1
  <2> HIDE DEF Field, l
  <2> QED
    BY <1>3, <2>1, <2>2
<1>5. x = [i \in 1 .. f |-> IF type \in {"MD4", "MD5"} THEN Field(f + 1 - i) ELSE Field(i)]
  <2>1. CASE type \in {"MD4", "MD5"}
    <3>1. x = l
      BY <2>1 DEF FieldOf
    <3> HIDE DEF Field, l, x
    <3> QED
      BY <1>4, <2>1, <3>1
  <2>2. CASE ~(type \in {"MD4", "MD5"})
    <3>1. x = b
      BY <2>2 DEF FieldOf, b
    <3> HIDE DEF Field, x
    <3> QED
      BY <1>2, <2>2, <3>1
  <2> QED
    BY <2>1, <2>2
<1>6. Str(x) /\ Len(x) = f
  <2> HIDE DEF Field, x
  <2>1. x = [i \in 1 .. f |-> x[i]]
    BY <1>5
  <2> QED
    BY <1>1, <2>1, IsStr
<1> QED
  BY <1>5, <1>6 DEF f, w

(* What a finish feeds is the padding of the standard. *)
LEMMA StandardPadding ==
  ASSUME NEW type, NEW g, g = Geometry(type), FitsTotals(g), NEW m, Str(m),
         NEW total, Counts(g, total, Len(m)), 8 * Len(m) < g.word * g.word
  PROVE  PaddedMessage(type, m) =
           (m \o Padding(PadCount(g, total))) \o
             FieldOf(type, g, High(g, total), Low(g, total))
<1> DEFINE n == Len(m)
           p == PadCount(g, total)
           w == g.field \div 2
           Field(i) == IF i <= w THEN <<"length", (8 * n) \div g.word, i>>
                                 ELSE <<"length", (8 * n) % g.word, i - w>>
           z == CHOOSE i \in 0 .. g.block - 1 : (n + 1 + i + g.field) % g.block = 0
           field == [i \in 1 .. g.field |->
                       IF type \in {"MD4", "MD5"} THEN Field(g.field + 1 - i) ELSE Field(i)]
           x == FieldOf(type, g, High(g, total), Low(g, total))
           a == <<<<"pad", 128>>>>
           Zeros(i) == [j \in 1 .. i |-> <<"pad", 0>>]
<1>1. PaddedMessage(type, m) = ((m \o a) \o Zeros(z)) \o field
  BY DEF PaddedMessage
<1>2. n \in Nat
  BY DEF Str
<1>3. p \in 1 .. g.block /\ p \in Nat \ {0}
      /\ \A i \in 0 .. g.block - 1 : Remainder(g.block, n + 1 + i + g.field) = 0 <=> i = p - 1
  <2>1. g.block \in Nat
    BY DEF FitsTotals
  <2> HIDE DEF p
  <2>2. p \in 1 .. g.block
        /\ \A i \in 0 .. g.block - 1 : Remainder(g.block, n + 1 + i + g.field) = 0 <=> i = p - 1
    BY <1>2, PadReaches DEF p
  <2> QED
    BY <2>1, <2>2
<1> HIDE DEF p
<1>4. z = p - 1
  <2>1. p - 1 \in 0 .. g.block - 1
    BY <1>3 DEF FitsTotals
  <2>2. \A i \in 0 .. g.block - 1 : (n + 1 + i + g.field) % g.block = 0 <=> i = p - 1
    BY <1>3 DEF Remainder
  <2> QED
    BY <2>1, <2>2
<1>5. x = field
  <2>1. /\ High(g, total) = (8 * n) \div g.word
        /\ Low(g, total) = (8 * n) % g.word
    BY <1>2, LengthWords
  <2> DEFINE high == (8 * n) \div g.word
             low == (8 * n) % g.word
             Part(i) == IF i <= w THEN <<"length", high, i>> ELSE <<"length", low, i - w>>
  <2>2. x = FieldOf(type, g, high, low)
    BY <2>1
  <2> HIDE DEF x, high, low
  <2>3. FieldOf(type, g, high, low) =
          [i \in 1 .. g.field |->
             IF type \in {"MD4", "MD5"} THEN Part(g.field + 1 - i) ELSE Part(i)]
    BY FieldIs
  <2> QED
    BY <2>2, <2>3 DEF high, low
<1>6. (m \o a) \o Zeros(p - 1) = m \o Padding(p)
  <2>1. Str(Zeros(p - 1)) /\ Padding(p) = a \o Zeros(p - 1)
    BY <1>3, PaddingIs DEF Zero
  <2>2. Str(a)
    BY EmptyStr, AppendStr
  <2> HIDE DEF a, Zeros
  <2>3. (m \o a) \o Zeros(p - 1) = m \o (a \o Zeros(p - 1))
    <3>1. Joined(m, a, Zeros(p - 1))
      BY <2>1, <2>2, JoinAssociates, Zenon
    <3> QED
      BY <3>1, Zenon DEF Joined
  <2> QED
    BY <2>1, <2>3
<1> HIDE DEF z, field, x, a, Zeros
<1> QED
  BY <1>1, <1>4, <1>5, <1>6 DEF p, x

LEMMA SameTwice ==
  ASSUME NEW a, NEW b, NEW c, SameButMessage(a, b), SameButMessage(b, c)
  PROVE  SameButMessage(a, c)
BY DEF SameButMessage

(* With the padding and the field, the message of the standard is whole    *)
(* blocks, and all of them are compressed.                                 *)
LEMMA PaddedIsStandard ==
  ASSUME NEW type, NEW g, g = Geometry(type), FitsTotals(g), NEW ctx, NEW m,
         Holds(g, <<type>>, ctx, m), 8 * Len(m) < g.word * g.word,
         16 * g.block < g.word * g.word
  PROVE  LET once == Update(g, Append, ctx, Padding(PadCount(g, ctx.total)))
             fed  == Update(g, Append, once,
                            FieldOf(type, g, High(g, ctx.total), Low(g, ctx.total)))
         IN  /\ Holds(g, <<type>>, fed, PaddedMessage(type, m))
             /\ SameButMessage(ctx, fed)
<1> DEFINE p     == PadCount(g, ctx.total)
           pad   == Padding(p)
           field == FieldOf(type, g, High(g, ctx.total), Low(g, ctx.total))
           once  == Update(g, Append, ctx, pad)
           fed   == Update(g, Append, once, field)
           w     == g.word
           n     == Len(m)
<1>1. /\ g.block \in Nat \ {0} /\ g.field \in Nat /\ g.field < g.block
      /\ w \in Nat /\ g.block < w
  BY DEF FitsTotals
<1>2. Str(<<type>>)
  BY EmptyStr, AppendStr
<1>3. /\ Buffered(g.block, ctx.state, ctx.buffer, <<type>>, m)
      /\ Str(ctx.buffer) /\ Len(ctx.buffer) = g.block
      /\ Counts(g, ctx.total, n)
  BY DEF Holds
<1>4. Str(m) /\ n \in Nat
  <2>1. EndShown(g.block, ctx.buffer, m)
    BY <1>1, <1>2, <1>3, BufferedShows
  <2> QED
    BY <1>1, <1>2, <1>3, <2>1, BufferedBlocks DEF EndShown
<1>5. p \in 1 .. g.block /\ p \in Nat \ {0} /\ p <= g.block
  <2>1. p \in 1 .. g.block
    BY <1>3, <1>4, PadReaches
  <2> HIDE DEF p
  <2> QED
    BY <1>1, <2>1
<1>6. Str(pad) /\ Len(pad) = p
  BY <1>5, PaddingIs
<1>7. Str(field) /\ Len(field) = g.field
  BY FieldIs
<1>8. PaddedMessage(type, m) = (m \o pad) \o field
  BY <1>3, <1>4, StandardPadding
<1> HIDE DEF p, pad, field, n
<1>9. n + p < w * w /\ n + p + g.field < w * w /\ w * w \in Nat
  <2> DEFINE v == w * w
  <2>1. v \in Nat /\ 8 * n < v /\ 16 * g.block < v
    BY <1>1 DEF n
  <2> HIDE DEF v, w
  <2>2. n + p < v /\ n + p + g.field < v
    BY <1>1, <1>4, <1>5, <2>1
  <2> QED
    BY <2>1, <2>2 DEF v
<1>10. Holds(g, <<type>>, once, m \o pad) /\ SameButMessage(ctx, once)
  <2>1. Len(pad) < g.word /\ Len(m) + Len(pad) < g.word * g.word
    BY <1>1, <1>5, <1>6, <1>9 DEF n
  <2> QED
    BY <1>2, <1>6, <2>1, UpdateTakes
<1>11. Holds(g, <<type>>, fed, (m \o pad) \o field) /\ SameButMessage(once, fed)
  <2>1. Len(m \o pad) = n + p
    BY <1>4, <1>6, JoinStr DEF n
  <2>2. Len(field) < g.word /\ Len(m \o pad) + Len(field) < g.word * g.word
    BY <1>1, <1>7, <1>9, <2>1
  <2> HIDE DEF once
  <2> QED
    BY <1>2, <1>7, <1>10, <2>2, UpdateTakes
<1> HIDE DEF once, fed
<1>12. SameButMessage(ctx, fed)
  BY <1>10, <1>11, SameTwice
<1> QED
  BY <1>8, <1>11, <1>12 DEF fed, once, pad, p, field

-----------------------------------------------------------------------------
(* MD2.                                                                    *)

(* Bytes that just fill the buffer up. *)
LEMMA TakesFull ==
  ASSUME NEW k \in Nat \ {0}, NEW chain, NEW buffer, NEW s0, Str(s0), NEW m, NEW input,
         Buffered(k, chain, buffer, s0, m), Str(buffer), Len(buffer) = k,
         Str(input), Remainder(k, Len(m)) + Len(input) = k
  PROVE  LET full == Copied(buffer, Remainder(k, Len(m)), input) IN
         /\ Buffered(k, Append(chain, full), full, s0, m \o input)
         /\ Str(full) /\ Len(full) = k
<1> DEFINE full == Copied(buffer, Remainder(k, Len(m)), input)
<1>1. PICK whole, part : m = whole \o part /\ Held(k, chain, buffer, s0, whole, part)
  BY DEF Buffered
<1>2. Len(part) = Remainder(k, Len(m))
  BY <1>1, HeldRest
<1>3. /\ Str(full) /\ Len(full) = k /\ full = part \o input
      /\ Held(k, Append(chain, full), full, s0, whole \o full, <<>>)
  <2>1. Len(part) + Len(input) = k /\ full = Copied(buffer, Len(part), input)
    BY <1>2
  <2> HIDE DEF full
  <2>2. Held(k, chain, buffer, s0, whole, part)
    BY <1>1
  <2>3. LET u == Copied(buffer, Len(part), input) IN
        /\ Str(u) /\ Len(u) = k /\ u = part \o input
        /\ Held(k, Append(chain, u), u, s0, whole \o u, <<>>)
    BY <2>1, <2>2, FillsUp
  <2> QED
    BY <2>1, <2>3
<1> HIDE DEF full
<1>4. m \o input = (whole \o full) \o <<>>
  <2>1. Str(whole) /\ Str(part) /\ Str(input)
    BY <1>1 DEF Held
  <2>2. (whole \o part) \o input = whole \o (part \o input)
    <3>1. Joined(whole, part, input)
      BY <2>1, JoinAssociates, Zenon
    <3> QED
      BY <3>1, Zenon DEF Joined
  <2>3. Str(whole \o full)
    BY <1>3, <2>1, JoinStr
  <2>4. (whole \o full) \o <<>> = whole \o full
    BY <2>3, EmptyStr
  <2> QED
    BY <1>1, <1>3, <2>2, <2>4
<1>5. Buffered(k, Append(chain, full), full, s0, m \o input)
  BY <1>3, <1>4 DEF Buffered
<1> QED
  BY <1>3, <1>5 DEF full

LEMMA RemainderAdds ==
  ASSUME NEW k \in Nat \ {0}, NEW n \in Nat, NEW l \in Nat
  PROVE  /\ Remainder(k, n) \in 0 .. k - 1
         /\ Remainder(k, n) + l < k => Remainder(k, n + l) = Remainder(k, n) + l
         /\ Remainder(k, n) + l = k => Remainder(k, n + l) = 0
<1> DEFINE d == Largest(k, n)
           r == Remainder(k, n)
<1>1. d \in Nat /\ r = n - d /\ d <= n /\ n - d < k /\ Multiple(k, d)
  BY LargestMultiple
<1> HIDE DEF d, r
<1>2. r \in 0 .. k - 1 /\ n = d + r
  BY <1>1
<1>3. ASSUME r + l < k
      PROVE  Remainder(k, n + l) = r + l
  <2>1. n + l = d + (r + l) /\ r + l \in Nat
    BY <1>1, <1>2
  <2>2. Remainder(k, d + (r + l)) = r + l
    BY <1>1, <1>3, <2>1, Remains
  <2> QED
    BY <2>1, <2>2
<1>4. ASSUME r + l = k
      PROVE  Remainder(k, n + l) = 0
  <2>1. Multiple(k, d + k)
    BY <1>1, OneMultiple, MultiplesAdd
  <2>2. n + l = (d + k) + 0
    BY <1>1, <1>2, <1>4
  <2>3. Remainder(k, (d + k) + 0) = 0
    BY <2>1, Remains
  <2> QED
    BY <2>2, <2>3
<1> QED
  BY <1>2, <1>3, <1>4 DEF r

Md2Holds(ctx, m) ==
  /\ DOMAIN ctx = Fields
  /\ Str(ctx.buffer) /\ Len(ctx.buffer) = Tiny.block
  /\ Buffered(Tiny.block, ctx.state, ctx.buffer, <<"MD2">>, m)
  /\ Buffered(Tiny.block, ctx.cksum, ctx.buffer, <<>>, m)
  /\ ctx.left = Remainder(Tiny.block, Len(m))

SamePads(a, b) ==
  /\ DOMAIN a = Fields /\ DOMAIN b = Fields
  /\ a.variant = b.variant /\ a.ipad = b.ipad /\ a.opad = b.opad

LEMMA Md2Shows ==
  ASSUME NEW ctx, NEW m, Md2Holds(ctx, m)
  PROVE  /\ Tiny.block \in Nat \ {0}
         /\ Str(<<"MD2">>) /\ Str(<<>>)
         /\ Str(m) /\ Len(m) \in Nat
         /\ ctx.left \in 0 .. Tiny.block - 1
         /\ ctx.state = <<"MD2">> \o Blocks(Tiny.block, m)
         /\ ctx.cksum = Blocks(Tiny.block, m) /\ Str(ctx.cksum)
<1>1. Tiny.block \in Nat \ {0}
  BY DigestsAssumption
<1>2. Str(<<"MD2">>) /\ Str(<<>>)
  BY EmptyStr, AppendStr
<1> DEFINE k  == Tiny.block
           s0 == <<"MD2">>
           e  == <<>>
           a  == ctx.state
           c  == ctx.cksum
           t  == ctx.buffer
           n  == Len(m)
<1>3. /\ Str(t) /\ Len(t) = k /\ k \in Nat \ {0} /\ Str(s0) /\ Str(e)
      /\ Buffered(k, a, t, s0, m)
      /\ Buffered(k, c, t, e, m)
      /\ ctx.left = Remainder(k, n) /\ n = Len(m)
  BY <1>1, <1>2 DEF Md2Holds
<1> HIDE DEF k, s0, e, a, c, t, n
<1>4. /\ Str(m) /\ n \in Nat /\ a = s0 \o Blocks(k, m)
      /\ Remainder(k, n) \in 0 .. k - 1
  <2>1. Len(m) \in Nat /\ Remainder(k, Len(m)) \in 0 .. k - 1
    <3>1. EndShown(k, t, m)
      BY <1>3, BufferedShows
    <3> QED
      BY ONLY <3>1, Zenon DEF EndShown
  <2> QED
    BY <1>3, <2>1, BufferedBlocks
<1>5. c = Blocks(k, m) /\ Str(c)
  <2>1. c = e \o Blocks(k, m) /\ Str(Blocks(k, m))
    BY <1>3, BufferedBlocks
  <2> QED
    BY <2>1, EmptyStr DEF e
<1> QED
  BY <1>1, <1>2, <1>3, <1>4, <1>5 DEF k, s0, e, a, c, n

LEMMA Md2FillTakes ==
  ASSUME NEW ctx, NEW m, Md2Holds(ctx, m), NEW bytes, Str(bytes),
         ctx.left + Len(bytes) <= Tiny.block
  PROVE  Md2Holds(Md2Fill(ctx, bytes), m \o bytes) /\ SamePads(ctx, Md2Fill(ctx, bytes))
<1> DEFINE k == Tiny.block
           t == Copied(ctx.buffer, ctx.left, bytes)
           new == Md2Fill(ctx, bytes)
<1>1. /\ DOMAIN ctx = Fields
      /\ Str(ctx.buffer) /\ Len(ctx.buffer) = k
      /\ Buffered(k, ctx.state, ctx.buffer, <<"MD2">>, m)
      /\ Buffered(k, ctx.cksum, ctx.buffer, <<>>, m)
      /\ ctx.left = Remainder(k, Len(m))
  BY DEF Md2Holds
<1>2. /\ k \in Nat \ {0} /\ Str(<<"MD2">>) /\ Str(<<>>)
      /\ Str(m) /\ Len(m) \in Nat /\ ctx.left \in 0 .. k - 1 /\ Len(bytes) \in Nat
  BY Md2Shows DEF Str
<1>3. Len(m \o bytes) = Len(m) + Len(bytes)
  BY <1>2, JoinStr
<1>4. CASE ctx.left + Len(bytes) = k
  <2>1. new = [ctx EXCEPT !.buffer = t, !.state = Append(@, t), !.cksum = Append(@, t),
                          !.left = 0]
    BY <1>1, <1>4 DEF Md2Fill, Md2Process, Fields
  <2>2. /\ new.buffer = t /\ new.left = 0
        /\ new.state = Append(ctx.state, t) /\ new.cksum = Append(ctx.cksum, t)
        /\ SamePads(ctx, new)
    BY <1>1, <2>1 DEF Fields, SamePads
  <2> HIDE DEF new, k
  <2>3. t = Copied(ctx.buffer, Remainder(k, Len(m)), bytes)
        /\ Remainder(k, Len(m)) + Len(bytes) = k
    BY <1>1, <1>4
  <2> HIDE DEF t
  <2>4. Buffered(k, Append(ctx.state, t), t, <<"MD2">>, m \o bytes) /\ Str(t) /\ Len(t) = k
    <3> DEFINE s0 == <<"MD2">>
               c  == ctx.state
               b  == ctx.buffer
    <3>1. /\ k \in Nat \ {0} /\ Buffered(k, c, b, s0, m) /\ Str(s0) /\ Str(b) /\ Len(b) = k
          /\ Str(bytes) /\ Remainder(k, Len(m)) + Len(bytes) = k
          /\ t = Copied(b, Remainder(k, Len(m)), bytes)
      BY <1>1, <1>2, <2>3
    <3> HIDE DEF s0, c, b
    <3>2. Buffered(k, Append(c, t), t, s0, m \o bytes) /\ Str(t) /\ Len(t) = k
      BY ONLY <3>1, TakesFull
    <3> QED
      BY ONLY <3>2, Zenon DEF s0, c
  <2>5. Buffered(k, Append(ctx.cksum, t), t, <<>>, m \o bytes)
    <3> DEFINE s0 == <<>>
               c  == ctx.cksum
               b  == ctx.buffer
    <3>1. /\ k \in Nat \ {0} /\ Buffered(k, c, b, s0, m) /\ Str(s0) /\ Str(b) /\ Len(b) = k
          /\ Str(bytes) /\ Remainder(k, Len(m)) + Len(bytes) = k
          /\ t = Copied(b, Remainder(k, Len(m)), bytes)
      BY <1>1, <1>2, <2>3
    <3> HIDE DEF s0, c, b
    <3>2. Buffered(k, Append(c, t), t, s0, m \o bytes)
      BY ONLY <3>1, TakesFull
    <3> QED
      BY ONLY <3>2, Zenon DEF s0, c
  <2>6. Remainder(k, Len(m \o bytes)) = 0
    BY <1>2, <1>3, <2>3, RemainderAdds
  <2> QED
    BY <2>2, <2>4, <2>5, <2>6 DEF Md2Holds, SamePads, k, new
<1>5. CASE ctx.left + Len(bytes) # k
  <2>1. new = [ctx EXCEPT !.buffer = t, !.left = @ + Len(bytes)]
    BY <1>1, <1>5 DEF Md2Fill, Fields
  <2>2. /\ new.buffer = t /\ new.left = ctx.left + Len(bytes)
        /\ new.state = ctx.state /\ new.cksum = ctx.cksum
        /\ SamePads(ctx, new)
    BY <1>1, <2>1 DEF Fields, SamePads
  <2>3. ctx.left + Len(bytes) < k
    BY <1>2, <1>5
  <2> HIDE DEF new, k
  <2>4. t = Copied(ctx.buffer, Remainder(k, Len(m)), bytes)
        /\ Remainder(k, Len(m)) + Len(bytes) < k
    BY <1>1, <2>3
  <2> HIDE DEF t
  <2>5. Buffered(k, ctx.state, t, <<"MD2">>, m \o bytes) /\ Str(t) /\ Len(t) = k
    <3> DEFINE s0 == <<"MD2">>
    <3>1. Buffered(k, ctx.state, ctx.buffer, s0, m)
      BY <1>1
    <3> HIDE DEF s0
    <3>2. Buffered(k, ctx.state, t, s0, m \o bytes) /\ Str(t) /\ Len(t) = k
      BY <1>1, <1>2, <2>4, <3>1, TakesWaiting
    <3> QED
      BY <3>2 DEF s0
  <2>6. Buffered(k, ctx.cksum, t, <<>>, m \o bytes)
    BY <1>1, <1>2, <2>4, TakesWaiting
  <2>7. Remainder(k, Len(m \o bytes)) = Remainder(k, Len(m)) + Len(bytes)
    BY <1>2, <1>3, <2>4, RemainderAdds
  <2> QED
    BY <1>1, <2>2, <2>5, <2>6, <2>7 DEF Md2Holds, SamePads, k, new
<1> QED
  BY <1>4, <1>5

(* A string's first a bytes and the f that follow, under one name. *)
Parted(s, a, f) ==
  /\ Str(SubSeq(s, 1, a)) /\ Len(SubSeq(s, 1, a)) = a
  /\ Str(SubSeq(s, a + 1, a + f)) /\ Len(SubSeq(s, a + 1, a + f)) = f
  /\ SubSeq(s, 1, a) \o SubSeq(s, a + 1, a + f) = SubSeq(s, 1, a + f)

LEMMA PartsJoin ==
  ASSUME NEW s, Str(s), NEW a \in Nat, NEW f \in Nat, a + f <= Len(s)
  PROVE  Parted(s, a, f)
<1> DEFINE p == SubSeq(s, 1, a)
           q == SubSeq(s, a + 1, a + f)
           r == SubSeq(s, 1, a + f)
           u == p \o q
           n == Len(s)
           e == a + f
<1>1. n \in Nat /\ e \in Nat /\ a <= n /\ e <= n
  BY DEF Str
<1> HIDE DEF n
<1>2. Str(p) /\ Len(p) = a /\ \A i \in 1 .. a : p[i] = s[i]
  BY <1>1, SplitStr DEF n
<1>3. Str(r) /\ Len(r) = e /\ \A i \in 1 .. e : r[i] = s[i]
  <2> HIDE DEF e
  <2>1. Str(SubSeq(s, 1, e)) /\ Len(SubSeq(s, 1, e)) = e
        /\ \A i \in 1 .. e : SubSeq(s, 1, e)[i] = s[i]
    BY <1>1, SplitStr DEF n
  <2> QED
    BY <2>1 DEF e
<1>4. Str(q) /\ Len(q) = f /\ \A i \in 1 .. f : q[i] = s[a + i]
  <2>1. a + 1 \in Nat \ {0} /\ e \in Nat /\ a + 1 <= e + 1 /\ e <= Len(s)
    BY <1>1 DEF n
  <2>2. e - (a + 1) + 1 = f
    BY <1>1
  <2> DEFINE b == a + 1
  <2> HIDE DEF e, b
  <2>3. b \in Nat \ {0} /\ b <= e + 1 /\ e - b + 1 = f
    BY <2>1, <2>2 DEF b
  <2>4. /\ Str(SubSeq(s, b, e)) /\ Len(SubSeq(s, b, e)) = e - b + 1
        /\ \A i \in 1 .. e - b + 1 : SubSeq(s, b, e)[i] = s[b + i - 1]
    BY <2>1, <2>3, PartStr
  <2>5. \A i \in 1 .. f : b + i - 1 = a + i
    BY DEF b
  <2>6. q = SubSeq(s, b, e)
    BY DEF b, e
  <2> HIDE DEF q
  <2> QED
    BY <2>3, <2>4, <2>5, <2>6
<1> HIDE DEF p, q, r
<1>5. /\ Str(u) /\ Len(u) = e
      /\ \A i \in 1 .. a : u[i] = p[i]
      /\ \A i \in 1 .. f : u[a + i] = q[i]
  <2>1. Str(p) /\ Str(q)
    BY <1>2, <1>4
  <2>2. /\ Str(u) /\ Len(u) = Len(p) + Len(q)
        /\ \A i \in 1 .. Len(p) : u[i] = p[i]
        /\ \A i \in 1 .. Len(q) : u[Len(p) + i] = q[i]
    BY <2>1, JoinStr
  <2> HIDE DEF u
  <2> QED
    BY <1>2, <1>4, <2>2
<1> HIDE DEF u
<1>6. ASSUME NEW i \in 1 .. e
      PROVE  u[i] = r[i]
  <2>1. CASE i <= a
    <3>1. i \in 1 .. a
      BY <2>1
    <3> QED
      BY <1>2, <1>3, <1>5, <3>1
  <2>2. CASE ~(i <= a)
    <3>1. i - a \in 1 .. f /\ a + (i - a) = i
      BY <2>2
    <3>2. u[a + (i - a)] = q[i - a] /\ q[i - a] = s[a + (i - a)]
      BY <1>4, <1>5, <3>1
    <3> QED
      BY <1>3, <3>1, <3>2
  <2> QED
    BY <2>1, <2>2
<1>7. u = r
  BY <1>3, <1>5, <1>6, SameStr
<1>8. /\ Str(SubSeq(s, 1, a)) /\ Len(SubSeq(s, 1, a)) = a
      /\ Str(SubSeq(s, a + 1, a + f)) /\ Len(SubSeq(s, a + 1, a + f)) = f
      /\ SubSeq(s, 1, a) \o SubSeq(s, a + 1, a + f) = SubSeq(s, 1, a + f)
  BY <1>2, <1>4, <1>7 DEF u, p, q, r
<1> QED
  BY ONLY <1>8, Zenon DEF Parted

(* Where the loop of MD2's update is. *)
Md2At(at, ctx, m, input) ==
  /\ at.taken \in 0 .. Len(input)
  /\ Md2Holds(at.ctx, m \o SubSeq(input, 1, at.taken))
  /\ SamePads(ctx, at.ctx)

LEMMA Md2RoundTakes ==
  ASSUME NEW ctx, NEW m, Str(m), NEW input, Str(input), NEW at, Md2At(at, ctx, m, input),
         at.taken # Len(input)
  PROVE  /\ Md2At(Md2Round(at, input), ctx, m, input)
         /\ Md2Round(at, input).taken > at.taken
<1> DEFINE k == Tiny.block
           n == Len(input)
           a == at.taken
           left == at.ctx.left
           ilen == n - a
           fill == IF left + ilen > k THEN k - left ELSE ilen
           bytes == SubSeq(input, a + 1, a + fill)
           p == SubSeq(input, 1, a)
           new == Md2Round(at, input)
           next == Md2Fill(at.ctx, bytes)
<1>1. a \in 0 .. n /\ a # n /\ Md2Holds(at.ctx, m \o p) /\ SamePads(ctx, at.ctx)
      /\ n \in Nat
  BY DEF Md2At, Str
<1>2. k \in Nat \ {0} /\ left \in 0 .. k - 1
  BY <1>1, Md2Shows
<1> HIDE DEF k, n, a, left
<1>3. fill \in Nat /\ fill # 0 /\ a + fill <= n /\ left + fill <= k
  BY <1>1, <1>2
<1>4. new.ctx = next /\ new.taken = a + fill
  BY DEF Md2Round, k, n, a, left
<1> HIDE DEF fill, ilen, new
<1>5. /\ Str(p) /\ Str(bytes) /\ Len(bytes) = fill
      /\ p \o bytes = SubSeq(input, 1, a + fill)
  <2>1. a \in Nat /\ fill \in Nat /\ a + fill <= Len(input) /\ Str(input)
    BY <1>1, <1>3 DEF n
  <2>2. /\ Str(SubSeq(input, 1, a))
        /\ Str(SubSeq(input, a + 1, a + fill))
        /\ Len(SubSeq(input, a + 1, a + fill)) = fill
        /\ SubSeq(input, 1, a) \o SubSeq(input, a + 1, a + fill) = SubSeq(input, 1, a + fill)
    <3>1. Parted(input, a, fill)
      BY ONLY <2>1, PartsJoin, Zenon
    <3> QED
      BY ONLY <3>1, Zenon DEF Parted
  <2> QED
    BY ONLY <2>2, Zenon
<1> HIDE DEF p, bytes
<1>6. Md2Holds(next, (m \o p) \o bytes) /\ SamePads(at.ctx, next)
  <2>1. at.ctx.left + Len(bytes) <= Tiny.block
    BY <1>3, <1>5 DEF left, k
  <2> DEFINE mp == m \o p
             c == at.ctx
  <2>2. Md2Holds(c, mp) /\ c.left + Len(bytes) <= Tiny.block
    BY <1>1, <2>1
  <2> HIDE DEF mp, c
  <2>3. Md2Holds(Md2Fill(c, bytes), mp \o bytes) /\ SamePads(c, Md2Fill(c, bytes))
    BY <1>5, <2>2, Md2FillTakes
  <2> QED
    BY <2>3 DEF mp, c
<1> HIDE DEF next
<1>7. (m \o p) \o bytes = m \o SubSeq(input, 1, a + fill)
  <2>1. (m \o p) \o bytes = m \o (p \o bytes)
    <3>1. Str(m) /\ Str(p) /\ Str(bytes)
      BY <1>5
    <3>2. Joined(m, p, bytes)
      BY <3>1, JoinAssociates, Zenon
    <3> QED
      BY <3>2, Zenon DEF Joined
  <2> QED
    BY <1>5, <2>1
<1>8. SamePads(ctx, next)
  BY <1>1, <1>6 DEF SamePads
<1>9. a + fill \in 0 .. n /\ a + fill > a
  BY <1>1, <1>3
<1>10. Md2At(new, ctx, m, input)
  BY <1>4, <1>6, <1>7, <1>8, <1>9 DEF Md2At, n
<1> QED
  BY <1>4, <1>9, <1>10 DEF new, a

LEMMA WholeStr ==
  ASSUME NEW s, Str(s)
  PROVE  SubSeq(s, 1, Len(s)) = s /\ SubSeq(s, 1, 0) = <<>>
<1> DEFINE n == Len(s)
           p == SubSeq(s, 1, n)
           e == SubSeq(s, 1, 0)
<1>1. n \in Nat /\ n <= Len(s) /\ 0 <= Len(s)
  BY DEF Str
<1>2. Str(p) /\ Len(p) = n /\ \A i \in 1 .. n : p[i] = s[i]
  BY <1>1, SplitStr
<1>3. Str(e) /\ Len(e) = 0
  BY <1>1, SplitStr
<1> HIDE DEF p, e
<1>4. p = s
  BY <1>2, SameStr
<1>5. e = <<>>
  BY <1>3, EmptyStr
<1> QED
  BY <1>4, <1>5 DEF p, e

(* The loop of MD2's update takes the whole input. *)
LEMMA Md2UpdateTakes ==
  ASSUME NEW ctx, NEW m, Md2Holds(ctx, m), NEW input, Str(input)
  PROVE  Md2Holds(Md2Update(ctx, input), m \o input) /\ SamePads(ctx, Md2Update(ctx, input))
<1> DEFINE l == Len(input)
           first == [ctx |-> ctx, taken |-> 0]
           Step(at) == IF at.taken = l THEN at ELSE Md2Round(at, input)
           Run(f, n) == f = [i \in 0 .. n |-> IF i = 0 THEN first ELSE Step(f[i - 1])]
           after == CHOOSE f : Run(f, l)
<1>1. Md2Update(ctx, input) = after[l].ctx
  BY DEF Md2Update
<1>2. l \in Nat /\ Str(m)
  BY Md2Shows DEF Str
<1>3. Md2At(first, ctx, m, input)
  <2>1. first.taken = 0 /\ first.ctx = ctx
    OBVIOUS
  <2> HIDE DEF first
  <2>2. m \o SubSeq(input, 1, 0) = m
    BY <1>2, WholeStr, EmptyStr
  <2>3. SamePads(ctx, ctx)
    BY DEF SamePads, Md2Holds
  <2>4. 0 \in 0 .. Len(input)
    BY <1>2
  <2> QED
    BY <2>1, <2>2, <2>3, <2>4 DEF Md2At
<1>4. ASSUME NEW at, Md2At(at, ctx, m, input)
      PROVE  /\ Md2At(Step(at), ctx, m, input)
             /\ \A n \in Nat : n <= at.taken /\ n < l => n + 1 <= Step(at).taken
  <2>1. at.taken \in 0 .. l
    BY <1>4 DEF Md2At
  <2>2. CASE at.taken = l
    BY <1>2, <1>4, <2>1, <2>2
  <2>3. CASE at.taken # l
    <3>1. /\ Md2At(Md2Round(at, input), ctx, m, input)
          /\ Md2Round(at, input).taken > at.taken
      BY <1>2, <1>4, <2>3, Md2RoundTakes
    <3>2. Step(at) = Md2Round(at, input)
      BY <2>3
    <3> DEFINE b == Md2Round(at, input)
    <3> HIDE DEF b
    <3>3. Md2At(b, ctx, m, input) /\ b.taken > at.taken /\ Step(at) = b
      BY <3>1, <3>2 DEF b
    <3>4. b.taken \in 0 .. l
      BY <3>3 DEF Md2At
    <3> HIDE DEF Step
    <3> QED
      BY <1>2, <2>1, <3>3, <3>4
  <2> QED
    BY <2>2, <2>3
<1> HIDE DEF first, Step, l
<1>5. \A n \in Nat : \E f : Run(f, n)
  <2> DEFINE S == {n \in Nat : \E f : Run(f, n)}
  <2>1. 0 \in S
    <3> DEFINE f == [i \in 0 .. 0 |-> first]
    <3>1. Run(f, 0)
      OBVIOUS
    <3> HIDE DEF f
    <3> QED
      BY <3>1
  <2>2. ASSUME NEW n \in Nat, n \in S
        PROVE  n + 1 \in S
    <3>1. PICK f : Run(f, n)
      BY <2>2
    <3> DEFINE h == [i \in 0 .. n + 1 |-> IF i = n + 1 THEN Step(f[n]) ELSE f[i]]
    <3>2. ASSUME NEW i \in 0 .. n + 1
          PROVE  h[i] = IF i = 0 THEN first ELSE Step(h[i - 1])
      <4>1. CASE i = 0
        BY <3>1, <4>1
      <4>2. CASE i \in 1 .. n
        <5>1. h[i] = f[i] /\ h[i - 1] = f[i - 1] /\ i # 0 /\ i \in 0 .. n
          BY <4>2
        <5>2. f[i] = Step(f[i - 1])
          BY <3>1, <5>1
        <5> HIDE DEF h, Run
        <5> QED
          BY <5>1, <5>2
      <4>3. CASE i = n + 1
        <5>1. h[i] = Step(f[n]) /\ h[n] = f[n] /\ i # 0 /\ i - 1 = n
          BY <4>3
        <5> HIDE DEF h, Run
        <5> QED
          BY <5>1
      <4> QED
        BY <4>1, <4>2, <4>3
    <3>3. h = [i \in 0 .. n + 1 |-> h[i]]
      OBVIOUS
    <3> HIDE DEF h
    <3>4. Run(h, n + 1)
      BY <3>2, <3>3
    <3> QED
      BY <3>4
  <2> HIDE DEF S
  <2>3. Nat \subseteq S
    BY <2>1, <2>2, NumberInduction
  <2> QED
    BY <2>3 DEF S
<1>6. Run(after, l)
  <2>1. \E f : Run(f, l)
    BY <1>2, <1>5
  <2> HIDE DEF Run
  <2> QED
    BY <2>1
<1> HIDE DEF after
<1>7. \A n \in Nat : n <= l => Md2At(after[n], ctx, m, input) /\ n <= after[n].taken
  <2> DEFINE Good(n) == Md2At(after[n], ctx, m, input) /\ n <= after[n].taken
             S == {n \in Nat : n <= l => Good(n)}
  <2>1. 0 \in S
    <3>1. after[0] = first
      BY <1>2, <1>6
    <3>2. first.taken \in 0 .. Len(input)
      BY <1>3 DEF Md2At
    <3> QED
      BY <1>3, <3>1, <3>2
  <2>2. ASSUME NEW n \in Nat, n \in S
        PROVE  n + 1 \in S
    <3>1. SUFFICES ASSUME n + 1 <= l PROVE Good(n + 1)
      OBVIOUS
    <3>2. Md2At(after[n], ctx, m, input) /\ n <= after[n].taken /\ n < l
      BY <1>2, <2>2, <3>1
    <3>3. after[n + 1] = Step(after[n])
      <4>1. n + 1 \in 0 .. l /\ n + 1 # 0 /\ (n + 1) - 1 = n
        BY <1>2, <3>1
      <4> QED
        BY <1>6, <4>1
    <3>4. /\ Md2At(Step(after[n]), ctx, m, input)
          /\ n + 1 <= Step(after[n]).taken
      BY <1>4, <3>2
    <3> QED
      BY <3>3, <3>4
  <2> HIDE DEF S
  <2>3. Nat \subseteq S
    BY <2>1, <2>2, NumberInduction
  <2> QED
    BY <2>3 DEF S
<1>8. Md2At(after[l], ctx, m, input) /\ after[l].taken = l
  <2>1. Md2At(after[l], ctx, m, input) /\ l <= after[l].taken
    BY <1>2, <1>7
  <2>2. after[l].taken \in 0 .. l
    BY <2>1 DEF Md2At, l
  <2> QED
    BY <1>2, <2>1, <2>2
<1>9. SubSeq(input, 1, l) = input
  BY WholeStr DEF l
<1>10. Md2Holds(after[l].ctx, m \o input) /\ SamePads(ctx, after[l].ctx)
  BY <1>8, <1>9 DEF Md2At
<1> QED
  BY <1>1, <1>10

LEMMA ConstantStr ==
  ASSUME NEW n \in Nat, NEW e
  PROVE  Str([i \in 1 .. n |-> e]) /\ Len([i \in 1 .. n |-> e]) = n
<1> DEFINE s == [i \in 1 .. n |-> e]
<1>1. s = [i \in 1 .. n |-> s[i]]
  OBVIOUS
<1> HIDE DEF s
<1>2. Str(s) /\ Len(s) = n
  BY <1>1, IsStr
<1> QED
  BY <1>2 DEF s

LEMMA ChainAppends ==
  ASSUME NEW k \in Nat \ {0}, NEW state, Chain(k, state), NEW e, Len(e) = k
  PROVE  Chain(k, Append(state, e))
<1> DEFINE c == Append(state, e)
           n == Len(state)
<1>1. Str(state) /\ \A i \in DOMAIN state \ {1} : Len(state[i]) = k
  BY DEF Chain
<1>2. n \in Nat /\ DOMAIN state = 1 .. n
  BY <1>1 DEF Str
<1>3. /\ Str(c) /\ Len(c) = n + 1
      /\ \A i \in 1 .. n : c[i] = state[i]
      /\ c[n + 1] = e
  <2>1. Appended(state, e)
    BY ONLY <1>1, AppendAdds, Zenon
  <2> QED
    BY ONLY <2>1, Zenon DEF Appended
<1> HIDE DEF c, n
<1>4. DOMAIN c = 1 .. n + 1
  BY <1>3 DEF Str
<1>5. ASSUME NEW i \in DOMAIN c \ {1}
      PROVE  Len(c[i]) = k
  <2>1. CASE i = n + 1
    BY <1>3, <2>1
  <2>2. CASE i # n + 1
    <3>1. i \in 1 .. n /\ i # 1
      BY <1>2, <1>4, <2>2
    <3> QED
      BY <1>1, <1>2, <1>3, <3>1
  <2> QED
    BY <2>1, <2>2
<1> QED
  BY <1>3, <1>5 DEF Chain, c

LEMMA Md2FinishIsStandard ==
  ASSUME NEW ctx, NEW m, Md2Holds(ctx, m)
  PROVE  LET end == Md2Finish(ctx).ctx IN
         /\ Md2Finish(ctx).output = StandardDigest("MD2", m)
         /\ SamePads(ctx, end) /\ end.left = ctx.left
         /\ Str(end.buffer) /\ Len(end.buffer) = Tiny.block
         /\ Chain(Tiny.block, end.state)
<1> DEFINE k    == Tiny.block
           x    == k - ctx.left
           pads == [i \in 1 .. x |-> <<"pad", x>>]
           t    == Copied(ctx.buffer, ctx.left, pads)
           full == Md2Process([ctx EXCEPT !.buffer = t])
           sum  == Md2Checksum(full.cksum)
           end  == Md2Process([full EXCEPT !.buffer = sum])
           u    == m \o pads
           bs   == Blocks(k, u)
           s0   == <<"MD2">>
           e    == <<>>
<1>1. /\ Md2Finish(ctx).ctx = end
      /\ Md2Finish(ctx).output = Digest("MD2", end.state)
  BY DEF Md2Finish, Finished
<1>2. /\ full.buffer = t /\ full.left = ctx.left
      /\ full.state = Append(ctx.state, t) /\ full.cksum = Append(ctx.cksum, t)
      /\ SamePads(ctx, full)
  BY DEF Md2Process, Md2Holds, Fields, SamePads
<1> HIDE DEF full, t
<1>3. /\ end.buffer = sum /\ end.left = ctx.left
      /\ end.state = Append(full.state, sum)
      /\ SamePads(ctx, end)
  BY <1>2 DEF Md2Process, Fields, SamePads
<1> HIDE DEF end, sum, pads, x, k, bs, u, s0, e
<1>4. /\ k \in Nat \ {0} /\ Str(s0) /\ Str(e)
      /\ Str(m) /\ Len(m) \in Nat /\ ctx.left \in 0 .. k - 1
  BY Md2Shows DEF k, s0, e
<1>5. /\ Str(ctx.buffer) /\ Len(ctx.buffer) = k
      /\ Buffered(k, ctx.state, ctx.buffer, s0, m)
      /\ Buffered(k, ctx.cksum, ctx.buffer, e, m)
      /\ ctx.left = Remainder(k, Len(m))
  BY DEF Md2Holds, k, s0, e
<1>6. Str(pads) /\ Len(pads) = x
  <2>1. x \in Nat
    BY <1>4 DEF x
  <2> QED
    BY <2>1, ConstantStr DEF pads
<1>7. /\ Buffered(k, full.state, t, s0, u)
      /\ Buffered(k, full.cksum, t, e, u)
      /\ Str(t) /\ Len(t) = k
  <2>1. Remainder(k, Len(m)) + Len(pads) = k
    BY <1>4, <1>5, <1>6 DEF x
  <2>2. t = Copied(ctx.buffer, Remainder(k, Len(m)), pads)
    BY <1>5 DEF t
  <2>3. LET f == Copied(ctx.buffer, Remainder(k, Len(m)), pads) IN
        /\ Buffered(k, Append(ctx.state, f), f, s0, m \o pads)
        /\ Str(f) /\ Len(f) = k
    BY <1>4, <1>5, <1>6, <2>1, TakesFull
  <2>4. LET f == Copied(ctx.buffer, Remainder(k, Len(m)), pads) IN
        Buffered(k, Append(ctx.cksum, f), f, e, m \o pads)
    BY <1>4, <1>5, <1>6, <2>1, TakesFull
  <2> QED
    BY <1>2, <2>2, <2>3, <2>4 DEF u
<1>8. /\ full.state = s0 \o bs /\ Str(bs) /\ Str(u)
      /\ full.cksum = bs
  <2> DEFINE n == Len(u)
             a == full.state
             c == full.cksum
  <2>1. Buffered(k, a, t, s0, u) /\ Buffered(k, c, t, e, u) /\ n = Len(u)
    BY <1>7
  <2> HIDE DEF n, a, c
  <2>2. a = s0 \o bs /\ Str(bs) /\ Str(u)
    <3>1. /\ k \in Nat \ {0} /\ Str(s0) /\ Str(t) /\ Len(t) = k
          /\ Buffered(k, a, t, s0, u)
      BY <1>4, <1>7, <2>1
    <3>2. a = s0 \o Blocks(k, u) /\ Str(Blocks(k, u)) /\ Str(u)
      BY ONLY <3>1, BufferedBlocks
    <3> QED
      BY <3>2 DEF bs
  <2>3. c = e \o bs
    <3>1. /\ k \in Nat \ {0} /\ Str(e) /\ Str(t) /\ Len(t) = k
          /\ Buffered(k, c, t, e, u)
      BY <1>4, <1>7, <2>1
    <3>2. c = e \o Blocks(k, u)
      BY ONLY <3>1, BufferedBlocks
    <3> QED
      BY <3>2 DEF bs
  <2>4. e \o bs = bs
    BY <2>2, EmptyStr DEF e
  <2> QED
    BY <2>2, <2>3, <2>4 DEF a, c
<1>9. Str(sum) /\ Len(sum) = k
  <2>1. sum = [i \in 1 .. k |-> <<"cksum", full.cksum, i>>]
    BY DEF sum, Md2Checksum, k
  <2>2. sum = [i \in 1 .. k |-> sum[i]]
    BY <2>1
  <2> QED
    BY <1>4, <2>2, IsStr
<1>10. end.state = s0 \o Append(bs, sum)
  <2>1. Str(s0 \o bs)
    BY <1>4, <1>8, JoinStr
  <2>2. Append(s0 \o bs, sum) = (s0 \o bs) \o <<sum>> /\ Str(<<sum>>)
    BY <2>1, AppendStr
  <2>3. Append(bs, sum) = bs \o <<sum>>
    BY <1>8, AppendStr
  <2>4. (s0 \o bs) \o <<sum>> = s0 \o (bs \o <<sum>>)
    <3>1. Str(s0) /\ Str(bs) /\ Str(<<sum>>)
      BY <1>4, <1>8, <2>2
    <3>2. Joined(s0, bs, <<sum>>)
      BY <3>1, JoinAssociates, Zenon
    <3> QED
      BY <3>2, Zenon DEF Joined
  <2> QED
    BY <1>3, <1>8, <2>2, <2>3, <2>4
<1>11. Chain(k, end.state)
  <2>1. Chain(k, s0 \o bs)
    BY <1>4, <1>8, ChainOfBlocks DEF s0, bs
  <2>2. Chain(k, Append(s0 \o bs, sum))
    BY <1>4, <1>9, <2>1, ChainAppends
  <2> QED
    BY <1>3, <1>8, <2>2
<1>12. StandardDigest("MD2", m) = Digest("MD2", end.state)
  <2>1. x = Tiny.block - (Len(m) % Tiny.block)
    BY <1>5 DEF x, k, Remainder
  <2>2. PaddedMd2(m) = u
    BY <2>1 DEF PaddedMd2, u, pads
  <2>3. sum = Md2Checksum(bs)
    BY <1>8 DEF sum
  <2>4. StandardDigest("MD2", m) = Digest("MD2", <<"MD2">> \o Append(bs, Md2Checksum(bs)))
    BY <2>2 DEF StandardDigest, bs, k
  <2> QED
    BY <1>10, <2>3, <2>4 DEF s0
<1> QED
  BY <1>1, <1>3, <1>9, <1>11, <1>12 DEF k

-----------------------------------------------------------------------------
(* The tables. *)

LEMMA Md2Table ==
  ASSUME NEW ctx, NEW arg, NEW k, NEW input
  PROVE  /\ MdInfoFromType("MD2", "starts", ctx, arg) = Kept(Md2Starts(ctx))
         /\ MdInfoFromType("MD2", "update", ctx, arg) = Kept(Md2Update(ctx, arg))
         /\ MdInfoFromType("MD2", "finish", ctx, arg) = Md2Finish(ctx)
         /\ MdInfoFromType("MD2", "digest", ctx, arg) = Gives(Md2(arg))
         /\ MdInfoFromType("MD2", "hmac_starts", ctx, arg) = Kept(Md2HmacStarts(ctx, arg))
         /\ MdInfoFromType("MD2", "hmac_update", ctx, arg) = Kept(Md2HmacUpdate(ctx, arg))
         /\ MdInfoFromType("MD2", "hmac_finish", ctx, arg) = Md2HmacFinish(ctx)
         /\ MdInfoFromType("MD2", "hmac_reset", ctx, arg) = Kept(Md2HmacReset(ctx))
         /\ MdInfoFromType("MD2", "hmac", ctx, <<k, input>>) = Gives(Md2Hmac(k, input))
         /\ MdInfoFromType("MD2", "ctx_alloc", ctx, arg) = Kept(Garbage(arg))
BY Zenon DEF MdInfoFromType, Md2Info, Wrapped

LEMMA Md4Table ==
  ASSUME NEW ctx, NEW arg, NEW k, NEW input
  PROVE  /\ MdInfoFromType("MD4", "starts", ctx, arg) = Kept(Md4Starts(ctx))
         /\ MdInfoFromType("MD4", "update", ctx, arg) = Kept(Md4Update(ctx, arg))
         /\ MdInfoFromType("MD4", "finish", ctx, arg) = Md4Finish(ctx)
         /\ MdInfoFromType("MD4", "digest", ctx, arg) = Gives(Md4(arg))
         /\ MdInfoFromType("MD4", "hmac_starts", ctx, arg) = Kept(Md4HmacStarts(ctx, arg))
         /\ MdInfoFromType("MD4", "hmac_update", ctx, arg) = Kept(Md4HmacUpdate(ctx, arg))
         /\ MdInfoFromType("MD4", "hmac_finish", ctx, arg) = Md4HmacFinish(ctx)
         /\ MdInfoFromType("MD4", "hmac_reset", ctx, arg) = Kept(Md4HmacReset(ctx))
         /\ MdInfoFromType("MD4", "hmac", ctx, <<k, input>>) = Gives(Md4Hmac(k, input))
         /\ MdInfoFromType("MD4", "ctx_alloc", ctx, arg) = Kept(Garbage(arg))
BY Zenon DEF MdInfoFromType, Md4Info, Wrapped

LEMMA Md5Table ==
  ASSUME NEW ctx, NEW arg, NEW k, NEW input
  PROVE  /\ MdInfoFromType("MD5", "starts", ctx, arg) = Kept(Md5Starts(ctx))
         /\ MdInfoFromType("MD5", "update", ctx, arg) = Kept(Md5Update(ctx, arg))
         /\ MdInfoFromType("MD5", "finish", ctx, arg) = Md5Finish(ctx)
         /\ MdInfoFromType("MD5", "digest", ctx, arg) = Gives(Md5(arg))
         /\ MdInfoFromType("MD5", "hmac_starts", ctx, arg) = Kept(Md5HmacStarts(ctx, arg))
         /\ MdInfoFromType("MD5", "hmac_update", ctx, arg) = Kept(Md5HmacUpdate(ctx, arg))
         /\ MdInfoFromType("MD5", "hmac_finish", ctx, arg) = Md5HmacFinish(ctx)
         /\ MdInfoFromType("MD5", "hmac_reset", ctx, arg) = Kept(Md5HmacReset(ctx))
         /\ MdInfoFromType("MD5", "hmac", ctx, <<k, input>>) = Gives(Md5Hmac(k, input))
         /\ MdInfoFromType("MD5", "ctx_alloc", ctx, arg) = Kept(Garbage(arg))
BY Zenon DEF MdInfoFromType, Md5Info, Wrapped

LEMMA Sha1Table ==
  ASSUME NEW ctx, NEW arg, NEW k, NEW input
  PROVE  /\ MdInfoFromType("SHA1", "starts", ctx, arg) = Kept(Sha1Starts(ctx))
         /\ MdInfoFromType("SHA1", "update", ctx, arg) = Kept(Sha1Update(ctx, arg))
         /\ MdInfoFromType("SHA1", "finish", ctx, arg) = Sha1Finish(ctx)
         /\ MdInfoFromType("SHA1", "digest", ctx, arg) = Gives(Sha1(arg))
         /\ MdInfoFromType("SHA1", "hmac_starts", ctx, arg) = Kept(Sha1HmacStarts(ctx, arg))
         /\ MdInfoFromType("SHA1", "hmac_update", ctx, arg) = Kept(Sha1HmacUpdate(ctx, arg))
         /\ MdInfoFromType("SHA1", "hmac_finish", ctx, arg) = Sha1HmacFinish(ctx)
         /\ MdInfoFromType("SHA1", "hmac_reset", ctx, arg) = Kept(Sha1HmacReset(ctx))
         /\ MdInfoFromType("SHA1", "hmac", ctx, <<k, input>>) = Gives(Sha1Hmac(k, input))
         /\ MdInfoFromType("SHA1", "ctx_alloc", ctx, arg) = Kept(Garbage(arg))
BY Zenon DEF MdInfoFromType, Sha1Info, Wrapped

LEMMA Sha224Table ==
  ASSUME NEW ctx, NEW arg, NEW k, NEW input
  PROVE  /\ MdInfoFromType("SHA224", "starts", ctx, arg) = Kept(Sha2Starts(ctx, "SHA224"))
         /\ MdInfoFromType("SHA224", "update", ctx, arg) = Kept(Sha2Update(ctx, arg))
         /\ MdInfoFromType("SHA224", "finish", ctx, arg) = Sha2Finish(ctx)
         /\ MdInfoFromType("SHA224", "digest", ctx, arg) = Gives(Sha2(arg, "SHA224"))
         /\ MdInfoFromType("SHA224", "hmac_starts", ctx, arg) = Kept(Sha2HmacStarts(ctx, arg, "SHA224"))
         /\ MdInfoFromType("SHA224", "hmac_update", ctx, arg) = Kept(Sha2HmacUpdate(ctx, arg))
         /\ MdInfoFromType("SHA224", "hmac_finish", ctx, arg) = Sha2HmacFinish(ctx)
         /\ MdInfoFromType("SHA224", "hmac_reset", ctx, arg) = Kept(Sha2HmacReset(ctx))
         /\ MdInfoFromType("SHA224", "hmac", ctx, <<k, input>>) = Gives(Sha2Hmac(k, input, "SHA224"))
         /\ MdInfoFromType("SHA224", "ctx_alloc", ctx, arg) = Kept(Garbage(arg))
BY Zenon DEF MdInfoFromType, Sha224Info, Sha2Info, Wrapped

LEMMA Sha256Table ==
  ASSUME NEW ctx, NEW arg, NEW k, NEW input
  PROVE  /\ MdInfoFromType("SHA256", "starts", ctx, arg) = Kept(Sha2Starts(ctx, "SHA256"))
         /\ MdInfoFromType("SHA256", "update", ctx, arg) = Kept(Sha2Update(ctx, arg))
         /\ MdInfoFromType("SHA256", "finish", ctx, arg) = Sha2Finish(ctx)
         /\ MdInfoFromType("SHA256", "digest", ctx, arg) = Gives(Sha2(arg, "SHA256"))
         /\ MdInfoFromType("SHA256", "hmac_starts", ctx, arg) = Kept(Sha2HmacStarts(ctx, arg, "SHA256"))
         /\ MdInfoFromType("SHA256", "hmac_update", ctx, arg) = Kept(Sha2HmacUpdate(ctx, arg))
         /\ MdInfoFromType("SHA256", "hmac_finish", ctx, arg) = Sha2HmacFinish(ctx)
         /\ MdInfoFromType("SHA256", "hmac_reset", ctx, arg) = Kept(Sha2HmacReset(ctx))
         /\ MdInfoFromType("SHA256", "hmac", ctx, <<k, input>>) = Gives(Sha2Hmac(k, input, "SHA256"))
         /\ MdInfoFromType("SHA256", "ctx_alloc", ctx, arg) = Kept(Garbage(arg))
BY Zenon DEF MdInfoFromType, Sha256Info, Sha2Info, Wrapped

LEMMA Sha384Table ==
  ASSUME NEW ctx, NEW arg, NEW k, NEW input
  PROVE  /\ MdInfoFromType("SHA384", "starts", ctx, arg) = Kept(Sha4Starts(ctx, "SHA384"))
         /\ MdInfoFromType("SHA384", "update", ctx, arg) = Kept(Sha4Update(ctx, arg))
         /\ MdInfoFromType("SHA384", "finish", ctx, arg) = Sha4Finish(ctx)
         /\ MdInfoFromType("SHA384", "digest", ctx, arg) = Gives(Sha4(arg, "SHA384"))
         /\ MdInfoFromType("SHA384", "hmac_starts", ctx, arg) = Kept(Sha4HmacStarts(ctx, arg, "SHA384"))
         /\ MdInfoFromType("SHA384", "hmac_update", ctx, arg) = Kept(Sha4HmacUpdate(ctx, arg))
         /\ MdInfoFromType("SHA384", "hmac_finish", ctx, arg) = Sha4HmacFinish(ctx)
         /\ MdInfoFromType("SHA384", "hmac_reset", ctx, arg) = Kept(Sha4HmacReset(ctx))
         /\ MdInfoFromType("SHA384", "hmac", ctx, <<k, input>>) = Gives(Sha4Hmac(k, input, "SHA384"))
         /\ MdInfoFromType("SHA384", "ctx_alloc", ctx, arg) = Kept(Garbage(arg))
BY Zenon DEF MdInfoFromType, Sha384Info, Sha4Info, Wrapped

LEMMA Sha512Table ==
  ASSUME NEW ctx, NEW arg, NEW k, NEW input
  PROVE  /\ MdInfoFromType("SHA512", "starts", ctx, arg) = Kept(Sha4Starts(ctx, "SHA512"))
         /\ MdInfoFromType("SHA512", "update", ctx, arg) = Kept(Sha4Update(ctx, arg))
         /\ MdInfoFromType("SHA512", "finish", ctx, arg) = Sha4Finish(ctx)
         /\ MdInfoFromType("SHA512", "digest", ctx, arg) = Gives(Sha4(arg, "SHA512"))
         /\ MdInfoFromType("SHA512", "hmac_starts", ctx, arg) = Kept(Sha4HmacStarts(ctx, arg, "SHA512"))
         /\ MdInfoFromType("SHA512", "hmac_update", ctx, arg) = Kept(Sha4HmacUpdate(ctx, arg))
         /\ MdInfoFromType("SHA512", "hmac_finish", ctx, arg) = Sha4HmacFinish(ctx)
         /\ MdInfoFromType("SHA512", "hmac_reset", ctx, arg) = Kept(Sha4HmacReset(ctx))
         /\ MdInfoFromType("SHA512", "hmac", ctx, <<k, input>>) = Gives(Sha4Hmac(k, input, "SHA512"))
         /\ MdInfoFromType("SHA512", "ctx_alloc", ctx, arg) = Kept(Garbage(arg))
BY Zenon DEF MdInfoFromType, Sha512Info, Sha4Info, Wrapped

-----------------------------------------------------------------------------
(* What every algorithm's functions promise.                               *)

StartsOf(type, ctx) == MdInfoFromType(type, "starts", ctx, <<>>).ctx
UpdateOf(type, ctx, input) == MdInfoFromType(type, "update", ctx, input).ctx
FinishOf(type, ctx) == MdInfoFromType(type, "finish", ctx, <<>>)

Sha2s == {"SHA224", "SHA256"}
Sha4s == {"SHA384", "SHA512"}

Form(type, c) ==
  /\ DOMAIN c = Fields
  /\ Str(c.buffer) /\ Len(c.buffer) = BlockOf(type)
  /\ c.left \in 0 .. BlockOf(type) - 1
  /\ Chain(BlockOf(type), c.state)

(* The context of SHA-2 remembers which of the algorithms it is started for. *)
Named(type, c) == type \in Sha2s \cup Sha4s => c.variant = type

Good(type, c, m) ==
  /\ Form(type, c) /\ Named(type, c) /\ Str(m)
  /\ IF type = "MD2" THEN Md2Holds(c, m) ELSE Holds(Geometry(type), <<type>>, c, m)

KeepsPads(a, b) == a.ipad = b.ipad /\ a.opad = b.opad

(* A length whose bits can be counted. *)
Countable(type, n) ==
  n \in Nat /\ (type # "MD2" => 8 * n < Geometry(type).word * Geometry(type).word)

(* A length that one call can take. *)
OneCall(type, n) == n \in Nat /\ (type # "MD2" => n < Geometry(type).word)

LEMMA Geometries ==
  ASSUME NEW type \in Types
  PROVE  /\ Geometry(type).block = BlockOf(type)
         /\ BlockOf(type) \in Nat \ {0}
         /\ type = "MD2" => Geometry(type) = Tiny /\ BlockOf(type) = Tiny.block
         /\ type # "MD2" =>
              /\ FitsTotals(Geometry(type))
              /\ 16 * Geometry(type).block < Geometry(type).word * Geometry(type).word
         /\ type \in {"MD4", "MD5", "SHA1"} \cup Sha2s => Geometry(type) = Narrow
         /\ type \in Sha4s => Geometry(type) = Wide
<1>1. CASE type = "MD2"
  <2>1. Geometry(type) = Tiny /\ BlockOf(type) = Tiny.block
    BY <1>1, Zenon DEF Geometry, BlockOf
  <2>2. Tiny.block \in Nat \ {0}
    BY DigestsAssumption
  <2>3. ~(type \in {"MD4", "MD5", "SHA1"} \cup Sha2s) /\ ~(type \in Sha4s)
    BY <1>1 DEF Sha2s, Sha4s
  <2> QED
    BY <1>1, <2>1, <2>2, <2>3
<1>2. CASE type \in Sha4s
  <2>1. type # "MD2" /\ ~(type \in {"MD4", "MD5", "SHA1"} \cup Sha2s)
    BY <1>2 DEF Sha2s, Sha4s
  <2>2. Geometry(type) = Wide /\ BlockOf(type) = Wide.block
    BY <1>2, <2>1, Zenon DEF Geometry, BlockOf, Sha4s
  <2>3. FitsTotals(Wide) /\ Wide.block \in Nat \ {0}
    BY DigestsAssumption DEF FitsTotals
  <2>4. 16 * Wide.block < Wide.word * Wide.word
    BY LengthsAssumption DEF FitsStandard
  <2> QED
    BY <2>1, <2>2, <2>3, <2>4
<1>3. CASE type # "MD2" /\ type \notin Sha4s
  <2>1. Geometry(type) = Narrow /\ BlockOf(type) = Narrow.block
    BY <1>3, Zenon DEF Geometry, BlockOf, Sha4s
  <2>2. FitsTotals(Narrow) /\ Narrow.block \in Nat \ {0}
    BY DigestsAssumption DEF FitsTotals
  <2>3. 16 * Narrow.block < Narrow.word * Narrow.word
    BY LengthsAssumption DEF FitsStandard
  <2> QED
    BY <1>3, <2>1, <2>2, <2>3
<1> QED
  BY <1>1, <1>2, <1>3

LEMMA BufferedNothing ==
  ASSUME NEW k \in Nat \ {0}, NEW s0, Str(s0), NEW buffer
  PROVE  Buffered(k, s0, buffer, s0, <<>>)
<1> DEFINE e == <<>>
<1>1. Str(e) /\ Len(e) = 0 /\ e = e \o e /\ s0 = s0 \o e
  BY EmptyStr
<1>2. Blocks(k, e) = e
  BY <1>1, ShortBlocks
<1>3. Multiple(k, 0)
  BY OneMultiple
<1> HIDE DEF e
<1>4. Held(k, s0, buffer, s0, e, e)
  BY <1>1, <1>2, <1>3 DEF Held
<1>5. Buffered(k, s0, buffer, s0, e)
  BY <1>1, <1>4 DEF Buffered
<1> QED
  BY <1>5 DEF e

LEMMA ChainBegins ==
  ASSUME NEW k, NEW iv
  PROVE  Chain(k, <<iv>>) /\ Str(<<iv>>)
<1>1. Str(<<iv>>)
  BY EmptyStr, AppendStr
<1> QED
  BY <1>1 DEF Chain

(* sha1_starts and its like, and md2_starts. *)
LEMMA StartsHolds ==
  ASSUME NEW type \in Types \ {"MD2"}, NEW c, Form(type, c)
  PROVE  LET new == Starts(c, type) IN
         /\ Form(type, new) /\ Holds(Geometry(type), <<type>>, new, <<>>)
         /\ KeepsPads(c, new) /\ new.variant = c.variant
<1> DEFINE new == Starts(c, type)
           g == Geometry(type)
           s0 == <<type>>
           e == <<>>
           zero == <<0, 0>>
<1>1. DOMAIN c = Fields /\ Str(c.buffer) /\ Len(c.buffer) = g.block
      /\ c.left \in 0 .. BlockOf(type) - 1
  BY Geometries DEF Form
<1>2. g.block \in Nat \ {0} /\ FitsTotals(g) /\ g.block = BlockOf(type)
  BY Geometries
<1>3. new = [c EXCEPT !.total = zero, !.state = s0]
  BY DEF Starts
<1>4. /\ DOMAIN new = Fields /\ new.total = zero /\ new.state = s0
      /\ new.buffer = c.buffer /\ new.left = c.left /\ new.variant = c.variant
      /\ KeepsPads(c, new)
  BY <1>1, <1>3 DEF Fields, KeepsPads
<1>5. Counts(g, zero, 0)
  BY <1>2 DEF Counts, FitsTotals
<1>6. Len(e) = 0
  OBVIOUS
<1> HIDE DEF new, g, s0, e, zero
<1>7. Chain(g.block, s0) /\ Str(s0)
  BY ChainBegins DEF s0
<1>8. Buffered(g.block, s0, c.buffer, s0, e)
  BY <1>2, <1>7, BufferedNothing DEF e
<1>9. Holds(g, s0, new, e)
  BY <1>1, <1>4, <1>5, <1>6, <1>8 DEF Holds
<1>10. Form(type, new)
  BY <1>1, <1>2, <1>4, <1>7 DEF Form
<1> QED
  BY <1>4, <1>9, <1>10 DEF new, g, s0, e

LEMMA Md2StartsHolds ==
  ASSUME NEW c, Form("MD2", c)
  PROVE  LET new == Md2Starts(c) IN
         /\ Form("MD2", new) /\ Md2Holds(new, <<>>)
         /\ KeepsPads(c, new) /\ new.variant = c.variant
<1> DEFINE new == Md2Starts(c)
           k == Tiny.block
           s0 == <<"MD2">>
           e == <<>>
           t == [i \in 1 .. k |-> Zero]
<1>1. DOMAIN c = Fields
  BY DEF Form
<1>2. k \in Nat \ {0} /\ k = BlockOf("MD2") /\ Remainder(k, 0) = 0
  <2>1. k \in Nat \ {0} /\ k = BlockOf("MD2")
    BY Geometries DEF Types
  <2> QED
    BY <2>1, NoMultiple
<1>3. new = [c EXCEPT !.cksum = e, !.state = s0, !.left = 0, !.buffer = t]
  BY DEF Md2Starts
<1>4. /\ DOMAIN new = Fields /\ new.cksum = e /\ new.state = s0 /\ new.left = 0
      /\ new.buffer = t /\ new.variant = c.variant
      /\ KeepsPads(c, new)
  BY <1>1, <1>3 DEF Fields, KeepsPads
<1>5. Len(e) = 0 /\ Str(e)
  BY EmptyStr
<1>6. Str(t) /\ Len(t) = k
  BY <1>2, ConstantStr
<1> HIDE DEF new, k, s0, e, t
<1>7. Chain(k, s0) /\ Str(s0)
  BY ChainBegins DEF s0
<1>8. Buffered(k, s0, t, s0, e)
  BY <1>2, <1>7, BufferedNothing DEF e
<1>9. Buffered(k, e, t, e, e)
  BY <1>2, <1>5, BufferedNothing DEF e
<1>10. Md2Holds(new, e)
  BY <1>2, <1>4, <1>5, <1>6, <1>8, <1>9 DEF Md2Holds, k, s0, e
<1>11. Form("MD2", new)
  BY <1>2, <1>4, <1>6, <1>7 DEF Form
<1> QED
  BY <1>4, <1>10, <1>11 DEF new, e

(* The tables, in terms of the functions that all but MD2 have in common.   *)
TypeCases(type) ==
  \/ type = "MD4" \/ type = "MD5" \/ type = "SHA1"
  \/ type = "SHA224" \/ type = "SHA256" \/ type = "SHA384" \/ type = "SHA512"

LEMMA EveryType ==
  ASSUME NEW type \in Types \ {"MD2"}
  PROVE  TypeCases(type)
BY DEF Types, TypeCases

LEMMA KeptIs ==
  /\ \A x : Kept(x).ctx = x
  /\ \A x : Gives(x).output = x
  /\ \A x, y : Finished(x, y).ctx = x /\ Finished(x, y).output = Digest(y, x.state)
BY DEF Kept, Gives, Finished

LEMMA StartsOfIs ==
  ASSUME NEW type \in Types \ {"MD2"}, NEW c
  PROVE  StartsOf(type, c) =
           Starts(IF type \in Sha2s \cup Sha4s THEN [c EXCEPT !.variant = type] ELSE c, type)
<1>1. CASE type = "MD4"
  <2>1. StartsOf("MD4", c) = Md4Starts(c)
    <3>1. MdInfoFromType("MD4", "starts", c, <<>>) = Kept(Md4Starts(c))
      BY Md4Table
    <3> QED
      BY <3>1, KeptIs DEF StartsOf
  <2>2. ~("MD4" \in Sha2s \cup Sha4s)
    BY DEF Sha2s, Sha4s
  <2> QED
    BY <1>1, <2>1, <2>2 DEF Md4Starts
<1>2. CASE type = "MD5"
  <2>1. StartsOf("MD5", c) = Md5Starts(c)
    <3>1. MdInfoFromType("MD5", "starts", c, <<>>) = Kept(Md5Starts(c))
      BY Md5Table
    <3> QED
      BY <3>1, KeptIs DEF StartsOf
  <2>2. ~("MD5" \in Sha2s \cup Sha4s)
    BY DEF Sha2s, Sha4s
  <2> QED
    BY <1>2, <2>1, <2>2 DEF Md5Starts
<1>3. CASE type = "SHA1"
  <2>1. StartsOf("SHA1", c) = Sha1Starts(c)
    <3>1. MdInfoFromType("SHA1", "starts", c, <<>>) = Kept(Sha1Starts(c))
      BY Sha1Table
    <3> QED
      BY <3>1, KeptIs DEF StartsOf
  <2>2. ~("SHA1" \in Sha2s \cup Sha4s)
    BY DEF Sha2s, Sha4s
  <2> QED
    BY <1>3, <2>1, <2>2 DEF Sha1Starts
<1>4. CASE type = "SHA224"
  <2>1. StartsOf("SHA224", c) = Sha2Starts(c, "SHA224")
    <3>1. MdInfoFromType("SHA224", "starts", c, <<>>) = Kept(Sha2Starts(c, "SHA224"))
      BY Sha224Table
    <3> QED
      BY <3>1, KeptIs DEF StartsOf
  <2>2. "SHA224" \in Sha2s \cup Sha4s
    BY DEF Sha2s, Sha4s
  <2> QED
    BY <1>4, <2>1, <2>2 DEF Sha2Starts
<1>5. CASE type = "SHA256"
  <2>1. StartsOf("SHA256", c) = Sha2Starts(c, "SHA256")
    <3>1. MdInfoFromType("SHA256", "starts", c, <<>>) = Kept(Sha2Starts(c, "SHA256"))
      BY Sha256Table
    <3> QED
      BY <3>1, KeptIs DEF StartsOf
  <2>2. "SHA256" \in Sha2s \cup Sha4s
    BY DEF Sha2s, Sha4s
  <2> QED
    BY <1>5, <2>1, <2>2 DEF Sha2Starts
<1>6. CASE type = "SHA384"
  <2>1. StartsOf("SHA384", c) = Sha4Starts(c, "SHA384")
    <3>1. MdInfoFromType("SHA384", "starts", c, <<>>) = Kept(Sha4Starts(c, "SHA384"))
      BY Sha384Table
    <3> QED
      BY <3>1, KeptIs DEF StartsOf
  <2>2. "SHA384" \in Sha2s \cup Sha4s
    BY DEF Sha2s, Sha4s
  <2> QED
    BY <1>6, <2>1, <2>2 DEF Sha4Starts
<1>7. CASE type = "SHA512"
  <2>1. StartsOf("SHA512", c) = Sha4Starts(c, "SHA512")
    <3>1. MdInfoFromType("SHA512", "starts", c, <<>>) = Kept(Sha4Starts(c, "SHA512"))
      BY Sha512Table
    <3> QED
      BY <3>1, KeptIs DEF StartsOf
  <2>2. "SHA512" \in Sha2s \cup Sha4s
    BY DEF Sha2s, Sha4s
  <2> QED
    BY <1>7, <2>1, <2>2 DEF Sha4Starts
<1> QED
  BY <1>1, <1>2, <1>3, <1>4, <1>5, <1>6, <1>7, EveryType DEF TypeCases

LEMMA UpdateOfIs ==
  ASSUME NEW type \in Types \ {"MD2"}, NEW c, NEW input
  PROVE  UpdateOf(type, c, input) = Update(Geometry(type), Append, c, input)
<1>1. CASE type = "MD4"
  <2>1. UpdateOf("MD4", c, input) = Md4Update(c, input)
    <3>1. MdInfoFromType("MD4", "update", c, input) = Kept(Md4Update(c, input))
      BY Md4Table
    <3> QED
      BY <3>1, KeptIs DEF UpdateOf
  <2>2. Md4Update(c, input) = Update(Narrow, Append, c, input)
    BY DEF Md4Update, Update, Md4Process
  <2>3. Geometry("MD4") = Narrow
    BY Geometries DEF Types, Sha2s, Sha4s
  <2> QED
    BY <1>1, <2>1, <2>2, <2>3
<1>2. CASE type = "MD5"
  <2>1. UpdateOf("MD5", c, input) = Md5Update(c, input)
    <3>1. MdInfoFromType("MD5", "update", c, input) = Kept(Md5Update(c, input))
      BY Md5Table
    <3> QED
      BY <3>1, KeptIs DEF UpdateOf
  <2>2. Md5Update(c, input) = Update(Narrow, Append, c, input)
    BY DEF Md5Update, Update, Md5Process
  <2>3. Geometry("MD5") = Narrow
    BY Geometries DEF Types, Sha2s, Sha4s
  <2> QED
    BY <1>2, <2>1, <2>2, <2>3
<1>3. CASE type = "SHA1"
  <2>1. UpdateOf("SHA1", c, input) = Sha1Update(c, input)
    <3>1. MdInfoFromType("SHA1", "update", c, input) = Kept(Sha1Update(c, input))
      BY Sha1Table
    <3> QED
      BY <3>1, KeptIs DEF UpdateOf
  <2>2. Sha1Update(c, input) = Update(Narrow, Append, c, input)
    BY DEF Sha1Update, Update, Sha1Process
  <2>3. Geometry("SHA1") = Narrow
    BY Geometries DEF Types, Sha2s, Sha4s
  <2> QED
    BY <1>3, <2>1, <2>2, <2>3
<1>4. CASE type = "SHA224"
  <2>1. UpdateOf("SHA224", c, input) = Sha2Update(c, input)
    <3>1. MdInfoFromType("SHA224", "update", c, input) = Kept(Sha2Update(c, input))
      BY Sha224Table
    <3> QED
      BY <3>1, KeptIs DEF UpdateOf
  <2>2. Sha2Update(c, input) = Update(Narrow, Append, c, input)
    BY DEF Sha2Update, Update, Sha2Process
  <2>3. Geometry("SHA224") = Narrow
    BY Geometries DEF Types, Sha2s, Sha4s
  <2> QED
    BY <1>4, <2>1, <2>2, <2>3
<1>5. CASE type = "SHA256"
  <2>1. UpdateOf("SHA256", c, input) = Sha2Update(c, input)
    <3>1. MdInfoFromType("SHA256", "update", c, input) = Kept(Sha2Update(c, input))
      BY Sha256Table
    <3> QED
      BY <3>1, KeptIs DEF UpdateOf
  <2>2. Sha2Update(c, input) = Update(Narrow, Append, c, input)
    BY DEF Sha2Update, Update, Sha2Process
  <2>3. Geometry("SHA256") = Narrow
    BY Geometries DEF Types, Sha2s, Sha4s
  <2> QED
    BY <1>5, <2>1, <2>2, <2>3
<1>6. CASE type = "SHA384"
  <2>1. UpdateOf("SHA384", c, input) = Sha4Update(c, input)
    <3>1. MdInfoFromType("SHA384", "update", c, input) = Kept(Sha4Update(c, input))
      BY Sha384Table
    <3> QED
      BY <3>1, KeptIs DEF UpdateOf
  <2>2. Sha4Update(c, input) = Update(Wide, Append, c, input)
    BY DEF Sha4Update, Update, Sha4Process
  <2>3. Geometry("SHA384") = Wide
    BY Geometries DEF Types, Sha2s, Sha4s
  <2> QED
    BY <1>6, <2>1, <2>2, <2>3
<1>7. CASE type = "SHA512"
  <2>1. UpdateOf("SHA512", c, input) = Sha4Update(c, input)
    <3>1. MdInfoFromType("SHA512", "update", c, input) = Kept(Sha4Update(c, input))
      BY Sha512Table
    <3> QED
      BY <3>1, KeptIs DEF UpdateOf
  <2>2. Sha4Update(c, input) = Update(Wide, Append, c, input)
    BY DEF Sha4Update, Update, Sha4Process
  <2>3. Geometry("SHA512") = Wide
    BY Geometries DEF Types, Sha2s, Sha4s
  <2> QED
    BY <1>7, <2>1, <2>2, <2>3
<1> QED
  BY <1>1, <1>2, <1>3, <1>4, <1>5, <1>6, <1>7, EveryType DEF TypeCases

(* A finish is the same two updates in all of them. *)
PaddedBy(type, g, c) ==
  Update(g, Append, Update(g, Append, c, Padding(PadCount(g, c.total))),
         FieldOf(type, g, High(g, c.total), Low(g, c.total)))

LEMMA FinishOfIs ==
  ASSUME NEW type \in Types \ {"MD2"}, NEW c, Named(type, c)
  PROVE  FinishOf(type, c) = Finished(PaddedBy(type, Geometry(type), c), type)
<1> USE DEF FinishOf
<1>1. CASE type = "MD4"
  <2>1. FinishOf("MD4", c) = Md4Finish(c)
    BY Md4Table
  <2>2. \A x, b : Md4Update(x, b) = Update(Narrow, Append, x, b)
    BY DEF Md4Update, Update, Md4Process
  <2>3. Geometry("MD4") = Narrow
    BY Geometries DEF Types, Sha2s, Sha4s
  <2>4. \A h, l : FieldOf("MD4", Narrow, h, l) = LittleEndian(Narrow, h, l)
    BY DEF FieldOf
  <2>5. Md4Finish(c) = Finished(Md4Update(Md4Update(c, Padding(PadCount(Narrow, c.total))),
                                LittleEndian(Narrow, High(Narrow, c.total), Low(Narrow, c.total))), "MD4")
    BY Zenon DEF Md4Finish, Padded
  <2> QED
    BY <1>1, <2>1, <2>2, <2>3, <2>4, <2>5 DEF PaddedBy
<1>2. CASE type = "MD5"
  <2>1. FinishOf("MD5", c) = Md5Finish(c)
    BY Md5Table
  <2>2. \A x, b : Md5Update(x, b) = Update(Narrow, Append, x, b)
    BY DEF Md5Update, Update, Md5Process
  <2>3. Geometry("MD5") = Narrow
    BY Geometries DEF Types, Sha2s, Sha4s
  <2>4. \A h, l : FieldOf("MD5", Narrow, h, l) = LittleEndian(Narrow, h, l)
    BY DEF FieldOf
  <2>5. Md5Finish(c) = Finished(Md5Update(Md5Update(c, Padding(PadCount(Narrow, c.total))),
                                LittleEndian(Narrow, High(Narrow, c.total), Low(Narrow, c.total))), "MD5")
    BY Zenon DEF Md5Finish, Padded
  <2> QED
    BY <1>2, <2>1, <2>2, <2>3, <2>4, <2>5 DEF PaddedBy
<1>3. CASE type = "SHA1"
  <2>1. FinishOf("SHA1", c) = Sha1Finish(c)
    BY Sha1Table
  <2>2. \A x, b : Sha1Update(x, b) = Update(Narrow, Append, x, b)
    BY DEF Sha1Update, Update, Sha1Process
  <2>3. Geometry("SHA1") = Narrow
    BY Geometries DEF Types, Sha2s, Sha4s
  <2>4. \A h, l : FieldOf("SHA1", Narrow, h, l) = BigEndian(Narrow, h, l)
    BY DEF FieldOf
  <2>5. Sha1Finish(c) = Finished(Sha1Update(Sha1Update(c, Padding(PadCount(Narrow, c.total))),
                                BigEndian(Narrow, High(Narrow, c.total), Low(Narrow, c.total))), "SHA1")
    BY Zenon DEF Sha1Finish, Padded
  <2> QED
    BY <1>3, <2>1, <2>2, <2>3, <2>4, <2>5 DEF PaddedBy
<1>4. CASE type = "SHA224"
  <2>1. FinishOf("SHA224", c) = Sha2Finish(c)
    BY Sha224Table
  <2>2. \A x, b : Sha2Update(x, b) = Update(Narrow, Append, x, b)
    BY DEF Sha2Update, Update, Sha2Process
  <2>3. Geometry("SHA224") = Narrow
    BY Geometries DEF Types, Sha2s, Sha4s
  <2>4. \A h, l : FieldOf("SHA224", Narrow, h, l) = BigEndian(Narrow, h, l)
    BY DEF FieldOf
  <2>5. Sha2Finish(c) = Finished(Sha2Update(Sha2Update(c, Padding(PadCount(Narrow, c.total))),
                                BigEndian(Narrow, High(Narrow, c.total), Low(Narrow, c.total))), c.variant)
    BY Zenon DEF Sha2Finish, Padded
  <2>6. c.variant = "SHA224"
    BY <1>4 DEF Named, Sha2s, Sha4s
  <2> QED
    BY <1>4, <2>1, <2>2, <2>3, <2>4, <2>5, <2>6 DEF PaddedBy
<1>5. CASE type = "SHA256"
  <2>1. FinishOf("SHA256", c) = Sha2Finish(c)
    BY Sha256Table
  <2>2. \A x, b : Sha2Update(x, b) = Update(Narrow, Append, x, b)
    BY DEF Sha2Update, Update, Sha2Process
  <2>3. Geometry("SHA256") = Narrow
    BY Geometries DEF Types, Sha2s, Sha4s
  <2>4. \A h, l : FieldOf("SHA256", Narrow, h, l) = BigEndian(Narrow, h, l)
    BY DEF FieldOf
  <2>5. Sha2Finish(c) = Finished(Sha2Update(Sha2Update(c, Padding(PadCount(Narrow, c.total))),
                                BigEndian(Narrow, High(Narrow, c.total), Low(Narrow, c.total))), c.variant)
    BY Zenon DEF Sha2Finish, Padded
  <2>6. c.variant = "SHA256"
    BY <1>5 DEF Named, Sha2s, Sha4s
  <2> QED
    BY <1>5, <2>1, <2>2, <2>3, <2>4, <2>5, <2>6 DEF PaddedBy
<1>6. CASE type = "SHA384"
  <2>1. FinishOf("SHA384", c) = Sha4Finish(c)
    BY Sha384Table
  <2>2. \A x, b : Sha4Update(x, b) = Update(Wide, Append, x, b)
    BY DEF Sha4Update, Update, Sha4Process
  <2>3. Geometry("SHA384") = Wide
    BY Geometries DEF Types, Sha2s, Sha4s
  <2>4. \A h, l : FieldOf("SHA384", Wide, h, l) = BigEndian(Wide, h, l)
    BY DEF FieldOf
  <2>5. Sha4Finish(c) = Finished(Sha4Update(Sha4Update(c, Padding(PadCount(Wide, c.total))),
                                BigEndian(Wide, High(Wide, c.total), Low(Wide, c.total))), c.variant)
    BY Zenon DEF Sha4Finish, Padded
  <2>6. c.variant = "SHA384"
    BY <1>6 DEF Named, Sha2s, Sha4s
  <2> QED
    BY <1>6, <2>1, <2>2, <2>3, <2>4, <2>5, <2>6 DEF PaddedBy
<1>7. CASE type = "SHA512"
  <2>1. FinishOf("SHA512", c) = Sha4Finish(c)
    BY Sha512Table
  <2>2. \A x, b : Sha4Update(x, b) = Update(Wide, Append, x, b)
    BY DEF Sha4Update, Update, Sha4Process
  <2>3. Geometry("SHA512") = Wide
    BY Geometries DEF Types, Sha2s, Sha4s
  <2>4. \A h, l : FieldOf("SHA512", Wide, h, l) = BigEndian(Wide, h, l)
    BY DEF FieldOf
  <2>5. Sha4Finish(c) = Finished(Sha4Update(Sha4Update(c, Padding(PadCount(Wide, c.total))),
                                BigEndian(Wide, High(Wide, c.total), Low(Wide, c.total))), c.variant)
    BY Zenon DEF Sha4Finish, Padded
  <2>6. c.variant = "SHA512"
    BY <1>7 DEF Named, Sha2s, Sha4s
  <2> QED
    BY <1>7, <2>1, <2>2, <2>3, <2>4, <2>5, <2>6 DEF PaddedBy
<1> QED
  BY <1>1, <1>2, <1>3, <1>4, <1>5, <1>6, <1>7, EveryType DEF TypeCases

LEMMA Md2Of ==
  ASSUME NEW c, NEW input
  PROVE  /\ StartsOf("MD2", c) = Md2Starts(c)
         /\ UpdateOf("MD2", c, input) = Md2Update(c, input)
         /\ FinishOf("MD2", c) = Md2Finish(c)
<1>1. MdInfoFromType("MD2", "starts", c, <<>>) = Kept(Md2Starts(c))
  BY Md2Table
<1>2. MdInfoFromType("MD2", "update", c, input) = Kept(Md2Update(c, input))
  BY Md2Table
<1>3. MdInfoFromType("MD2", "finish", c, <<>>) = Md2Finish(c)
  BY Md2Table
<1> QED
  BY <1>1, <1>2, <1>3, KeptIs DEF StartsOf, UpdateOf, FinishOf

(* The functions start, feed and finish a message in whatever context has  *)
(* the form of the algorithm.                                              *)
LEMMA StartsGood ==
  ASSUME NEW type \in Types, NEW c, Form(type, c)
  PROVE  Good(type, StartsOf(type, c), <<>>) /\ KeepsPads(c, StartsOf(type, c))
<1> DEFINE e == <<>>
           new == StartsOf(type, c)
<1>1. Str(e)
  BY EmptyStr
<1>2. CASE type = "MD2"
  <2>1. new = Md2Starts(c)
    BY <1>2, Md2Of
  <2>2. Form("MD2", new) /\ Md2Holds(new, <<>>) /\ KeepsPads(c, new)
    BY <1>2, <2>1, Md2StartsHolds
  <2>3. Named(type, new)
    BY <1>2 DEF Named, Sha2s, Sha4s
  <2> HIDE DEF new
  <2> QED
    BY <1>1, <1>2, <2>2, <2>3 DEF Good, new
<1>3. CASE type # "MD2"
  <2> DEFINE d == IF type \in Sha2s \cup Sha4s THEN [c EXCEPT !.variant = type] ELSE c
  <2>1. new = Starts(d, type)
    BY <1>3, StartsOfIs
  <2>2. Form(type, d) /\ KeepsPads(c, d) /\ Named(type, d)
    BY DEF Form, KeepsPads, Named, Fields
  <2> HIDE DEF d
  <2>3. /\ Form(type, new) /\ Holds(Geometry(type), <<type>>, new, <<>>)
        /\ KeepsPads(d, new) /\ new.variant = d.variant
    BY <1>3, <2>1, <2>2, StartsHolds
  <2> HIDE DEF new
  <2>4. Named(type, new) /\ KeepsPads(c, new)
    BY <2>2, <2>3 DEF Named, KeepsPads
  <2> QED
    BY <1>1, <1>3, <2>3, <2>4 DEF Good, new
<1> QED
  BY <1>2, <1>3

LEMMA GoodChain ==
  ASSUME NEW type \in Types, NEW c, NEW m,
         IF type = "MD2" THEN Md2Holds(c, m) ELSE Holds(Geometry(type), <<type>>, c, m)
  PROVE  /\ DOMAIN c = Fields /\ Str(c.buffer) /\ Len(c.buffer) = BlockOf(type)
         /\ Str(m) /\ Len(m) \in Nat
         /\ c.state = <<type>> \o Blocks(BlockOf(type), m)
         /\ Chain(BlockOf(type), c.state)
         /\ Remainder(BlockOf(type), Len(m)) \in 0 .. BlockOf(type) - 1
         /\ SubSeq(c.buffer, 1, Remainder(BlockOf(type), Len(m))) =
              SubSeq(m, Len(m) - Remainder(BlockOf(type), Len(m)) + 1, Len(m))
<1> DEFINE k == BlockOf(type)
           s0 == <<type>>
           a == c.state
           t == c.buffer
           n == Len(m)
<1>1. /\ k \in Nat \ {0} /\ Geometry(type).block = k
      /\ type = "MD2" => k = Tiny.block
  BY Geometries
<1>2. /\ DOMAIN c = Fields /\ Str(t) /\ Len(t) = k /\ Buffered(k, a, t, s0, m)
      /\ n = Len(m)
  BY <1>1 DEF Md2Holds, Holds
<1>3. Str(s0)
  BY ChainBegins
<1> HIDE DEF k, s0, a, t, n
<1>4. /\ Str(m) /\ n \in Nat /\ a = s0 \o Blocks(k, m)
      /\ Remainder(k, n) \in 0 .. k - 1
      /\ SubSeq(t, 1, Remainder(k, n)) = SubSeq(m, n - Remainder(k, n) + 1, n)
  <2>1. k \in Nat \ {0} /\ Buffered(k, a, t, s0, m) /\ Str(s0) /\ Str(t) /\ Len(t) = k
    BY <1>1, <1>2, <1>3
  <2>2. /\ Len(m) \in Nat /\ Remainder(k, Len(m)) \in 0 .. k - 1
        /\ SubSeq(t, 1, Remainder(k, Len(m))) = SubSeq(m, Len(m) - Remainder(k, Len(m)) + 1, Len(m))
    <3>1. EndShown(k, t, m)
      BY ONLY <2>1, BufferedShows, Zenon
    <3> QED
      BY ONLY <3>1, Zenon DEF EndShown
  <2>3. Str(m) /\ a = s0 \o Blocks(k, m)
    BY <2>1, BufferedBlocks
  <2> QED
    BY <2>2, <2>3 DEF n
<1>5. Chain(k, s0 \o Blocks(k, m))
  BY <1>1, <1>4, ChainOfBlocks DEF s0
<1> QED
  BY <1>2, <1>4, <1>5 DEF k, s0, a, t, n

LEMMA UpdateGood ==
  ASSUME NEW type \in Types, NEW c, NEW m, Good(type, c, m), NEW input, Str(input),
         OneCall(type, Len(input)), Countable(type, Len(m) + Len(input))
  PROVE  /\ Good(type, UpdateOf(type, c, input), m \o input)
         /\ KeepsPads(c, UpdateOf(type, c, input))
<1> DEFINE new == UpdateOf(type, c, input)
           mi == m \o input
           g == Geometry(type)
<1>1. /\ IF type = "MD2" THEN Md2Holds(new, mi) ELSE Holds(g, <<type>>, new, mi)
      /\ SamePads(c, new) /\ new.left \in 0 .. BlockOf(type) - 1
  <2>1. CASE type = "MD2"
    <3>1. new = Md2Update(c, input)
      BY <2>1, Md2Of
    <3>2. Md2Holds(c, m)
      BY <2>1 DEF Good
    <3>3. Md2Holds(new, mi) /\ SamePads(c, new)
      BY <3>1, <3>2, Md2UpdateTakes
    <3> HIDE DEF new, mi
    <3>4. new.left \in 0 .. Tiny.block - 1
      BY <3>3, Md2Shows
    <3> QED
      BY <2>1, <3>3, <3>4, Geometries
  <2>2. CASE type # "MD2"
    <3>1. new = Update(g, Append, c, input)
      BY <2>2, UpdateOfIs
    <3>2. Holds(g, <<type>>, c, m) /\ Form(type, c) /\ Str(m)
      BY <2>2 DEF Good
    <3>3. FitsTotals(g) /\ Str(<<type>>)
      BY <2>2, Geometries, ChainBegins
    <3>4. Len(input) < g.word /\ Len(m) + Len(input) < g.word * g.word
      <4> DEFINE v == g.word * g.word
                 n == Len(m) + Len(input)
      <4>1. n \in Nat /\ 8 * n < v /\ g.word \in Nat
        BY <2>2, <3>3 DEF Countable, FitsTotals
      <4>2. v \in Nat
        BY <4>1
      <4> HIDE DEF v, n
      <4>3. n < v
        BY <4>1, <4>2
      <4> QED
        BY <2>2, <4>3 DEF v, n, OneCall
    <3> DEFINE u == Update(g, Append, c, input)
               s0 == <<type>>
    <3> HIDE DEF g, new, mi
    <3>5. Holds(g, s0, u, m \o input) /\ SameButMessage(c, u)
      <4>1. Holds(g, s0, c, m) /\ Str(s0)
        BY <3>2, <3>3
      <4> HIDE DEF s0, u
      <4> QED
        BY <3>3, <3>4, <4>1, UpdateTakes DEF u
    <3>6. SamePads(c, new) /\ new.left = c.left
      BY <3>1, <3>5 DEF SameButMessage, SamePads
    <3> QED
      BY <2>2, <3>1, <3>2, <3>5, <3>6 DEF mi, Form
  <2> QED
    BY <2>1, <2>2
<1> HIDE DEF new, mi, g
<1>2. /\ DOMAIN new = Fields /\ Str(new.buffer) /\ Len(new.buffer) = BlockOf(type)
      /\ Str(mi) /\ Chain(BlockOf(type), new.state)
  BY <1>1, GoodChain DEF g
<1>3. Form(type, new)
  BY <1>1, <1>2 DEF Form
<1>4. Named(type, new) /\ KeepsPads(c, new)
  BY <1>1 DEF Named, Good, SamePads, KeepsPads
<1> QED
  BY <1>1, <1>2, <1>3, <1>4 DEF Good, new, mi, g

LEMMA FinishGood ==
  ASSUME NEW type \in Types, NEW c, NEW m, Good(type, c, m), Countable(type, Len(m))
  PROVE  /\ FinishOf(type, c).output = StandardDigest(type, m)
         /\ Form(type, FinishOf(type, c).ctx) /\ Named(type, FinishOf(type, c).ctx)
         /\ KeepsPads(c, FinishOf(type, c).ctx)
<1> DEFINE done == FinishOf(type, c)
           end == done.ctx
<1>1. CASE type = "MD2"
  <2>1. done = Md2Finish(c)
    BY <1>1, Md2Of
  <2>2. Md2Holds(c, m) /\ Form(type, c)
    BY <1>1 DEF Good
  <2>3. /\ done.output = StandardDigest("MD2", m)
        /\ SamePads(c, end) /\ end.left = c.left
        /\ Str(end.buffer) /\ Len(end.buffer) = Tiny.block
        /\ Chain(Tiny.block, end.state)
    BY <2>1, <2>2, Md2FinishIsStandard
  <2>4. Named(type, end)
    BY <1>1 DEF Named, Sha2s, Sha4s
  <2>5. BlockOf(type) = Tiny.block
    BY <1>1, Geometries
  <2> HIDE DEF end, done
  <2>6. Form(type, end) /\ KeepsPads(c, end)
    BY <2>2, <2>3, <2>5 DEF Form, SamePads, KeepsPads
  <2> QED
    BY <1>1, <2>3, <2>4, <2>6 DEF end, done
<1>2. CASE type # "MD2"
  <2> DEFINE g == Geometry(type)
             fed == PaddedBy(type, g, c)
             p == PaddedMessage(type, m)
             k == BlockOf(type)
  <2>1. /\ Named(type, c) /\ Form(type, c) /\ Holds(g, <<type>>, c, m)
    BY <1>2 DEF Good
  <2>2. end = fed /\ done.output = Digest(type, fed.state)
    BY <1>2, <2>1, FinishOfIs, KeptIs
  <2>3. /\ FitsTotals(g) /\ 16 * g.block < g.word * g.word
        /\ 8 * Len(m) < g.word * g.word /\ k = g.block
    BY <1>2, Geometries DEF Countable
  <2>4. Holds(g, <<type>>, fed, p) /\ SameButMessage(c, fed)
    <3> HIDE DEF g
    <3>1. g = Geometry(type)
      BY DEF g
    <3> QED
      BY <2>1, <2>3, <3>1, PaddedIsStandard DEF PaddedBy
  <2> HIDE DEF fed, p, end, done
  <2>5. /\ DOMAIN fed = Fields /\ Str(fed.buffer) /\ Len(fed.buffer) = k
        /\ fed.state = <<type>> \o Blocks(k, p)
        /\ Chain(k, fed.state)
    BY <1>2, <2>4, GoodChain
  <2>6. StandardDigest(type, m) = Digest(type, fed.state)
    BY <1>2, <2>3, <2>5 DEF StandardDigest, p
  <2>7. Form(type, fed) /\ Named(type, fed) /\ KeepsPads(c, fed)
    BY <2>1, <2>4, <2>5 DEF Form, Named, KeepsPads, SameButMessage
  <2> QED
    BY <2>2, <2>6, <2>7 DEF end, done
<1> QED
  BY <1>1, <1>2

-----------------------------------------------------------------------------
(* The one-shot function and the keyed functions.                          *)

DigestOf(type, input) ==
  FinishOf(type, UpdateOf(type, StartsOf(type, Garbage(BlockOf(type))), input)).output
KeyOf(type, k) == IF Len(k) > BlockOf(type) THEN DigestOf(type, k) ELSE k
HmacStartsOf(type, c, k) ==
  UpdateOf(type, StartsOf(type, Keyed(c, BlockOf(type), KeyOf(type, k))),
           Pad("ipad", BlockOf(type), KeyOf(type, k)))
HmacResetOf(type, c) == UpdateOf(type, StartsOf(type, c), c.ipad)
HmacFinishOf(type, c) ==
  FinishOf(type,
    UpdateOf(type, UpdateOf(type, StartsOf(type, FinishOf(type, c).ctx), c.opad),
             FinishOf(type, c).output))
HmacOf(type, k, input) ==
  HmacFinishOf(type, UpdateOf(type, HmacStartsOf(type, Garbage(BlockOf(type)), k), input)).output

LEMMA GarbageForm ==
  ASSUME NEW type \in Types
  PROVE  Form(type, Garbage(BlockOf(type)))
<1> DEFINE k == BlockOf(type)
           c == Garbage(k)
           t == [i \in 1 .. k |-> <<"garbage", i>>]
           e == <<>>
<1>1. k \in Nat \ {0}
  BY Geometries
<1>2. DOMAIN c = Fields /\ c.buffer = t /\ c.left = 0 /\ c.state = e
  BY DEF Garbage, Fields
<1>3. t = [i \in 1 .. k |-> t[i]]
  OBVIOUS
<1>4. Chain(k, e)
  BY EmptyStr DEF Chain
<1> HIDE DEF k, c, t, e
<1>5. Str(t) /\ Len(t) = k
  BY <1>1, <1>3, IsStr
<1>6. Form(type, c)
  BY <1>1, <1>2, <1>4, <1>5 DEF Form, k
<1> QED
  BY <1>6 DEF c, k

LEMMA DigestStr ==
  ASSUME NEW type \in Types, NEW s
  PROVE  /\ Str(Digest(type, s))
         /\ Len(Digest(type, s)) \in 1 .. BlockOf(type)
<1> DEFINE d == Digest(type, s)
           n == Size[type]
<1>1. n \in 1 .. BlockOf(type)
  <2>1. CASE type = "MD2"
    BY <2>1, Geometries, DigestsAssumption
  <2>2. CASE type \in Sha4s
    BY <2>2, Geometries, DigestsAssumption DEF Sha4s
  <2>3. CASE type \in Types \ ({"MD2"} \cup Sha4s)
    <3>1. type \in {"MD4", "MD5", "SHA1"} \cup Sha2s
      BY <2>3 DEF Types, Sha2s, Sha4s
    <3>2. BlockOf(type) = Narrow.block
      BY <3>1, Geometries
    <3>3. type \in Types \ {"MD2", "SHA384", "SHA512"}
      BY <2>3 DEF Sha4s
    <3> QED
      BY <3>2, <3>3, DigestsAssumption
  <2> QED
    BY <2>1, <2>2, <2>3
<1>2. d = [i \in 1 .. n |-> <<"digest", type, s, i>>]
  BY DEF Digest
<1> HIDE DEF d
<1>3. d = [i \in 1 .. n |-> d[i]] /\ n \in Nat
  BY <1>1, <1>2, Geometries
<1>4. Str(d) /\ Len(d) = n
  BY <1>3, IsStr
<1> QED
  BY <1>1, <1>4 DEF d

(* The entries of a table are made of its first three.                     *)
Composed(type, c, k, input) ==
  /\ Md(type, input) = DigestOf(type, input)
  /\ DOMAIN c = Fields => MdInfoFromType(type, "hmac_starts", c, k).ctx = HmacStartsOf(type, c, k)
  /\ MdInfoFromType(type, "hmac_update", c, input).ctx = UpdateOf(type, c, input)
  /\ Named(type, c) =>
       /\ MdInfoFromType(type, "hmac_reset", c, <<>>).ctx = HmacResetOf(type, c)
       /\ MdInfoFromType(type, "hmac_finish", c, <<>>) = HmacFinishOf(type, c)
  /\ MdHmac(type, k, input) =
       MdInfoFromType(type, "hmac_finish",
         MdInfoFromType(type, "hmac_update",
           MdInfoFromType(type, "hmac_starts", Garbage(BlockOf(type)), k).ctx, input).ctx,
         <<>>).output
  /\ Allocated(type) = Garbage(BlockOf(type))

LEMMA KeyedIs ==
  ASSUME NEW c, DOMAIN c = Fields, NEW b, NEW k
  PROVE  Keyed(c, b, k).ipad = Pad("ipad", b, k)
BY DEF Keyed, Fields

LEMMA Md2Composed ==
  ASSUME NEW c, NEW k, NEW input
  PROVE  Composed("MD2", c, k, input)
<1> DEFINE b == BlockOf("MD2")
<1>1. b = Tiny.block
  BY Zenon DEF BlockOf
<1>2. \A x : StartsOf("MD2", x) = Md2Starts(x)
  <2> SUFFICES ASSUME NEW x PROVE StartsOf("MD2", x) = Md2Starts(x)
    OBVIOUS
  <2>1. MdInfoFromType("MD2", "starts", x, <<>>) = Kept(Md2Starts(x))
    BY Md2Table
  <2> QED
    BY <2>1, KeptIs DEF StartsOf
<1>3. \A x, y : UpdateOf("MD2", x, y) = Md2Update(x, y)
  <2> SUFFICES ASSUME NEW x, NEW y PROVE UpdateOf("MD2", x, y) = Md2Update(x, y)
    OBVIOUS
  <2>1. MdInfoFromType("MD2", "update", x, y) = Kept(Md2Update(x, y))
    BY Md2Table
  <2> QED
    BY <2>1, KeptIs DEF UpdateOf
<1>4. \A x : FinishOf("MD2", x) = Md2Finish(x)
  <2> SUFFICES ASSUME NEW x PROVE FinishOf("MD2", x) = Md2Finish(x)
    OBVIOUS
  <2>1. MdInfoFromType("MD2", "finish", x, <<>>) = Md2Finish(x)
    BY Md2Table
  <2> QED
    BY <2>1 DEF FinishOf
<1>5. \A x : Md2(x) = DigestOf("MD2", x)
  <2> SUFFICES ASSUME NEW x PROVE Md2(x) = DigestOf("MD2", x)
    OBVIOUS
  <2>1. Md2(x) = Md2Finish(Md2Update(Md2Starts(Garbage(Tiny.block)), x)).output
    BY Zenon DEF Md2
  <2>2. DigestOf("MD2", x) = FinishOf("MD2", UpdateOf("MD2", StartsOf("MD2", Garbage(b)), x)).output
    BY Zenon DEF DigestOf
  <2> QED
    BY <1>1, <1>2, <1>3, <1>4, <2>1, <2>2, Zenon
<1>6. Md("MD2", input) = DigestOf("MD2", input)
  <2>1. MdInfoFromType("MD2", "digest", <<>>, input) = Gives(Md2(input))
    BY Md2Table
  <2> QED
    BY <1>5, <2>1, KeptIs DEF Md
<1>7. DOMAIN c = Fields => MdInfoFromType("MD2", "hmac_starts", c, k).ctx = HmacStartsOf("MD2", c, k)
  <2> SUFFICES ASSUME DOMAIN c = Fields
               PROVE  MdInfoFromType("MD2", "hmac_starts", c, k).ctx = HmacStartsOf("MD2", c, k)
    OBVIOUS
  <2> DEFINE kk == KeyOf("MD2", k)
             with == Keyed(c, b, kk)
  <2>1. MdInfoFromType("MD2", "hmac_starts", c, k) = Kept(Md2HmacStarts(c, k))
    BY Md2Table
  <2>2. MdInfoFromType("MD2", "hmac_starts", c, k).ctx = Md2HmacStarts(c, k)
    BY <2>1, KeptIs
  <2>3. Key(Tiny.block, Md2, k) = IF Len(k) > Tiny.block THEN Md2(k) ELSE k
    BY Zenon DEF Key
  <2>4. kk = IF Len(k) > b THEN DigestOf("MD2", k) ELSE k
    BY Zenon DEF KeyOf
  <2>5. kk = Key(Tiny.block, Md2, k)
    BY <1>1, <1>5, <2>3, <2>4, Zenon
  <2>6. Md2HmacStarts(c, k) = Md2HmacReset(with)
    BY <1>1, <2>5, Zenon DEF Md2HmacStarts
  <2>7. Md2HmacStarts(c, k) = Md2Update(Md2Starts(with), Pad("ipad", b, kk))
    <3>1. with.ipad = Pad("ipad", b, kk)
      BY KeyedIs
    <3> QED
      BY <2>6, <3>1, Zenon DEF Md2HmacReset
  <2>8. HmacStartsOf("MD2", c, k) = UpdateOf("MD2", StartsOf("MD2", with), Pad("ipad", b, kk))
    BY Zenon DEF HmacStartsOf
  <2> QED
    BY <1>2, <1>3, <2>2, <2>7, <2>8, Zenon
<1>8. MdInfoFromType("MD2", "hmac_update", c, input).ctx = UpdateOf("MD2", c, input)
  <2>1. MdInfoFromType("MD2", "hmac_update", c, input) = Kept(Md2HmacUpdate(c, input))
    BY Md2Table
  <2>2. Md2HmacUpdate(c, input) = Md2Update(c, input)
    BY Zenon DEF Md2HmacUpdate
  <2> QED
    BY <1>3, <2>1, <2>2, KeptIs
<1>9. ASSUME Named("MD2", c)
      PROVE  /\ MdInfoFromType("MD2", "hmac_reset", c, <<>>).ctx = HmacResetOf("MD2", c)
             /\ MdInfoFromType("MD2", "hmac_finish", c, <<>>) = HmacFinishOf("MD2", c)
  <2>1. MdInfoFromType("MD2", "hmac_reset", c, <<>>) = Kept(Md2HmacReset(c))
    BY Md2Table
  <2>2. Md2HmacReset(c) = Md2Update(Md2Starts(c), c.ipad)
    BY Zenon DEF Md2HmacReset
  <2>3. HmacResetOf("MD2", c) = UpdateOf("MD2", StartsOf("MD2", c), c.ipad)
    BY Zenon DEF HmacResetOf
  <2>4. MdInfoFromType("MD2", "hmac_reset", c, <<>>).ctx = HmacResetOf("MD2", c)
    BY <1>2, <1>3, <2>1, <2>2, <2>3, KeptIs
  <2>5. MdInfoFromType("MD2", "hmac_finish", c, <<>>) = Md2HmacFinish(c)
    BY Md2Table
  <2>6. Md2HmacFinish(c) =
          Md2Finish(Md2Update(Md2Update(Md2Starts(Md2Finish(c).ctx), c.opad), Md2Finish(c).output))
    BY Zenon DEF Md2HmacFinish, HmacFinish
  <2>7. HmacFinishOf("MD2", c) =
          FinishOf("MD2", UpdateOf("MD2", UpdateOf("MD2", StartsOf("MD2", FinishOf("MD2", c).ctx), c.opad),
                                 FinishOf("MD2", c).output))
    BY Zenon DEF HmacFinishOf
  <2>8. Md2HmacFinish(c) = HmacFinishOf("MD2", c)
    BY <1>2, <1>3, <1>4, <2>6, <2>7, Zenon
  <2> QED
    BY <2>4, <2>5, <2>8
<1>10. MdHmac("MD2", k, input) =
         MdInfoFromType("MD2", "hmac_finish",
           MdInfoFromType("MD2", "hmac_update",
             MdInfoFromType("MD2", "hmac_starts", Garbage(b), k).ctx, input).ctx,
           <<>>).output
  <2>1. MdInfoFromType("MD2", "hmac", <<>>, <<k, input>>) = Gives(Md2Hmac(k, input))
    BY Md2Table
  <2>2. MdHmac("MD2", k, input) = Md2Hmac(k, input)
    BY <2>1, KeptIs DEF MdHmac
  <2>3. Md2Hmac(k, input) =
          Md2HmacFinish(Md2HmacUpdate(Md2HmacStarts(Garbage(Tiny.block), k), input)).output
    BY Zenon DEF Md2Hmac
  <2> DEFINE first == Md2HmacStarts(Garbage(Tiny.block), k)
             second == Md2HmacUpdate(first, input)
  <2>4. MdInfoFromType("MD2", "hmac_starts", Garbage(b), k) = Kept(first)
    <3>1. MdInfoFromType("MD2", "hmac_starts", Garbage(Tiny.block), k) = Kept(first)
      BY Md2Table
    <3> QED
      BY <1>1, <3>1
  <2>5. MdInfoFromType("MD2", "hmac_starts", Garbage(b), k).ctx = first
    BY <2>4, KeptIs
  <2> HIDE DEF first, b
  <2>6. MdInfoFromType("MD2", "hmac_update", first, input) = Kept(second)
    BY Md2Table
  <2>7. MdInfoFromType("MD2", "hmac_update", first, input).ctx = second
    BY <2>6, KeptIs
  <2> HIDE DEF second
  <2>8. MdInfoFromType("MD2", "hmac_finish", second, <<>>) = Md2HmacFinish(second)
    BY Md2Table
  <2>9. MdHmac("MD2", k, input) = Md2HmacFinish(second).output
    BY <2>2, <2>3 DEF first, second
  <2> QED
    BY <2>5, <2>7, <2>8, <2>9, Zenon
<1>11. Allocated("MD2") = Garbage(b)
  <2>1. MdInfoFromType("MD2", "ctx_alloc", <<>>, b) = Kept(Garbage(b))
    BY Md2Table
  <2> QED
    BY <2>1, KeptIs DEF Allocated
<1> QED
  BY <1>6, <1>7, <1>8, <1>9, <1>10, <1>11, Zenon DEF Composed

LEMMA Md4Composed ==
  ASSUME NEW c, NEW k, NEW input
  PROVE  Composed("MD4", c, k, input)
<1> DEFINE b == BlockOf("MD4")
<1>1. b = Narrow.block
  BY Zenon DEF BlockOf
<1>2. \A x : StartsOf("MD4", x) = Md4Starts(x)
  <2> SUFFICES ASSUME NEW x PROVE StartsOf("MD4", x) = Md4Starts(x)
    OBVIOUS
  <2>1. MdInfoFromType("MD4", "starts", x, <<>>) = Kept(Md4Starts(x))
    BY Md4Table
  <2> QED
    BY <2>1, KeptIs DEF StartsOf
<1>3. \A x, y : UpdateOf("MD4", x, y) = Md4Update(x, y)
  <2> SUFFICES ASSUME NEW x, NEW y PROVE UpdateOf("MD4", x, y) = Md4Update(x, y)
    OBVIOUS
  <2>1. MdInfoFromType("MD4", "update", x, y) = Kept(Md4Update(x, y))
    BY Md4Table
  <2> QED
    BY <2>1, KeptIs DEF UpdateOf
<1>4. \A x : FinishOf("MD4", x) = Md4Finish(x)
  <2> SUFFICES ASSUME NEW x PROVE FinishOf("MD4", x) = Md4Finish(x)
    OBVIOUS
  <2>1. MdInfoFromType("MD4", "finish", x, <<>>) = Md4Finish(x)
    BY Md4Table
  <2> QED
    BY <2>1 DEF FinishOf
<1>5. \A x : Md4(x) = DigestOf("MD4", x)
  <2> SUFFICES ASSUME NEW x PROVE Md4(x) = DigestOf("MD4", x)
    OBVIOUS
  <2>1. Md4(x) = Md4Finish(Md4Update(Md4Starts(Garbage(Narrow.block)), x)).output
    BY Zenon DEF Md4
  <2>2. DigestOf("MD4", x) = FinishOf("MD4", UpdateOf("MD4", StartsOf("MD4", Garbage(b)), x)).output
    BY Zenon DEF DigestOf
  <2> QED
    BY <1>1, <1>2, <1>3, <1>4, <2>1, <2>2, Zenon
<1>6. Md("MD4", input) = DigestOf("MD4", input)
  <2>1. MdInfoFromType("MD4", "digest", <<>>, input) = Gives(Md4(input))
    BY Md4Table
  <2> QED
    BY <1>5, <2>1, KeptIs DEF Md
<1>7. DOMAIN c = Fields => MdInfoFromType("MD4", "hmac_starts", c, k).ctx = HmacStartsOf("MD4", c, k)
  <2> SUFFICES ASSUME DOMAIN c = Fields
               PROVE  MdInfoFromType("MD4", "hmac_starts", c, k).ctx = HmacStartsOf("MD4", c, k)
    OBVIOUS
  <2> DEFINE kk == KeyOf("MD4", k)
             with == Keyed(c, b, kk)
  <2>1. MdInfoFromType("MD4", "hmac_starts", c, k) = Kept(Md4HmacStarts(c, k))
    BY Md4Table
  <2>2. MdInfoFromType("MD4", "hmac_starts", c, k).ctx = Md4HmacStarts(c, k)
    BY <2>1, KeptIs
  <2>3. Key(Narrow.block, Md4, k) = IF Len(k) > Narrow.block THEN Md4(k) ELSE k
    BY Zenon DEF Key
  <2>4. kk = IF Len(k) > b THEN DigestOf("MD4", k) ELSE k
    BY Zenon DEF KeyOf
  <2>5. kk = Key(Narrow.block, Md4, k)
    BY <1>1, <1>5, <2>3, <2>4, Zenon
  <2>6. Md4HmacStarts(c, k) = Md4HmacReset(with)
    BY <1>1, <2>5, Zenon DEF Md4HmacStarts
  <2>7. Md4HmacStarts(c, k) = Md4Update(Md4Starts(with), Pad("ipad", b, kk))
    <3>1. with.ipad = Pad("ipad", b, kk)
      BY KeyedIs
    <3> QED
      BY <2>6, <3>1, Zenon DEF Md4HmacReset
  <2>8. HmacStartsOf("MD4", c, k) = UpdateOf("MD4", StartsOf("MD4", with), Pad("ipad", b, kk))
    BY Zenon DEF HmacStartsOf
  <2> QED
    BY <1>2, <1>3, <2>2, <2>7, <2>8, Zenon
<1>8. MdInfoFromType("MD4", "hmac_update", c, input).ctx = UpdateOf("MD4", c, input)
  <2>1. MdInfoFromType("MD4", "hmac_update", c, input) = Kept(Md4HmacUpdate(c, input))
    BY Md4Table
  <2>2. Md4HmacUpdate(c, input) = Md4Update(c, input)
    BY Zenon DEF Md4HmacUpdate
  <2> QED
    BY <1>3, <2>1, <2>2, KeptIs
<1>9. ASSUME Named("MD4", c)
      PROVE  /\ MdInfoFromType("MD4", "hmac_reset", c, <<>>).ctx = HmacResetOf("MD4", c)
             /\ MdInfoFromType("MD4", "hmac_finish", c, <<>>) = HmacFinishOf("MD4", c)
  <2>1. MdInfoFromType("MD4", "hmac_reset", c, <<>>) = Kept(Md4HmacReset(c))
    BY Md4Table
  <2>2. Md4HmacReset(c) = Md4Update(Md4Starts(c), c.ipad)
    BY Zenon DEF Md4HmacReset
  <2>3. HmacResetOf("MD4", c) = UpdateOf("MD4", StartsOf("MD4", c), c.ipad)
    BY Zenon DEF HmacResetOf
  <2>4. MdInfoFromType("MD4", "hmac_reset", c, <<>>).ctx = HmacResetOf("MD4", c)
    BY <1>2, <1>3, <2>1, <2>2, <2>3, KeptIs
  <2>5. MdInfoFromType("MD4", "hmac_finish", c, <<>>) = Md4HmacFinish(c)
    BY Md4Table
  <2>6. Md4HmacFinish(c) =
          Md4Finish(Md4Update(Md4Update(Md4Starts(Md4Finish(c).ctx), c.opad), Md4Finish(c).output))
    BY Zenon DEF Md4HmacFinish, HmacFinish
  <2>7. HmacFinishOf("MD4", c) =
          FinishOf("MD4", UpdateOf("MD4", UpdateOf("MD4", StartsOf("MD4", FinishOf("MD4", c).ctx), c.opad),
                                 FinishOf("MD4", c).output))
    BY Zenon DEF HmacFinishOf
  <2>8. Md4HmacFinish(c) = HmacFinishOf("MD4", c)
    BY <1>2, <1>3, <1>4, <2>6, <2>7, Zenon
  <2> QED
    BY <2>4, <2>5, <2>8
<1>10. MdHmac("MD4", k, input) =
         MdInfoFromType("MD4", "hmac_finish",
           MdInfoFromType("MD4", "hmac_update",
             MdInfoFromType("MD4", "hmac_starts", Garbage(b), k).ctx, input).ctx,
           <<>>).output
  <2>1. MdInfoFromType("MD4", "hmac", <<>>, <<k, input>>) = Gives(Md4Hmac(k, input))
    BY Md4Table
  <2>2. MdHmac("MD4", k, input) = Md4Hmac(k, input)
    BY <2>1, KeptIs DEF MdHmac
  <2>3. Md4Hmac(k, input) =
          Md4HmacFinish(Md4HmacUpdate(Md4HmacStarts(Garbage(Narrow.block), k), input)).output
    BY Zenon DEF Md4Hmac
  <2> DEFINE first == Md4HmacStarts(Garbage(Narrow.block), k)
             second == Md4HmacUpdate(first, input)
  <2>4. MdInfoFromType("MD4", "hmac_starts", Garbage(b), k) = Kept(first)
    <3>1. MdInfoFromType("MD4", "hmac_starts", Garbage(Narrow.block), k) = Kept(first)
      BY Md4Table
    <3> QED
      BY <1>1, <3>1
  <2>5. MdInfoFromType("MD4", "hmac_starts", Garbage(b), k).ctx = first
    BY <2>4, KeptIs
  <2> HIDE DEF first, b
  <2>6. MdInfoFromType("MD4", "hmac_update", first, input) = Kept(second)
    BY Md4Table
  <2>7. MdInfoFromType("MD4", "hmac_update", first, input).ctx = second
    BY <2>6, KeptIs
  <2> HIDE DEF second
  <2>8. MdInfoFromType("MD4", "hmac_finish", second, <<>>) = Md4HmacFinish(second)
    BY Md4Table
  <2>9. MdHmac("MD4", k, input) = Md4HmacFinish(second).output
    BY <2>2, <2>3 DEF first, second
  <2> QED
    BY <2>5, <2>7, <2>8, <2>9, Zenon
<1>11. Allocated("MD4") = Garbage(b)
  <2>1. MdInfoFromType("MD4", "ctx_alloc", <<>>, b) = Kept(Garbage(b))
    BY Md4Table
  <2> QED
    BY <2>1, KeptIs DEF Allocated
<1> QED
  BY <1>6, <1>7, <1>8, <1>9, <1>10, <1>11, Zenon DEF Composed

LEMMA Md5Composed ==
  ASSUME NEW c, NEW k, NEW input
  PROVE  Composed("MD5", c, k, input)
<1> DEFINE b == BlockOf("MD5")
<1>1. b = Narrow.block
  BY Zenon DEF BlockOf
<1>2. \A x : StartsOf("MD5", x) = Md5Starts(x)
  <2> SUFFICES ASSUME NEW x PROVE StartsOf("MD5", x) = Md5Starts(x)
    OBVIOUS
  <2>1. MdInfoFromType("MD5", "starts", x, <<>>) = Kept(Md5Starts(x))
    BY Md5Table
  <2> QED
    BY <2>1, KeptIs DEF StartsOf
<1>3. \A x, y : UpdateOf("MD5", x, y) = Md5Update(x, y)
  <2> SUFFICES ASSUME NEW x, NEW y PROVE UpdateOf("MD5", x, y) = Md5Update(x, y)
    OBVIOUS
  <2>1. MdInfoFromType("MD5", "update", x, y) = Kept(Md5Update(x, y))
    BY Md5Table
  <2> QED
    BY <2>1, KeptIs DEF UpdateOf
<1>4. \A x : FinishOf("MD5", x) = Md5Finish(x)
  <2> SUFFICES ASSUME NEW x PROVE FinishOf("MD5", x) = Md5Finish(x)
    OBVIOUS
  <2>1. MdInfoFromType("MD5", "finish", x, <<>>) = Md5Finish(x)
    BY Md5Table
  <2> QED
    BY <2>1 DEF FinishOf
<1>5. \A x : Md5(x) = DigestOf("MD5", x)
  <2> SUFFICES ASSUME NEW x PROVE Md5(x) = DigestOf("MD5", x)
    OBVIOUS
  <2>1. Md5(x) = Md5Finish(Md5Update(Md5Starts(Garbage(Narrow.block)), x)).output
    BY Zenon DEF Md5
  <2>2. DigestOf("MD5", x) = FinishOf("MD5", UpdateOf("MD5", StartsOf("MD5", Garbage(b)), x)).output
    BY Zenon DEF DigestOf
  <2> QED
    BY <1>1, <1>2, <1>3, <1>4, <2>1, <2>2, Zenon
<1>6. Md("MD5", input) = DigestOf("MD5", input)
  <2>1. MdInfoFromType("MD5", "digest", <<>>, input) = Gives(Md5(input))
    BY Md5Table
  <2> QED
    BY <1>5, <2>1, KeptIs DEF Md
<1>7. DOMAIN c = Fields => MdInfoFromType("MD5", "hmac_starts", c, k).ctx = HmacStartsOf("MD5", c, k)
  <2> SUFFICES ASSUME DOMAIN c = Fields
               PROVE  MdInfoFromType("MD5", "hmac_starts", c, k).ctx = HmacStartsOf("MD5", c, k)
    OBVIOUS
  <2> DEFINE kk == KeyOf("MD5", k)
             with == Keyed(c, b, kk)
  <2>1. MdInfoFromType("MD5", "hmac_starts", c, k) = Kept(Md5HmacStarts(c, k))
    BY Md5Table
  <2>2. MdInfoFromType("MD5", "hmac_starts", c, k).ctx = Md5HmacStarts(c, k)
    BY <2>1, KeptIs
  <2>3. Key(Narrow.block, Md5, k) = IF Len(k) > Narrow.block THEN Md5(k) ELSE k
    BY Zenon DEF Key
  <2>4. kk = IF Len(k) > b THEN DigestOf("MD5", k) ELSE k
    BY Zenon DEF KeyOf
  <2>5. kk = Key(Narrow.block, Md5, k)
    BY <1>1, <1>5, <2>3, <2>4, Zenon
  <2>6. Md5HmacStarts(c, k) = Md5HmacReset(with)
    BY <1>1, <2>5, Zenon DEF Md5HmacStarts
  <2>7. Md5HmacStarts(c, k) = Md5Update(Md5Starts(with), Pad("ipad", b, kk))
    <3>1. with.ipad = Pad("ipad", b, kk)
      BY KeyedIs
    <3> QED
      BY <2>6, <3>1, Zenon DEF Md5HmacReset
  <2>8. HmacStartsOf("MD5", c, k) = UpdateOf("MD5", StartsOf("MD5", with), Pad("ipad", b, kk))
    BY Zenon DEF HmacStartsOf
  <2> QED
    BY <1>2, <1>3, <2>2, <2>7, <2>8, Zenon
<1>8. MdInfoFromType("MD5", "hmac_update", c, input).ctx = UpdateOf("MD5", c, input)
  <2>1. MdInfoFromType("MD5", "hmac_update", c, input) = Kept(Md5HmacUpdate(c, input))
    BY Md5Table
  <2>2. Md5HmacUpdate(c, input) = Md5Update(c, input)
    BY Zenon DEF Md5HmacUpdate
  <2> QED
    BY <1>3, <2>1, <2>2, KeptIs
<1>9. ASSUME Named("MD5", c)
      PROVE  /\ MdInfoFromType("MD5", "hmac_reset", c, <<>>).ctx = HmacResetOf("MD5", c)
             /\ MdInfoFromType("MD5", "hmac_finish", c, <<>>) = HmacFinishOf("MD5", c)
  <2>1. MdInfoFromType("MD5", "hmac_reset", c, <<>>) = Kept(Md5HmacReset(c))
    BY Md5Table
  <2>2. Md5HmacReset(c) = Md5Update(Md5Starts(c), c.ipad)
    BY Zenon DEF Md5HmacReset
  <2>3. HmacResetOf("MD5", c) = UpdateOf("MD5", StartsOf("MD5", c), c.ipad)
    BY Zenon DEF HmacResetOf
  <2>4. MdInfoFromType("MD5", "hmac_reset", c, <<>>).ctx = HmacResetOf("MD5", c)
    BY <1>2, <1>3, <2>1, <2>2, <2>3, KeptIs
  <2>5. MdInfoFromType("MD5", "hmac_finish", c, <<>>) = Md5HmacFinish(c)
    BY Md5Table
  <2>6. Md5HmacFinish(c) =
          Md5Finish(Md5Update(Md5Update(Md5Starts(Md5Finish(c).ctx), c.opad), Md5Finish(c).output))
    BY Zenon DEF Md5HmacFinish, HmacFinish
  <2>7. HmacFinishOf("MD5", c) =
          FinishOf("MD5", UpdateOf("MD5", UpdateOf("MD5", StartsOf("MD5", FinishOf("MD5", c).ctx), c.opad),
                                 FinishOf("MD5", c).output))
    BY Zenon DEF HmacFinishOf
  <2>8. Md5HmacFinish(c) = HmacFinishOf("MD5", c)
    BY <1>2, <1>3, <1>4, <2>6, <2>7, Zenon
  <2> QED
    BY <2>4, <2>5, <2>8
<1>10. MdHmac("MD5", k, input) =
         MdInfoFromType("MD5", "hmac_finish",
           MdInfoFromType("MD5", "hmac_update",
             MdInfoFromType("MD5", "hmac_starts", Garbage(b), k).ctx, input).ctx,
           <<>>).output
  <2>1. MdInfoFromType("MD5", "hmac", <<>>, <<k, input>>) = Gives(Md5Hmac(k, input))
    BY Md5Table
  <2>2. MdHmac("MD5", k, input) = Md5Hmac(k, input)
    BY <2>1, KeptIs DEF MdHmac
  <2>3. Md5Hmac(k, input) =
          Md5HmacFinish(Md5HmacUpdate(Md5HmacStarts(Garbage(Narrow.block), k), input)).output
    BY Zenon DEF Md5Hmac
  <2> DEFINE first == Md5HmacStarts(Garbage(Narrow.block), k)
             second == Md5HmacUpdate(first, input)
  <2>4. MdInfoFromType("MD5", "hmac_starts", Garbage(b), k) = Kept(first)
    <3>1. MdInfoFromType("MD5", "hmac_starts", Garbage(Narrow.block), k) = Kept(first)
      BY Md5Table
    <3> QED
      BY <1>1, <3>1
  <2>5. MdInfoFromType("MD5", "hmac_starts", Garbage(b), k).ctx = first
    BY <2>4, KeptIs
  <2> HIDE DEF first, b
  <2>6. MdInfoFromType("MD5", "hmac_update", first, input) = Kept(second)
    BY Md5Table
  <2>7. MdInfoFromType("MD5", "hmac_update", first, input).ctx = second
    BY <2>6, KeptIs
  <2> HIDE DEF second
  <2>8. MdInfoFromType("MD5", "hmac_finish", second, <<>>) = Md5HmacFinish(second)
    BY Md5Table
  <2>9. MdHmac("MD5", k, input) = Md5HmacFinish(second).output
    BY <2>2, <2>3 DEF first, second
  <2> QED
    BY <2>5, <2>7, <2>8, <2>9, Zenon
<1>11. Allocated("MD5") = Garbage(b)
  <2>1. MdInfoFromType("MD5", "ctx_alloc", <<>>, b) = Kept(Garbage(b))
    BY Md5Table
  <2> QED
    BY <2>1, KeptIs DEF Allocated
<1> QED
  BY <1>6, <1>7, <1>8, <1>9, <1>10, <1>11, Zenon DEF Composed

LEMMA Sha1Composed ==
  ASSUME NEW c, NEW k, NEW input
  PROVE  Composed("SHA1", c, k, input)
<1> DEFINE b == BlockOf("SHA1")
<1>1. b = Narrow.block
  BY Zenon DEF BlockOf
<1>2. \A x : StartsOf("SHA1", x) = Sha1Starts(x)
  <2> SUFFICES ASSUME NEW x PROVE StartsOf("SHA1", x) = Sha1Starts(x)
    OBVIOUS
  <2>1. MdInfoFromType("SHA1", "starts", x, <<>>) = Kept(Sha1Starts(x))
    BY Sha1Table
  <2> QED
    BY <2>1, KeptIs DEF StartsOf
<1>3. \A x, y : UpdateOf("SHA1", x, y) = Sha1Update(x, y)
  <2> SUFFICES ASSUME NEW x, NEW y PROVE UpdateOf("SHA1", x, y) = Sha1Update(x, y)
    OBVIOUS
  <2>1. MdInfoFromType("SHA1", "update", x, y) = Kept(Sha1Update(x, y))
    BY Sha1Table
  <2> QED
    BY <2>1, KeptIs DEF UpdateOf
<1>4. \A x : FinishOf("SHA1", x) = Sha1Finish(x)
  <2> SUFFICES ASSUME NEW x PROVE FinishOf("SHA1", x) = Sha1Finish(x)
    OBVIOUS
  <2>1. MdInfoFromType("SHA1", "finish", x, <<>>) = Sha1Finish(x)
    BY Sha1Table
  <2> QED
    BY <2>1 DEF FinishOf
<1>5. \A x : Sha1(x) = DigestOf("SHA1", x)
  <2> SUFFICES ASSUME NEW x PROVE Sha1(x) = DigestOf("SHA1", x)
    OBVIOUS
  <2>1. Sha1(x) = Sha1Finish(Sha1Update(Sha1Starts(Garbage(Narrow.block)), x)).output
    BY Zenon DEF Sha1
  <2>2. DigestOf("SHA1", x) = FinishOf("SHA1", UpdateOf("SHA1", StartsOf("SHA1", Garbage(b)), x)).output
    BY Zenon DEF DigestOf
  <2> QED
    BY <1>1, <1>2, <1>3, <1>4, <2>1, <2>2, Zenon
<1>6. Md("SHA1", input) = DigestOf("SHA1", input)
  <2>1. MdInfoFromType("SHA1", "digest", <<>>, input) = Gives(Sha1(input))
    BY Sha1Table
  <2> QED
    BY <1>5, <2>1, KeptIs DEF Md
<1>7. DOMAIN c = Fields => MdInfoFromType("SHA1", "hmac_starts", c, k).ctx = HmacStartsOf("SHA1", c, k)
  <2> SUFFICES ASSUME DOMAIN c = Fields
               PROVE  MdInfoFromType("SHA1", "hmac_starts", c, k).ctx = HmacStartsOf("SHA1", c, k)
    OBVIOUS
  <2> DEFINE kk == KeyOf("SHA1", k)
             with == Keyed(c, b, kk)
  <2>1. MdInfoFromType("SHA1", "hmac_starts", c, k) = Kept(Sha1HmacStarts(c, k))
    BY Sha1Table
  <2>2. MdInfoFromType("SHA1", "hmac_starts", c, k).ctx = Sha1HmacStarts(c, k)
    BY <2>1, KeptIs
  <2>3. Key(Narrow.block, Sha1, k) = IF Len(k) > Narrow.block THEN Sha1(k) ELSE k
    BY Zenon DEF Key
  <2>4. kk = IF Len(k) > b THEN DigestOf("SHA1", k) ELSE k
    BY Zenon DEF KeyOf
  <2>5. kk = Key(Narrow.block, Sha1, k)
    BY <1>1, <1>5, <2>3, <2>4, Zenon
  <2>6. Sha1HmacStarts(c, k) = Sha1HmacReset(with)
    BY <1>1, <2>5, Zenon DEF Sha1HmacStarts
  <2>7. Sha1HmacStarts(c, k) = Sha1Update(Sha1Starts(with), Pad("ipad", b, kk))
    <3>1. with.ipad = Pad("ipad", b, kk)
      BY KeyedIs
    <3> QED
      BY <2>6, <3>1, Zenon DEF Sha1HmacReset
  <2>8. HmacStartsOf("SHA1", c, k) = UpdateOf("SHA1", StartsOf("SHA1", with), Pad("ipad", b, kk))
    BY Zenon DEF HmacStartsOf
  <2> QED
    BY <1>2, <1>3, <2>2, <2>7, <2>8, Zenon
<1>8. MdInfoFromType("SHA1", "hmac_update", c, input).ctx = UpdateOf("SHA1", c, input)
  <2>1. MdInfoFromType("SHA1", "hmac_update", c, input) = Kept(Sha1HmacUpdate(c, input))
    BY Sha1Table
  <2>2. Sha1HmacUpdate(c, input) = Sha1Update(c, input)
    BY Zenon DEF Sha1HmacUpdate
  <2> QED
    BY <1>3, <2>1, <2>2, KeptIs
<1>9. ASSUME Named("SHA1", c)
      PROVE  /\ MdInfoFromType("SHA1", "hmac_reset", c, <<>>).ctx = HmacResetOf("SHA1", c)
             /\ MdInfoFromType("SHA1", "hmac_finish", c, <<>>) = HmacFinishOf("SHA1", c)
  <2>1. MdInfoFromType("SHA1", "hmac_reset", c, <<>>) = Kept(Sha1HmacReset(c))
    BY Sha1Table
  <2>2. Sha1HmacReset(c) = Sha1Update(Sha1Starts(c), c.ipad)
    BY Zenon DEF Sha1HmacReset
  <2>3. HmacResetOf("SHA1", c) = UpdateOf("SHA1", StartsOf("SHA1", c), c.ipad)
    BY Zenon DEF HmacResetOf
  <2>4. MdInfoFromType("SHA1", "hmac_reset", c, <<>>).ctx = HmacResetOf("SHA1", c)
    BY <1>2, <1>3, <2>1, <2>2, <2>3, KeptIs
  <2>5. MdInfoFromType("SHA1", "hmac_finish", c, <<>>) = Sha1HmacFinish(c)
    BY Sha1Table
  <2>6. Sha1HmacFinish(c) =
          Sha1Finish(Sha1Update(Sha1Update(Sha1Starts(Sha1Finish(c).ctx), c.opad), Sha1Finish(c).output))
    BY Zenon DEF Sha1HmacFinish, HmacFinish
  <2>7. HmacFinishOf("SHA1", c) =
          FinishOf("SHA1", UpdateOf("SHA1", UpdateOf("SHA1", StartsOf("SHA1", FinishOf("SHA1", c).ctx), c.opad),
                                 FinishOf("SHA1", c).output))
    BY Zenon DEF HmacFinishOf
  <2>8. Sha1HmacFinish(c) = HmacFinishOf("SHA1", c)
    BY <1>2, <1>3, <1>4, <2>6, <2>7, Zenon
  <2> QED
    BY <2>4, <2>5, <2>8
<1>10. MdHmac("SHA1", k, input) =
         MdInfoFromType("SHA1", "hmac_finish",
           MdInfoFromType("SHA1", "hmac_update",
             MdInfoFromType("SHA1", "hmac_starts", Garbage(b), k).ctx, input).ctx,
           <<>>).output
  <2>1. MdInfoFromType("SHA1", "hmac", <<>>, <<k, input>>) = Gives(Sha1Hmac(k, input))
    BY Sha1Table
  <2>2. MdHmac("SHA1", k, input) = Sha1Hmac(k, input)
    BY <2>1, KeptIs DEF MdHmac
  <2>3. Sha1Hmac(k, input) =
          Sha1HmacFinish(Sha1HmacUpdate(Sha1HmacStarts(Garbage(Narrow.block), k), input)).output
    BY Zenon DEF Sha1Hmac
  <2> DEFINE first == Sha1HmacStarts(Garbage(Narrow.block), k)
             second == Sha1HmacUpdate(first, input)
  <2>4. MdInfoFromType("SHA1", "hmac_starts", Garbage(b), k) = Kept(first)
    <3>1. MdInfoFromType("SHA1", "hmac_starts", Garbage(Narrow.block), k) = Kept(first)
      BY Sha1Table
    <3> QED
      BY <1>1, <3>1
  <2>5. MdInfoFromType("SHA1", "hmac_starts", Garbage(b), k).ctx = first
    BY <2>4, KeptIs
  <2> HIDE DEF first, b
  <2>6. MdInfoFromType("SHA1", "hmac_update", first, input) = Kept(second)
    BY Sha1Table
  <2>7. MdInfoFromType("SHA1", "hmac_update", first, input).ctx = second
    BY <2>6, KeptIs
  <2> HIDE DEF second
  <2>8. MdInfoFromType("SHA1", "hmac_finish", second, <<>>) = Sha1HmacFinish(second)
    BY Sha1Table
  <2>9. MdHmac("SHA1", k, input) = Sha1HmacFinish(second).output
    BY <2>2, <2>3 DEF first, second
  <2> QED
    BY <2>5, <2>7, <2>8, <2>9, Zenon
<1>11. Allocated("SHA1") = Garbage(b)
  <2>1. MdInfoFromType("SHA1", "ctx_alloc", <<>>, b) = Kept(Garbage(b))
    BY Sha1Table
  <2> QED
    BY <2>1, KeptIs DEF Allocated
<1> QED
  BY <1>6, <1>7, <1>8, <1>9, <1>10, <1>11, Zenon DEF Composed

LEMMA Sha224Composed ==
  ASSUME NEW c, NEW k, NEW input
  PROVE  Composed("SHA224", c, k, input)
<1> DEFINE b == BlockOf("SHA224")
<1>1. b = Narrow.block
  BY Zenon DEF BlockOf
<1>2. \A x : StartsOf("SHA224", x) = Sha2Starts(x, "SHA224")
  <2> SUFFICES ASSUME NEW x PROVE StartsOf("SHA224", x) = Sha2Starts(x, "SHA224")
    OBVIOUS
  <2>1. MdInfoFromType("SHA224", "starts", x, <<>>) = Kept(Sha2Starts(x, "SHA224"))
    BY Sha224Table
  <2> QED
    BY <2>1, KeptIs DEF StartsOf
<1>3. \A x, y : UpdateOf("SHA224", x, y) = Sha2Update(x, y)
  <2> SUFFICES ASSUME NEW x, NEW y PROVE UpdateOf("SHA224", x, y) = Sha2Update(x, y)
    OBVIOUS
  <2>1. MdInfoFromType("SHA224", "update", x, y) = Kept(Sha2Update(x, y))
    BY Sha224Table
  <2> QED
    BY <2>1, KeptIs DEF UpdateOf
<1>4. \A x : FinishOf("SHA224", x) = Sha2Finish(x)
  <2> SUFFICES ASSUME NEW x PROVE FinishOf("SHA224", x) = Sha2Finish(x)
    OBVIOUS
  <2>1. MdInfoFromType("SHA224", "finish", x, <<>>) = Sha2Finish(x)
    BY Sha224Table
  <2> QED
    BY <2>1 DEF FinishOf
<1>5. \A x : Sha2(x, "SHA224") = DigestOf("SHA224", x)
  <2> SUFFICES ASSUME NEW x PROVE Sha2(x, "SHA224") = DigestOf("SHA224", x)
    OBVIOUS
  <2>1. Sha2(x, "SHA224") = Sha2Finish(Sha2Update(Sha2Starts(Garbage(Narrow.block), "SHA224"), x)).output
    BY Zenon DEF Sha2
  <2>2. DigestOf("SHA224", x) = FinishOf("SHA224", UpdateOf("SHA224", StartsOf("SHA224", Garbage(b)), x)).output
    BY Zenon DEF DigestOf
  <2> QED
    BY <1>1, <1>2, <1>3, <1>4, <2>1, <2>2, Zenon
<1>6. Md("SHA224", input) = DigestOf("SHA224", input)
  <2>1. MdInfoFromType("SHA224", "digest", <<>>, input) = Gives(Sha2(input, "SHA224"))
    BY Sha224Table
  <2> QED
    BY <1>5, <2>1, KeptIs DEF Md
<1>7. DOMAIN c = Fields => MdInfoFromType("SHA224", "hmac_starts", c, k).ctx = HmacStartsOf("SHA224", c, k)
  <2> SUFFICES ASSUME DOMAIN c = Fields
               PROVE  MdInfoFromType("SHA224", "hmac_starts", c, k).ctx = HmacStartsOf("SHA224", c, k)
    OBVIOUS
  <2> DEFINE kk == KeyOf("SHA224", k)
             with == Keyed(c, b, kk)
  <2>1. MdInfoFromType("SHA224", "hmac_starts", c, k) = Kept(Sha2HmacStarts(c, k, "SHA224"))
    BY Sha224Table
  <2>2. MdInfoFromType("SHA224", "hmac_starts", c, k).ctx = Sha2HmacStarts(c, k, "SHA224")
    BY <2>1, KeptIs
  <2>3. Key(Narrow.block, LAMBDA i : Sha2(i, "SHA224"), k) = IF Len(k) > Narrow.block THEN Sha2(k, "SHA224") ELSE k
    BY Zenon DEF Key
  <2>4. kk = IF Len(k) > b THEN DigestOf("SHA224", k) ELSE k
    BY Zenon DEF KeyOf
  <2>5. kk = Key(Narrow.block, LAMBDA i : Sha2(i, "SHA224"), k)
    BY <1>1, <1>5, <2>3, <2>4, Zenon
  <2>6. Sha2HmacStarts(c, k, "SHA224") =
          Sha2Update(Sha2Starts(Keyed(c, Narrow.block, Key(Narrow.block, LAMBDA i : Sha2(i, "SHA224"), k)), "SHA224"),
                     Pad("ipad", Narrow.block, Key(Narrow.block, LAMBDA i : Sha2(i, "SHA224"), k)))
    BY Zenon DEF Sha2HmacStarts
  <2>7. Sha2HmacStarts(c, k, "SHA224") = Sha2Update(Sha2Starts(with, "SHA224"), Pad("ipad", b, kk))
    BY <1>1, <2>5, <2>6, Zenon
  <2>8. HmacStartsOf("SHA224", c, k) = UpdateOf("SHA224", StartsOf("SHA224", with), Pad("ipad", b, kk))
    BY Zenon DEF HmacStartsOf
  <2> QED
    BY <1>2, <1>3, <2>2, <2>7, <2>8, Zenon
<1>8. MdInfoFromType("SHA224", "hmac_update", c, input).ctx = UpdateOf("SHA224", c, input)
  <2>1. MdInfoFromType("SHA224", "hmac_update", c, input) = Kept(Sha2HmacUpdate(c, input))
    BY Sha224Table
  <2>2. Sha2HmacUpdate(c, input) = Sha2Update(c, input)
    BY Zenon DEF Sha2HmacUpdate
  <2> QED
    BY <1>3, <2>1, <2>2, KeptIs
<1>9. ASSUME Named("SHA224", c)
      PROVE  /\ MdInfoFromType("SHA224", "hmac_reset", c, <<>>).ctx = HmacResetOf("SHA224", c)
             /\ MdInfoFromType("SHA224", "hmac_finish", c, <<>>) = HmacFinishOf("SHA224", c)
  <2>0. c.variant = "SHA224"
    BY <1>9 DEF Named, Sha2s, Sha4s
  <2>1. MdInfoFromType("SHA224", "hmac_reset", c, <<>>) = Kept(Sha2HmacReset(c))
    BY Sha224Table
  <2>2. Sha2HmacReset(c) = Sha2Update(Sha2Starts(c, c.variant), c.ipad)
    BY Zenon DEF Sha2HmacReset
  <2>3. HmacResetOf("SHA224", c) = UpdateOf("SHA224", StartsOf("SHA224", c), c.ipad)
    BY Zenon DEF HmacResetOf
  <2>4. MdInfoFromType("SHA224", "hmac_reset", c, <<>>).ctx = HmacResetOf("SHA224", c)
    BY <1>2, <1>3, <2>1, <2>2, <2>3, <2>0, KeptIs
  <2>5. MdInfoFromType("SHA224", "hmac_finish", c, <<>>) = Sha2HmacFinish(c)
    BY Sha224Table
  <2>6. Sha2HmacFinish(c) =
          Sha2Finish(Sha2Update(Sha2Update(Sha2Starts(Sha2Finish(c).ctx, c.variant), c.opad), Sha2Finish(c).output))
    BY Zenon DEF Sha2HmacFinish, HmacFinish
  <2>7. HmacFinishOf("SHA224", c) =
          FinishOf("SHA224", UpdateOf("SHA224", UpdateOf("SHA224", StartsOf("SHA224", FinishOf("SHA224", c).ctx), c.opad),
                                 FinishOf("SHA224", c).output))
    BY Zenon DEF HmacFinishOf
  <2>8. Sha2HmacFinish(c) = HmacFinishOf("SHA224", c)
    BY <1>2, <1>3, <1>4, <2>6, <2>7, <2>0, Zenon
  <2> QED
    BY <2>4, <2>5, <2>8
<1>10. MdHmac("SHA224", k, input) =
         MdInfoFromType("SHA224", "hmac_finish",
           MdInfoFromType("SHA224", "hmac_update",
             MdInfoFromType("SHA224", "hmac_starts", Garbage(b), k).ctx, input).ctx,
           <<>>).output
  <2>1. MdInfoFromType("SHA224", "hmac", <<>>, <<k, input>>) = Gives(Sha2Hmac(k, input, "SHA224"))
    BY Sha224Table
  <2>2. MdHmac("SHA224", k, input) = Sha2Hmac(k, input, "SHA224")
    BY <2>1, KeptIs DEF MdHmac
  <2>3. Sha2Hmac(k, input, "SHA224") =
          Sha2HmacFinish(Sha2HmacUpdate(Sha2HmacStarts(Garbage(Narrow.block), k, "SHA224"), input)).output
    BY Zenon DEF Sha2Hmac
  <2> DEFINE first == Sha2HmacStarts(Garbage(Narrow.block), k, "SHA224")
             second == Sha2HmacUpdate(first, input)
  <2>4. MdInfoFromType("SHA224", "hmac_starts", Garbage(b), k) = Kept(first)
    <3>1. MdInfoFromType("SHA224", "hmac_starts", Garbage(Narrow.block), k) = Kept(first)
      BY Sha224Table
    <3> QED
      BY <1>1, <3>1
  <2>5. MdInfoFromType("SHA224", "hmac_starts", Garbage(b), k).ctx = first
    BY <2>4, KeptIs
  <2> HIDE DEF first, b
  <2>6. MdInfoFromType("SHA224", "hmac_update", first, input) = Kept(second)
    BY Sha224Table
  <2>7. MdInfoFromType("SHA224", "hmac_update", first, input).ctx = second
    BY <2>6, KeptIs
  <2> HIDE DEF second
  <2>8. MdInfoFromType("SHA224", "hmac_finish", second, <<>>) = Sha2HmacFinish(second)
    BY Sha224Table
  <2>9. MdHmac("SHA224", k, input) = Sha2HmacFinish(second).output
    BY <2>2, <2>3 DEF first, second
  <2> QED
    BY <2>5, <2>7, <2>8, <2>9, Zenon
<1>11. Allocated("SHA224") = Garbage(b)
  <2>1. MdInfoFromType("SHA224", "ctx_alloc", <<>>, b) = Kept(Garbage(b))
    BY Sha224Table
  <2> QED
    BY <2>1, KeptIs DEF Allocated
<1> QED
  BY <1>6, <1>7, <1>8, <1>9, <1>10, <1>11, Zenon DEF Composed

LEMMA Sha256Composed ==
  ASSUME NEW c, NEW k, NEW input
  PROVE  Composed("SHA256", c, k, input)
<1> DEFINE b == BlockOf("SHA256")
<1>1. b = Narrow.block
  BY Zenon DEF BlockOf
<1>2. \A x : StartsOf("SHA256", x) = Sha2Starts(x, "SHA256")
  <2> SUFFICES ASSUME NEW x PROVE StartsOf("SHA256", x) = Sha2Starts(x, "SHA256")
    OBVIOUS
  <2>1. MdInfoFromType("SHA256", "starts", x, <<>>) = Kept(Sha2Starts(x, "SHA256"))
    BY Sha256Table
  <2> QED
    BY <2>1, KeptIs DEF StartsOf
<1>3. \A x, y : UpdateOf("SHA256", x, y) = Sha2Update(x, y)
  <2> SUFFICES ASSUME NEW x, NEW y PROVE UpdateOf("SHA256", x, y) = Sha2Update(x, y)
    OBVIOUS
  <2>1. MdInfoFromType("SHA256", "update", x, y) = Kept(Sha2Update(x, y))
    BY Sha256Table
  <2> QED
    BY <2>1, KeptIs DEF UpdateOf
<1>4. \A x : FinishOf("SHA256", x) = Sha2Finish(x)
  <2> SUFFICES ASSUME NEW x PROVE FinishOf("SHA256", x) = Sha2Finish(x)
    OBVIOUS
  <2>1. MdInfoFromType("SHA256", "finish", x, <<>>) = Sha2Finish(x)
    BY Sha256Table
  <2> QED
    BY <2>1 DEF FinishOf
<1>5. \A x : Sha2(x, "SHA256") = DigestOf("SHA256", x)
  <2> SUFFICES ASSUME NEW x PROVE Sha2(x, "SHA256") = DigestOf("SHA256", x)
    OBVIOUS
  <2>1. Sha2(x, "SHA256") = Sha2Finish(Sha2Update(Sha2Starts(Garbage(Narrow.block), "SHA256"), x)).output
    BY Zenon DEF Sha2
  <2>2. DigestOf("SHA256", x) = FinishOf("SHA256", UpdateOf("SHA256", StartsOf("SHA256", Garbage(b)), x)).output
    BY Zenon DEF DigestOf
  <2> QED
    BY <1>1, <1>2, <1>3, <1>4, <2>1, <2>2, Zenon
<1>6. Md("SHA256", input) = DigestOf("SHA256", input)
  <2>1. MdInfoFromType("SHA256", "digest", <<>>, input) = Gives(Sha2(input, "SHA256"))
    BY Sha256Table
  <2> QED
    BY <1>5, <2>1, KeptIs DEF Md
<1>7. DOMAIN c = Fields => MdInfoFromType("SHA256", "hmac_starts", c, k).ctx = HmacStartsOf("SHA256", c, k)
  <2> SUFFICES ASSUME DOMAIN c = Fields
               PROVE  MdInfoFromType("SHA256", "hmac_starts", c, k).ctx = HmacStartsOf("SHA256", c, k)
    OBVIOUS
  <2> DEFINE kk == KeyOf("SHA256", k)
             with == Keyed(c, b, kk)
  <2>1. MdInfoFromType("SHA256", "hmac_starts", c, k) = Kept(Sha2HmacStarts(c, k, "SHA256"))
    BY Sha256Table
  <2>2. MdInfoFromType("SHA256", "hmac_starts", c, k).ctx = Sha2HmacStarts(c, k, "SHA256")
    BY <2>1, KeptIs
  <2>3. Key(Narrow.block, LAMBDA i : Sha2(i, "SHA256"), k) = IF Len(k) > Narrow.block THEN Sha2(k, "SHA256") ELSE k
    BY Zenon DEF Key
  <2>4. kk = IF Len(k) > b THEN DigestOf("SHA256", k) ELSE k
    BY Zenon DEF KeyOf
  <2>5. kk = Key(Narrow.block, LAMBDA i : Sha2(i, "SHA256"), k)
    BY <1>1, <1>5, <2>3, <2>4, Zenon
  <2>6. Sha2HmacStarts(c, k, "SHA256") =
          Sha2Update(Sha2Starts(Keyed(c, Narrow.block, Key(Narrow.block, LAMBDA i : Sha2(i, "SHA256"), k)), "SHA256"),
                     Pad("ipad", Narrow.block, Key(Narrow.block, LAMBDA i : Sha2(i, "SHA256"), k)))
    BY Zenon DEF Sha2HmacStarts
  <2>7. Sha2HmacStarts(c, k, "SHA256") = Sha2Update(Sha2Starts(with, "SHA256"), Pad("ipad", b, kk))
    BY <1>1, <2>5, <2>6, Zenon
  <2>8. HmacStartsOf("SHA256", c, k) = UpdateOf("SHA256", StartsOf("SHA256", with), Pad("ipad", b, kk))
    BY Zenon DEF HmacStartsOf
  <2> QED
    BY <1>2, <1>3, <2>2, <2>7, <2>8, Zenon
<1>8. MdInfoFromType("SHA256", "hmac_update", c, input).ctx = UpdateOf("SHA256", c, input)
  <2>1. MdInfoFromType("SHA256", "hmac_update", c, input) = Kept(Sha2HmacUpdate(c, input))
    BY Sha256Table
  <2>2. Sha2HmacUpdate(c, input) = Sha2Update(c, input)
    BY Zenon DEF Sha2HmacUpdate
  <2> QED
    BY <1>3, <2>1, <2>2, KeptIs
<1>9. ASSUME Named("SHA256", c)
      PROVE  /\ MdInfoFromType("SHA256", "hmac_reset", c, <<>>).ctx = HmacResetOf("SHA256", c)
             /\ MdInfoFromType("SHA256", "hmac_finish", c, <<>>) = HmacFinishOf("SHA256", c)
  <2>0. c.variant = "SHA256"
    BY <1>9 DEF Named, Sha2s, Sha4s
  <2>1. MdInfoFromType("SHA256", "hmac_reset", c, <<>>) = Kept(Sha2HmacReset(c))
    BY Sha256Table
  <2>2. Sha2HmacReset(c) = Sha2Update(Sha2Starts(c, c.variant), c.ipad)
    BY Zenon DEF Sha2HmacReset
  <2>3. HmacResetOf("SHA256", c) = UpdateOf("SHA256", StartsOf("SHA256", c), c.ipad)
    BY Zenon DEF HmacResetOf
  <2>4. MdInfoFromType("SHA256", "hmac_reset", c, <<>>).ctx = HmacResetOf("SHA256", c)
    BY <1>2, <1>3, <2>1, <2>2, <2>3, <2>0, KeptIs
  <2>5. MdInfoFromType("SHA256", "hmac_finish", c, <<>>) = Sha2HmacFinish(c)
    BY Sha256Table
  <2>6. Sha2HmacFinish(c) =
          Sha2Finish(Sha2Update(Sha2Update(Sha2Starts(Sha2Finish(c).ctx, c.variant), c.opad), Sha2Finish(c).output))
    BY Zenon DEF Sha2HmacFinish, HmacFinish
  <2>7. HmacFinishOf("SHA256", c) =
          FinishOf("SHA256", UpdateOf("SHA256", UpdateOf("SHA256", StartsOf("SHA256", FinishOf("SHA256", c).ctx), c.opad),
                                 FinishOf("SHA256", c).output))
    BY Zenon DEF HmacFinishOf
  <2>8. Sha2HmacFinish(c) = HmacFinishOf("SHA256", c)
    BY <1>2, <1>3, <1>4, <2>6, <2>7, <2>0, Zenon
  <2> QED
    BY <2>4, <2>5, <2>8
<1>10. MdHmac("SHA256", k, input) =
         MdInfoFromType("SHA256", "hmac_finish",
           MdInfoFromType("SHA256", "hmac_update",
             MdInfoFromType("SHA256", "hmac_starts", Garbage(b), k).ctx, input).ctx,
           <<>>).output
  <2>1. MdInfoFromType("SHA256", "hmac", <<>>, <<k, input>>) = Gives(Sha2Hmac(k, input, "SHA256"))
    BY Sha256Table
  <2>2. MdHmac("SHA256", k, input) = Sha2Hmac(k, input, "SHA256")
    BY <2>1, KeptIs DEF MdHmac
  <2>3. Sha2Hmac(k, input, "SHA256") =
          Sha2HmacFinish(Sha2HmacUpdate(Sha2HmacStarts(Garbage(Narrow.block), k, "SHA256"), input)).output
    BY Zenon DEF Sha2Hmac
  <2> DEFINE first == Sha2HmacStarts(Garbage(Narrow.block), k, "SHA256")
             second == Sha2HmacUpdate(first, input)
  <2>4. MdInfoFromType("SHA256", "hmac_starts", Garbage(b), k) = Kept(first)
    <3>1. MdInfoFromType("SHA256", "hmac_starts", Garbage(Narrow.block), k) = Kept(first)
      BY Sha256Table
    <3> QED
      BY <1>1, <3>1
  <2>5. MdInfoFromType("SHA256", "hmac_starts", Garbage(b), k).ctx = first
    BY <2>4, KeptIs
  <2> HIDE DEF first, b
  <2>6. MdInfoFromType("SHA256", "hmac_update", first, input) = Kept(second)
    BY Sha256Table
  <2>7. MdInfoFromType("SHA256", "hmac_update", first, input).ctx = second
    BY <2>6, KeptIs
  <2> HIDE DEF second
  <2>8. MdInfoFromType("SHA256", "hmac_finish", second, <<>>) = Sha2HmacFinish(second)
    BY Sha256Table
  <2>9. MdHmac("SHA256", k, input) = Sha2HmacFinish(second).output
    BY <2>2, <2>3 DEF first, second
  <2> QED
    BY <2>5, <2>7, <2>8, <2>9, Zenon
<1>11. Allocated("SHA256") = Garbage(b)
  <2>1. MdInfoFromType("SHA256", "ctx_alloc", <<>>, b) = Kept(Garbage(b))
    BY Sha256Table
  <2> QED
    BY <2>1, KeptIs DEF Allocated
<1> QED
  BY <1>6, <1>7, <1>8, <1>9, <1>10, <1>11, Zenon DEF Composed

LEMMA Sha384Composed ==
  ASSUME NEW c, NEW k, NEW input
  PROVE  Composed("SHA384", c, k, input)
<1> DEFINE b == BlockOf("SHA384")
<1>1. b = Wide.block
  BY Zenon DEF BlockOf
<1>2. \A x : StartsOf("SHA384", x) = Sha4Starts(x, "SHA384")
  <2> SUFFICES ASSUME NEW x PROVE StartsOf("SHA384", x) = Sha4Starts(x, "SHA384")
    OBVIOUS
  <2>1. MdInfoFromType("SHA384", "starts", x, <<>>) = Kept(Sha4Starts(x, "SHA384"))
    BY Sha384Table
  <2> QED
    BY <2>1, KeptIs DEF StartsOf
<1>3. \A x, y : UpdateOf("SHA384", x, y) = Sha4Update(x, y)
  <2> SUFFICES ASSUME NEW x, NEW y PROVE UpdateOf("SHA384", x, y) = Sha4Update(x, y)
    OBVIOUS
  <2>1. MdInfoFromType("SHA384", "update", x, y) = Kept(Sha4Update(x, y))
    BY Sha384Table
  <2> QED
    BY <2>1, KeptIs DEF UpdateOf
<1>4. \A x : FinishOf("SHA384", x) = Sha4Finish(x)
  <2> SUFFICES ASSUME NEW x PROVE FinishOf("SHA384", x) = Sha4Finish(x)
    OBVIOUS
  <2>1. MdInfoFromType("SHA384", "finish", x, <<>>) = Sha4Finish(x)
    BY Sha384Table
  <2> QED
    BY <2>1 DEF FinishOf
<1>5. \A x : Sha4(x, "SHA384") = DigestOf("SHA384", x)
  <2> SUFFICES ASSUME NEW x PROVE Sha4(x, "SHA384") = DigestOf("SHA384", x)
    OBVIOUS
  <2>1. Sha4(x, "SHA384") = Sha4Finish(Sha4Update(Sha4Starts(Garbage(Wide.block), "SHA384"), x)).output
    BY Zenon DEF Sha4
  <2>2. DigestOf("SHA384", x) = FinishOf("SHA384", UpdateOf("SHA384", StartsOf("SHA384", Garbage(b)), x)).output
    BY Zenon DEF DigestOf
  <2> QED
    BY <1>1, <1>2, <1>3, <1>4, <2>1, <2>2, Zenon
<1>6. Md("SHA384", input) = DigestOf("SHA384", input)
  <2>1. MdInfoFromType("SHA384", "digest", <<>>, input) = Gives(Sha4(input, "SHA384"))
    BY Sha384Table
  <2> QED
    BY <1>5, <2>1, KeptIs DEF Md
<1>7. DOMAIN c = Fields => MdInfoFromType("SHA384", "hmac_starts", c, k).ctx = HmacStartsOf("SHA384", c, k)
  <2> SUFFICES ASSUME DOMAIN c = Fields
               PROVE  MdInfoFromType("SHA384", "hmac_starts", c, k).ctx = HmacStartsOf("SHA384", c, k)
    OBVIOUS
  <2> DEFINE kk == KeyOf("SHA384", k)
             with == Keyed(c, b, kk)
  <2>1. MdInfoFromType("SHA384", "hmac_starts", c, k) = Kept(Sha4HmacStarts(c, k, "SHA384"))
    BY Sha384Table
  <2>2. MdInfoFromType("SHA384", "hmac_starts", c, k).ctx = Sha4HmacStarts(c, k, "SHA384")
    BY <2>1, KeptIs
  <2>3. Key(Wide.block, LAMBDA i : Sha4(i, "SHA384"), k) = IF Len(k) > Wide.block THEN Sha4(k, "SHA384") ELSE k
    BY Zenon DEF Key
  <2>4. kk = IF Len(k) > b THEN DigestOf("SHA384", k) ELSE k
    BY Zenon DEF KeyOf
  <2>5. kk = Key(Wide.block, LAMBDA i : Sha4(i, "SHA384"), k)
    BY <1>1, <1>5, <2>3, <2>4, Zenon
  <2>6. Sha4HmacStarts(c, k, "SHA384") =
          Sha4Update(Sha4Starts(Keyed(c, Wide.block, Key(Wide.block, LAMBDA i : Sha4(i, "SHA384"), k)), "SHA384"),
                     Pad("ipad", Wide.block, Key(Wide.block, LAMBDA i : Sha4(i, "SHA384"), k)))
    BY Zenon DEF Sha4HmacStarts
  <2>7. Sha4HmacStarts(c, k, "SHA384") = Sha4Update(Sha4Starts(with, "SHA384"), Pad("ipad", b, kk))
    BY <1>1, <2>5, <2>6, Zenon
  <2>8. HmacStartsOf("SHA384", c, k) = UpdateOf("SHA384", StartsOf("SHA384", with), Pad("ipad", b, kk))
    BY Zenon DEF HmacStartsOf
  <2> QED
    BY <1>2, <1>3, <2>2, <2>7, <2>8, Zenon
<1>8. MdInfoFromType("SHA384", "hmac_update", c, input).ctx = UpdateOf("SHA384", c, input)
  <2>1. MdInfoFromType("SHA384", "hmac_update", c, input) = Kept(Sha4HmacUpdate(c, input))
    BY Sha384Table
  <2>2. Sha4HmacUpdate(c, input) = Sha4Update(c, input)
    BY Zenon DEF Sha4HmacUpdate
  <2> QED
    BY <1>3, <2>1, <2>2, KeptIs
<1>9. ASSUME Named("SHA384", c)
      PROVE  /\ MdInfoFromType("SHA384", "hmac_reset", c, <<>>).ctx = HmacResetOf("SHA384", c)
             /\ MdInfoFromType("SHA384", "hmac_finish", c, <<>>) = HmacFinishOf("SHA384", c)
  <2>0. c.variant = "SHA384"
    BY <1>9 DEF Named, Sha2s, Sha4s
  <2>1. MdInfoFromType("SHA384", "hmac_reset", c, <<>>) = Kept(Sha4HmacReset(c))
    BY Sha384Table
  <2>2. Sha4HmacReset(c) = Sha4Update(Sha4Starts(c, c.variant), c.ipad)
    BY Zenon DEF Sha4HmacReset
  <2>3. HmacResetOf("SHA384", c) = UpdateOf("SHA384", StartsOf("SHA384", c), c.ipad)
    BY Zenon DEF HmacResetOf
  <2>4. MdInfoFromType("SHA384", "hmac_reset", c, <<>>).ctx = HmacResetOf("SHA384", c)
    BY <1>2, <1>3, <2>1, <2>2, <2>3, <2>0, KeptIs
  <2>5. MdInfoFromType("SHA384", "hmac_finish", c, <<>>) = Sha4HmacFinish(c)
    BY Sha384Table
  <2>6. Sha4HmacFinish(c) =
          Sha4Finish(Sha4Update(Sha4Update(Sha4Starts(Sha4Finish(c).ctx, c.variant), c.opad), Sha4Finish(c).output))
    BY Zenon DEF Sha4HmacFinish, HmacFinish
  <2>7. HmacFinishOf("SHA384", c) =
          FinishOf("SHA384", UpdateOf("SHA384", UpdateOf("SHA384", StartsOf("SHA384", FinishOf("SHA384", c).ctx), c.opad),
                                 FinishOf("SHA384", c).output))
    BY Zenon DEF HmacFinishOf
  <2>8. Sha4HmacFinish(c) = HmacFinishOf("SHA384", c)
    BY <1>2, <1>3, <1>4, <2>6, <2>7, <2>0, Zenon
  <2> QED
    BY <2>4, <2>5, <2>8
<1>10. MdHmac("SHA384", k, input) =
         MdInfoFromType("SHA384", "hmac_finish",
           MdInfoFromType("SHA384", "hmac_update",
             MdInfoFromType("SHA384", "hmac_starts", Garbage(b), k).ctx, input).ctx,
           <<>>).output
  <2>1. MdInfoFromType("SHA384", "hmac", <<>>, <<k, input>>) = Gives(Sha4Hmac(k, input, "SHA384"))
    BY Sha384Table
  <2>2. MdHmac("SHA384", k, input) = Sha4Hmac(k, input, "SHA384")
    BY <2>1, KeptIs DEF MdHmac
  <2>3. Sha4Hmac(k, input, "SHA384") =
          Sha4HmacFinish(Sha4HmacUpdate(Sha4HmacStarts(Garbage(Wide.block), k, "SHA384"), input)).output
    BY Zenon DEF Sha4Hmac
  <2> DEFINE first == Sha4HmacStarts(Garbage(Wide.block), k, "SHA384")
             second == Sha4HmacUpdate(first, input)
  <2>4. MdInfoFromType("SHA384", "hmac_starts", Garbage(b), k) = Kept(first)
    <3>1. MdInfoFromType("SHA384", "hmac_starts", Garbage(Wide.block), k) = Kept(first)
      BY Sha384Table
    <3> QED
      BY <1>1, <3>1
  <2>5. MdInfoFromType("SHA384", "hmac_starts", Garbage(b), k).ctx = first
    BY <2>4, KeptIs
  <2> HIDE DEF first, b
  <2>6. MdInfoFromType("SHA384", "hmac_update", first, input) = Kept(second)
    BY Sha384Table
  <2>7. MdInfoFromType("SHA384", "hmac_update", first, input).ctx = second
    BY <2>6, KeptIs
  <2> HIDE DEF second
  <2>8. MdInfoFromType("SHA384", "hmac_finish", second, <<>>) = Sha4HmacFinish(second)
    BY Sha384Table
  <2>9. MdHmac("SHA384", k, input) = Sha4HmacFinish(second).output
    BY <2>2, <2>3 DEF first, second
  <2> QED
    BY <2>5, <2>7, <2>8, <2>9, Zenon
<1>11. Allocated("SHA384") = Garbage(b)
  <2>1. MdInfoFromType("SHA384", "ctx_alloc", <<>>, b) = Kept(Garbage(b))
    BY Sha384Table
  <2> QED
    BY <2>1, KeptIs DEF Allocated
<1> QED
  BY <1>6, <1>7, <1>8, <1>9, <1>10, <1>11, Zenon DEF Composed

LEMMA Sha512Composed ==
  ASSUME NEW c, NEW k, NEW input
  PROVE  Composed("SHA512", c, k, input)
<1> DEFINE b == BlockOf("SHA512")
<1>1. b = Wide.block
  BY Zenon DEF BlockOf
<1>2. \A x : StartsOf("SHA512", x) = Sha4Starts(x, "SHA512")
  <2> SUFFICES ASSUME NEW x PROVE StartsOf("SHA512", x) = Sha4Starts(x, "SHA512")
    OBVIOUS
  <2>1. MdInfoFromType("SHA512", "starts", x, <<>>) = Kept(Sha4Starts(x, "SHA512"))
    BY Sha512Table
  <2> QED
    BY <2>1, KeptIs DEF StartsOf
<1>3. \A x, y : UpdateOf("SHA512", x, y) = Sha4Update(x, y)
  <2> SUFFICES ASSUME NEW x, NEW y PROVE UpdateOf("SHA512", x, y) = Sha4Update(x, y)
    OBVIOUS
  <2>1. MdInfoFromType("SHA512", "update", x, y) = Kept(Sha4Update(x, y))
    BY Sha512Table
  <2> QED
    BY <2>1, KeptIs DEF UpdateOf
<1>4. \A x : FinishOf("SHA512", x) = Sha4Finish(x)
  <2> SUFFICES ASSUME NEW x PROVE FinishOf("SHA512", x) = Sha4Finish(x)
    OBVIOUS
  <2>1. MdInfoFromType("SHA512", "finish", x, <<>>) = Sha4Finish(x)
    BY Sha512Table
  <2> QED
    BY <2>1 DEF FinishOf
<1>5. \A x : Sha4(x, "SHA512") = DigestOf("SHA512", x)
  <2> SUFFICES ASSUME NEW x PROVE Sha4(x, "SHA512") = DigestOf("SHA512", x)
    OBVIOUS
  <2>1. Sha4(x, "SHA512") = Sha4Finish(Sha4Update(Sha4Starts(Garbage(Wide.block), "SHA512"), x)).output
    BY Zenon DEF Sha4
  <2>2. DigestOf("SHA512", x) = FinishOf("SHA512", UpdateOf("SHA512", StartsOf("SHA512", Garbage(b)), x)).output
    BY Zenon DEF DigestOf
  <2> QED
    BY <1>1, <1>2, <1>3, <1>4, <2>1, <2>2, Zenon
<1>6. Md("SHA512", input) = DigestOf("SHA512", input)
  <2>1. MdInfoFromType("SHA512", "digest", <<>>, input) = Gives(Sha4(input, "SHA512"))
    BY Sha512Table
  <2> QED
    BY <1>5, <2>1, KeptIs DEF Md
<1>7. DOMAIN c = Fields => MdInfoFromType("SHA512", "hmac_starts", c, k).ctx = HmacStartsOf("SHA512", c, k)
  <2> SUFFICES ASSUME DOMAIN c = Fields
               PROVE  MdInfoFromType("SHA512", "hmac_starts", c, k).ctx = HmacStartsOf("SHA512", c, k)
    OBVIOUS
  <2> DEFINE kk == KeyOf("SHA512", k)
             with == Keyed(c, b, kk)
  <2>1. MdInfoFromType("SHA512", "hmac_starts", c, k) = Kept(Sha4HmacStarts(c, k, "SHA512"))
    BY Sha512Table
  <2>2. MdInfoFromType("SHA512", "hmac_starts", c, k).ctx = Sha4HmacStarts(c, k, "SHA512")
    BY <2>1, KeptIs
  <2>3. Key(Wide.block, LAMBDA i : Sha4(i, "SHA512"), k) = IF Len(k) > Wide.block THEN Sha4(k, "SHA512") ELSE k
    BY Zenon DEF Key
  <2>4. kk = IF Len(k) > b THEN DigestOf("SHA512", k) ELSE k
    BY Zenon DEF KeyOf
  <2>5. kk = Key(Wide.block, LAMBDA i : Sha4(i, "SHA512"), k)
    BY <1>1, <1>5, <2>3, <2>4, Zenon
  <2>6. Sha4HmacStarts(c, k, "SHA512") =
          Sha4Update(Sha4Starts(Keyed(c, Wide.block, Key(Wide.block, LAMBDA i : Sha4(i, "SHA512"), k)), "SHA512"),
                     Pad("ipad", Wide.block, Key(Wide.block, LAMBDA i : Sha4(i, "SHA512"), k)))
    BY Zenon DEF Sha4HmacStarts
  <2>7. Sha4HmacStarts(c, k, "SHA512") = Sha4Update(Sha4Starts(with, "SHA512"), Pad("ipad", b, kk))
    BY <1>1, <2>5, <2>6, Zenon
  <2>8. HmacStartsOf("SHA512", c, k) = UpdateOf("SHA512", StartsOf("SHA512", with), Pad("ipad", b, kk))
    BY Zenon DEF HmacStartsOf
  <2> QED
    BY <1>2, <1>3, <2>2, <2>7, <2>8, Zenon
<1>8. MdInfoFromType("SHA512", "hmac_update", c, input).ctx = UpdateOf("SHA512", c, input)
  <2>1. MdInfoFromType("SHA512", "hmac_update", c, input) = Kept(Sha4HmacUpdate(c, input))
    BY Sha512Table
  <2>2. Sha4HmacUpdate(c, input) = Sha4Update(c, input)
    BY Zenon DEF Sha4HmacUpdate
  <2> QED
    BY <1>3, <2>1, <2>2, KeptIs
<1>9. ASSUME Named("SHA512", c)
      PROVE  /\ MdInfoFromType("SHA512", "hmac_reset", c, <<>>).ctx = HmacResetOf("SHA512", c)
             /\ MdInfoFromType("SHA512", "hmac_finish", c, <<>>) = HmacFinishOf("SHA512", c)
  <2>0. c.variant = "SHA512"
    BY <1>9 DEF Named, Sha2s, Sha4s
  <2>1. MdInfoFromType("SHA512", "hmac_reset", c, <<>>) = Kept(Sha4HmacReset(c))
    BY Sha512Table
  <2>2. Sha4HmacReset(c) = Sha4Update(Sha4Starts(c, c.variant), c.ipad)
    BY Zenon DEF Sha4HmacReset
  <2>3. HmacResetOf("SHA512", c) = UpdateOf("SHA512", StartsOf("SHA512", c), c.ipad)
    BY Zenon DEF HmacResetOf
  <2>4. MdInfoFromType("SHA512", "hmac_reset", c, <<>>).ctx = HmacResetOf("SHA512", c)
    BY <1>2, <1>3, <2>1, <2>2, <2>3, <2>0, KeptIs
  <2>5. MdInfoFromType("SHA512", "hmac_finish", c, <<>>) = Sha4HmacFinish(c)
    BY Sha512Table
  <2>6. Sha4HmacFinish(c) =
          Sha4Finish(Sha4Update(Sha4Update(Sha4Starts(Sha4Finish(c).ctx, c.variant), c.opad), Sha4Finish(c).output))
    BY Zenon DEF Sha4HmacFinish, HmacFinish
  <2>7. HmacFinishOf("SHA512", c) =
          FinishOf("SHA512", UpdateOf("SHA512", UpdateOf("SHA512", StartsOf("SHA512", FinishOf("SHA512", c).ctx), c.opad),
                                 FinishOf("SHA512", c).output))
    BY Zenon DEF HmacFinishOf
  <2>8. Sha4HmacFinish(c) = HmacFinishOf("SHA512", c)
    BY <1>2, <1>3, <1>4, <2>6, <2>7, <2>0, Zenon
  <2> QED
    BY <2>4, <2>5, <2>8
<1>10. MdHmac("SHA512", k, input) =
         MdInfoFromType("SHA512", "hmac_finish",
           MdInfoFromType("SHA512", "hmac_update",
             MdInfoFromType("SHA512", "hmac_starts", Garbage(b), k).ctx, input).ctx,
           <<>>).output
  <2>1. MdInfoFromType("SHA512", "hmac", <<>>, <<k, input>>) = Gives(Sha4Hmac(k, input, "SHA512"))
    BY Sha512Table
  <2>2. MdHmac("SHA512", k, input) = Sha4Hmac(k, input, "SHA512")
    BY <2>1, KeptIs DEF MdHmac
  <2>3. Sha4Hmac(k, input, "SHA512") =
          Sha4HmacFinish(Sha4HmacUpdate(Sha4HmacStarts(Garbage(Wide.block), k, "SHA512"), input)).output
    BY Zenon DEF Sha4Hmac
  <2> DEFINE first == Sha4HmacStarts(Garbage(Wide.block), k, "SHA512")
             second == Sha4HmacUpdate(first, input)
  <2>4. MdInfoFromType("SHA512", "hmac_starts", Garbage(b), k) = Kept(first)
    <3>1. MdInfoFromType("SHA512", "hmac_starts", Garbage(Wide.block), k) = Kept(first)
      BY Sha512Table
    <3> QED
      BY <1>1, <3>1
  <2>5. MdInfoFromType("SHA512", "hmac_starts", Garbage(b), k).ctx = first
    BY <2>4, KeptIs
  <2> HIDE DEF first, b
  <2>6. MdInfoFromType("SHA512", "hmac_update", first, input) = Kept(second)
    BY Sha512Table
  <2>7. MdInfoFromType("SHA512", "hmac_update", first, input).ctx = second
    BY <2>6, KeptIs
  <2> HIDE DEF second
  <2>8. MdInfoFromType("SHA512", "hmac_finish", second, <<>>) = Sha4HmacFinish(second)
    BY Sha512Table
  <2>9. MdHmac("SHA512", k, input) = Sha4HmacFinish(second).output
    BY <2>2, <2>3 DEF first, second
  <2> QED
    BY <2>5, <2>7, <2>8, <2>9, Zenon
<1>11. Allocated("SHA512") = Garbage(b)
  <2>1. MdInfoFromType("SHA512", "ctx_alloc", <<>>, b) = Kept(Garbage(b))
    BY Sha512Table
  <2> QED
    BY <2>1, KeptIs DEF Allocated
<1> QED
  BY <1>6, <1>7, <1>8, <1>9, <1>10, <1>11, Zenon DEF Composed

LEMMA EveryComposed ==
  ASSUME NEW type \in Types, NEW c, NEW k, NEW input
  PROVE  Composed(type, c, k, input)
<1>1. CASE type = "MD2"
  BY <1>1, Md2Composed
<1>2. CASE type # "MD2"
  <2>1. TypeCases(type)
    BY <1>2, EveryType
  <2> QED
    BY <2>1, Md4Composed, Md5Composed, Sha1Composed, Sha224Composed, Sha256Composed,
       Sha384Composed, Sha512Composed DEF TypeCases
<1> QED
  BY <1>1, <1>2

(* The lengths that the constants allow can be counted.                    *)
LEMMA ShorterCountable ==
  ASSUME NEW type \in Types, NEW n \in Nat, NEW b, Countable(type, b), n <= b
  PROVE  Countable(type, n)
<1>1. CASE type = "MD2"
  BY <1>1 DEF Countable
<1>2. CASE type # "MD2"
  <2> DEFINE v == Geometry(type).word * Geometry(type).word
  <2>1. b \in Nat /\ 8 * b < v
    BY <1>2 DEF Countable
  <2>2. v \in Nat
    BY <1>2, Geometries DEF FitsTotals
  <2> HIDE DEF v
  <2>3. 8 * n < v
    BY <2>1, <2>2
  <2> QED
    BY <2>3 DEF Countable, v
<1> QED
  BY <1>1, <1>2

LEMMA FitLengths ==
  ASSUME NEW type \in Types
  PROVE  /\ MessageBound[type] \in Nat
         /\ Countable(type, MessageBound[type] + BlockOf(type))
         /\ Countable(type, BlockOf(type) + BlockOf(type))
         /\ \A n \in 0 .. BlockOf(type) : OneCall(type, n)
         /\ \A n \in PieceLengths \cup KeyLengths : OneCall(type, n) /\ Countable(type, n)
<1>1. BlockOf(type) \in Nat
  BY Geometries
<1>2. CASE type = "MD2"
  <2>1. MessageBound[type] \in Nat
    BY <1>2, LengthsAssumption
  <2>2. PieceLengths \cup KeyLengths \subseteq Nat
    BY PiecesAssumption
  <2> QED
    BY <1>1, <1>2, <2>1, <2>2 DEF Countable, OneCall
<1>3. CASE type # "MD2"
  <2> DEFINE g == Geometry(type)
             w == g.word
             k == BlockOf(type)
             v == w * w
             u == MessageBound[type]
  <2>1. FitsStandard(g, u)
    <3>1. CASE type \in Sha4s
      <4>1. g = Wide
        BY <3>1, Geometries
      <4> QED
        BY <3>1, <4>1, LengthsAssumption DEF Sha4s
    <3>2. CASE type \notin Sha4s
      <4>1. type \in {"MD4", "MD5", "SHA1", "SHA224", "SHA256"}
        BY <1>3, <3>2 DEF Types, Sha4s
      <4>2. g = Narrow
        BY <4>1, Geometries DEF Sha2s
      <4> HIDE DEF g
      <4> QED
        BY <4>1, <4>2, LengthsAssumption
    <3> QED
      BY <3>1, <3>2
  <2>2. /\ w \in Nat /\ k < w /\ w % 8 = 0 /\ k \in Nat \ {0} /\ g.block = k
    BY <1>3, Geometries DEF FitsTotals
  <2>3. v \in Nat /\ u \in Nat /\ 8 * (u + k) < v /\ 16 * k < v
    BY <2>1, <2>2 DEF FitsStandard
  <2>4. \A n \in PieceLengths \cup KeyLengths : n \in Nat /\ n < w
    <3>1. g = Narrow \/ g = Wide
      BY <1>3 DEF Geometry
    <3> HIDE DEF g
    <3> QED
      BY <3>1, PiecesAssumption
  <2>5. 8 * w <= v
    <3>1. 8 <= w
      BY <2>2
    <3> QED
      BY <2>2, <3>1, Times
  <2> HIDE DEF g, w, k, v, u
  <2>6. 8 * (k + k) < v /\ \A n \in Nat : n < w => 8 * n < v
    BY <2>2, <2>3, <2>5
  <2>7. k + k \in Nat /\ u + k \in Nat /\ \A n \in 0 .. k : n \in Nat /\ n < w
    BY <2>2, <2>3
  <2> QED
    BY <1>3, <2>3, <2>4, <2>6, <2>7 DEF Countable, OneCall, g, w, k, v, u
<1> QED
  BY <1>2, <1>3

LEMMA StandardStr ==
  ASSUME NEW type \in Types, NEW m
  PROVE  /\ Str(StandardDigest(type, m))
         /\ Len(StandardDigest(type, m)) \in 1 .. BlockOf(type)
<1>1. PICK s : StandardDigest(type, m) = Digest(type, s)
  BY DEF StandardDigest
<1> QED
  BY <1>1, DigestStr

LEMMA DigestOfGood ==
  ASSUME NEW type \in Types, NEW input, Str(input),
         OneCall(type, Len(input)), Countable(type, Len(input))
  PROVE  DigestOf(type, input) = StandardDigest(type, input)
<1> DEFINE c == Garbage(BlockOf(type))
           a == StartsOf(type, c)
           b == UpdateOf(type, a, input)
           e == <<>>
<1>1. Good(type, a, e)
  <2>1. Form(type, c)
    BY GarbageForm
  <2> HIDE DEF c
  <2> QED
    BY <2>1, StartsGood
<1>2. Str(e) /\ Len(e) = 0 /\ e \o input = input /\ Len(e) + Len(input) = Len(input)
  BY EmptyStr DEF Str
<1>3. DigestOf(type, input) = FinishOf(type, b).output
  BY Zenon DEF DigestOf
<1> HIDE DEF a, c, e
<1>4. Good(type, b, input)
  <2>1. Good(type, b, e \o input)
    BY <1>1, <1>2, UpdateGood
  <2> QED
    BY <1>2, <2>1
<1> HIDE DEF b
<1> QED
  BY <1>3, <1>4, FinishGood

(* The key that goes into the pads, and the pads.                          *)
LEMMA KeyGood ==
  ASSUME NEW type \in Types, NEW k, Str(k),
         OneCall(type, Len(k)), Countable(type, Len(k))
  PROVE  KeyOf(type, k) = StandardKey(type, k)
<1>1. Geometry(type).block = BlockOf(type)
  BY Geometries
<1>2. DigestOf(type, k) = StandardDigest(type, k)
  BY DigestOfGood
<1> QED
  BY <1>1, <1>2, Zenon DEF KeyOf, StandardKey

LEMMA PadStr ==
  ASSUME NEW type \in Types, NEW name, NEW k
  PROVE  /\ Str(Pad(name, BlockOf(type), k))
         /\ Len(Pad(name, BlockOf(type), k)) = BlockOf(type)
<1> DEFINE b == BlockOf(type)
           p == Pad(name, b, k)
<1>1. b \in Nat
  BY Geometries
<1>2. p = [i \in 1 .. b |-> p[i]]
  BY DEF Pad
<1> HIDE DEF b, p
<1>3. Str(p) /\ Len(p) = b
  BY <1>1, <1>2, IsStr
<1> QED
  BY <1>3 DEF b, p

(* A context that was started has taken in as many bytes as it is given.   *)
LEMMA FirstUpdate ==
  ASSUME NEW type \in Types, NEW c, Form(type, c), NEW input, Str(input),
         OneCall(type, Len(input)), Countable(type, Len(input))
  PROVE  /\ Good(type, UpdateOf(type, StartsOf(type, c), input), input)
         /\ KeepsPads(c, UpdateOf(type, StartsOf(type, c), input))
<1> DEFINE a == StartsOf(type, c)
           b == UpdateOf(type, a, input)
           e == <<>>
<1>1. Good(type, a, e) /\ KeepsPads(c, a)
  BY StartsGood
<1>2. Str(e) /\ Len(e) = 0 /\ e \o input = input /\ Len(e) + Len(input) = Len(input)
  BY EmptyStr DEF Str
<1> HIDE DEF a, e
<1>3. Good(type, b, e \o input) /\ KeepsPads(a, b)
  BY <1>1, <1>2, UpdateGood
<1> HIDE DEF b
<1>4. Good(type, b, input) /\ KeepsPads(c, b)
  BY <1>1, <1>2, <1>3 DEF KeepsPads
<1> QED
  BY <1>4 DEF a, b

LEMMA HmacStartsGood ==
  ASSUME NEW type \in Types, NEW c, Form(type, c), NEW k, Str(k),
         OneCall(type, Len(k)), Countable(type, Len(k))
  PROVE  LET new == HmacStartsOf(type, c, k)
             kk == StandardKey(type, k)
         IN  /\ Good(type, new, Pad("ipad", BlockOf(type), kk))
             /\ new.ipad = Pad("ipad", BlockOf(type), kk)
             /\ new.opad = Pad("opad", BlockOf(type), kk)
<1> DEFINE b == BlockOf(type)
           kk == StandardKey(type, k)
           p == Pad("ipad", b, kk)
           with == Keyed(c, b, kk)
           new == UpdateOf(type, StartsOf(type, with), p)
<1>1. HmacStartsOf(type, c, k) = new
  BY KeyGood, Zenon DEF HmacStartsOf
<1>2. with.ipad = p /\ with.opad = Pad("opad", b, kk) /\ Form(type, with)
  BY DEF Keyed, Form, Fields
<1>3. Str(p) /\ Len(p) = b /\ b \in Nat
  BY PadStr, Geometries
<1> HIDE DEF with, p
<1>4. OneCall(type, b) /\ Countable(type, b)
  <2>1. OneCall(type, b)
    BY <1>3, FitLengths
  <2>2. Countable(type, b + b) /\ b <= b + b
    BY <1>3, FitLengths
  <2> QED
    BY <1>3, <2>1, <2>2, ShorterCountable
<1> HIDE DEF b, kk
<1>5. Good(type, new, p) /\ KeepsPads(with, new)
  BY <1>2, <1>3, <1>4, FirstUpdate
<1> HIDE DEF new
<1> QED
  BY <1>1, <1>2, <1>5 DEF KeepsPads, p, b, kk

LEMMA HmacResetGood ==
  ASSUME NEW type \in Types, NEW c, Form(type, c),
         Str(c.ipad), Len(c.ipad) = BlockOf(type)
  PROVE  Good(type, HmacResetOf(type, c), c.ipad) /\ KeepsPads(c, HmacResetOf(type, c))
<1> DEFINE b == BlockOf(type)
           p == c.ipad
<1>1. b \in Nat /\ OneCall(type, b)
  BY Geometries, FitLengths
<1>2. Countable(type, b + b) /\ b <= b + b
  BY <1>1, FitLengths
<1>3. Countable(type, b)
  BY <1>1, <1>2, ShorterCountable
<1>4. Str(p) /\ Len(p) = b
  OBVIOUS
<1> HIDE DEF b, p
<1>5. Good(type, UpdateOf(type, StartsOf(type, c), p), p)
      /\ KeepsPads(c, UpdateOf(type, StartsOf(type, c), p))
  BY <1>1, <1>3, <1>4, FirstUpdate
<1> QED
  BY <1>5, Zenon DEF HmacResetOf, p

LEMMA HmacFinishGood ==
  ASSUME NEW type \in Types, NEW c, NEW m, Good(type, c, m), Countable(type, Len(m)),
         Str(c.opad), Len(c.opad) = BlockOf(type)
  PROVE  LET end == HmacFinishOf(type, c) IN
         /\ end.output = StandardDigest(type, c.opad \o StandardDigest(type, m))
         /\ Form(type, end.ctx) /\ Named(type, end.ctx) /\ KeepsPads(c, end.ctx)
<1> DEFINE b == BlockOf(type)
           p == c.opad
           inner == FinishOf(type, c)
           d == StandardDigest(type, m)
           x == UpdateOf(type, StartsOf(type, inner.ctx), p)
           y == UpdateOf(type, x, d)
           end == FinishOf(type, y)
           pd == p \o d
<1>1. inner.output = d /\ Form(type, inner.ctx) /\ KeepsPads(c, inner.ctx)
  BY FinishGood
<1>2. HmacFinishOf(type, c) = end
  BY <1>1, Zenon DEF HmacFinishOf
<1>3. Str(p) /\ Len(p) = b
  OBVIOUS
<1>4. Str(d) /\ Len(d) \in 1 .. b
  BY StandardStr
<1>5. /\ b \in Nat /\ OneCall(type, b) /\ Countable(type, b + b)
      /\ \A n \in 0 .. b : OneCall(type, n)
  BY Geometries, FitLengths
<1> HIDE DEF b, p, inner, d
<1>6. Countable(type, b) /\ Countable(type, Len(p) + Len(d)) /\ OneCall(type, Len(d))
  <2>1. b <= b + b /\ Len(p) + Len(d) \in Nat /\ Len(p) + Len(d) <= b + b /\ Len(d) \in 0 .. b
    BY <1>3, <1>4, <1>5
  <2> QED
    BY <1>5, <2>1, ShorterCountable
<1>7. Good(type, x, p) /\ KeepsPads(inner.ctx, x)
  BY <1>1, <1>3, <1>5, <1>6, FirstUpdate
<1> HIDE DEF x
<1>8. Good(type, y, p \o d) /\ KeepsPads(x, y)
  BY <1>4, <1>6, <1>7, UpdateGood
<1>9. Len(pd) = Len(p) + Len(d)
  BY <1>3, <1>4, JoinStr
<1> HIDE DEF y, pd
<1>10. /\ end.output = StandardDigest(type, pd)
       /\ Form(type, end.ctx) /\ Named(type, end.ctx) /\ KeepsPads(y, end.ctx)
  <2>1. Good(type, y, pd) /\ Countable(type, Len(pd))
    BY <1>6, <1>8, <1>9 DEF pd
  <2> QED
    BY <2>1, FinishGood
<1> HIDE DEF end
<1>11. KeepsPads(c, end.ctx)
  BY <1>1, <1>7, <1>8, <1>10 DEF KeepsPads
<1> QED
  BY <1>2, <1>10, <1>11 DEF pd, p, d

-----------------------------------------------------------------------------
(* What holds of a context that is alive, between the calls: it has the     *)
(* form of its algorithm, has taken in the message, and keeps the pads of   *)
(* its key.  The invariant of the properties.                               *)

FedBy(type, m, k, msg) ==
  IF m = "hmac" THEN Pad("ipad", BlockOf(type), StandardKey(type, k)) \o msg ELSE msg

PadsFor(type, c, k) ==
  /\ c.ipad = Pad("ipad", BlockOf(type), StandardKey(type, k))
  /\ c.opad = Pad("opad", BlockOf(type), StandardKey(type, k))

Ready(type, c, m, msg, k, kd) ==
  /\ type \in Types /\ Form(type, c) /\ Named(type, c)
  /\ Str(msg) /\ Len(msg) <= MessageBound[type]
  /\ Str(k) /\ Len(k) \in KeyLengths \cup {0}
  /\ m # "none" => Good(type, c, FedBy(type, m, k, msg))
  /\ kd => PadsFor(type, c, k)
  /\ m = "hmac" => kd

MdInv ==
  /\ info \in Types \cup {NoInfo}
  /\ alive \in BOOLEAN
  /\ ret \in {"ok", "bad_input_data", "alloc_failed"}
  /\ mode \in {"none", "plain", "hmac"}
  /\ alive => Ready(info, mdctx, mode, message, key, keyed)
  /\ DigestIsStandard
  /\ HmacIsStandard

LEMMA FedLength ==
  ASSUME NEW type \in Types, NEW m, NEW k, NEW msg, Str(msg), Len(msg) <= MessageBound[type]
  PROVE  /\ Str(FedBy(type, m, k, msg)) /\ Len(FedBy(type, m, k, msg)) \in Nat
         /\ Len(FedBy(type, m, k, msg)) <= Len(msg) + BlockOf(type)
         /\ Countable(type, Len(FedBy(type, m, k, msg)))
<1> DEFINE b == BlockOf(type)
           p == Pad("ipad", b, StandardKey(type, k))
           f == FedBy(type, m, k, msg)
<1>1. Str(p) /\ Len(p) = b /\ b \in Nat
  BY PadStr, Geometries
<1>2. f = IF m = "hmac" THEN p \o msg ELSE msg
  BY DEF FedBy
<1> HIDE DEF b, p, f
<1>3. Str(p \o msg) /\ Len(p \o msg) = b + Len(msg) /\ Len(msg) \in Nat
  BY <1>1, JoinStr
<1>4. Str(f) /\ Len(f) \in Nat /\ Len(f) <= Len(msg) + b
  BY <1>1, <1>2, <1>3
<1>5. Countable(type, Len(f))
  <2>1. MessageBound[type] \in Nat /\ Countable(type, MessageBound[type] + b)
    BY FitLengths DEF b
  <2>2. Len(f) <= MessageBound[type] + b
    BY <1>1, <1>3, <1>4, <2>1
  <2> QED
    BY <1>4, <2>1, <2>2, ShorterCountable
<1> QED
  BY <1>4, <1>5 DEF f, b

LEMMA FedJoins ==
  ASSUME NEW type \in Types, NEW m, NEW k, NEW msg, Str(msg), NEW input, Str(input)
  PROVE  FedBy(type, m, k, msg \o input) = FedBy(type, m, k, msg) \o input
<1> DEFINE p == Pad("ipad", BlockOf(type), StandardKey(type, k))
<1>1. Str(p) /\ Str(msg) /\ Str(input)
  BY PadStr
<1> HIDE DEF p
<1>2. p \o (msg \o input) = (p \o msg) \o input
  <2>1. Joined(p, msg, input)
    BY <1>1, JoinAssociates, Zenon
  <2> QED
    BY <2>1, Zenon DEF Joined
<1> QED
  BY <1>2 DEF FedBy, p

LEMMA KeyFits ==
  ASSUME NEW type \in Types, NEW n \in KeyLengths \cup {0}
  PROVE  OneCall(type, n) /\ Countable(type, n)
<1>1. CASE n \in KeyLengths
  BY <1>1, FitLengths
<1>2. CASE n = 0
  <2> DEFINE b == BlockOf(type)
  <2>1. b \in Nat /\ Countable(type, b + b) /\ \A i \in 0 .. b : OneCall(type, i)
    BY Geometries, FitLengths
  <2> HIDE DEF b
  <2>2. 0 \in 0 .. b /\ 0 <= b + b
    BY <2>1
  <2> QED
    BY <1>2, <2>1, <2>2, ShorterCountable
<1> QED
  BY <1>1, <1>2

(* Each of the calls keeps it. *)
LEMMA ReadyAllocated ==
  ASSUME NEW type \in Types
  PROVE  Ready(type, StartsOf(type, Allocated(type)), "plain", <<>>, <<>>, FALSE)
<1> DEFINE c == Garbage(BlockOf(type))
           new == StartsOf(type, c)
           e == <<>>
<1>1. Allocated(type) = c
  BY EveryComposed DEF Composed
<1>2. Form(type, c)
  BY GarbageForm
<1> HIDE DEF c
<1>3. Good(type, new, e)
  BY <1>2, StartsGood
<1>4. Str(e) /\ Len(e) = 0 /\ MessageBound[type] \in Nat
  BY EmptyStr, FitLengths
<1> HIDE DEF new, e
<1>5. FedBy(type, "plain", e, e) = e
  BY DEF FedBy
<1>6. Ready(type, new, "plain", e, e, FALSE)
  BY <1>3, <1>4, <1>5 DEF Ready, Good
<1> QED
  BY <1>1, <1>6 DEF new, e

LEMMA ReadyStarts ==
  ASSUME NEW type, NEW c, NEW m, NEW msg, NEW k, NEW kd, Ready(type, c, m, msg, k, kd)
  PROVE  Ready(type, StartsOf(type, c), "plain", <<>>, k, kd)
<1> DEFINE new == StartsOf(type, c)
           e == <<>>
<1>1. type \in Types /\ Form(type, c)
  BY DEF Ready
<1>2. Good(type, new, e) /\ KeepsPads(c, new)
  BY <1>1, StartsGood
<1>3. Str(e) /\ Len(e) = 0 /\ MessageBound[type] \in Nat
  BY <1>1, EmptyStr, FitLengths
<1> HIDE DEF new, e
<1>4. FedBy(type, "plain", k, e) = e
  BY DEF FedBy
<1>5. Ready(type, new, "plain", e, k, kd)
  BY <1>2, <1>3, <1>4 DEF Ready, Good, KeepsPads, PadsFor
<1> QED
  BY <1>5 DEF new, e

LEMMA ReadyUpdate ==
  ASSUME NEW type, NEW c, NEW m, NEW msg, NEW k, NEW kd, Ready(type, c, m, msg, k, kd),
         m # "none", NEW input, Str(input), Len(input) \in PieceLengths,
         Len(msg) + Len(input) <= MessageBound[type]
  PROVE  Ready(type, UpdateOf(type, c, input), m, msg \o input, k, kd)
<1> DEFINE new == UpdateOf(type, c, input)
           f == FedBy(type, m, k, msg)
           mi == msg \o input
<1>1. /\ type \in Types /\ Str(msg) /\ Len(msg) <= MessageBound[type] /\ Good(type, c, f)
  BY DEF Ready
<1>2. Str(mi) /\ Len(mi) = Len(msg) + Len(input)
  BY <1>1, JoinStr
<1>3. FedBy(type, m, k, mi) = f \o input
  BY <1>1, FedJoins
<1>4. Countable(type, Len(f) + Len(input))
  <2>1. Len(mi) <= MessageBound[type]
    BY <1>2
  <2> HIDE DEF mi, f
  <2>2. Countable(type, Len(FedBy(type, m, k, mi)))
    BY <1>1, <1>2, <2>1, FedLength
  <2>3. Str(f)
    BY <1>1, FedLength DEF f
  <2>4. Len(f \o input) = Len(f) + Len(input)
    BY <2>3, JoinStr
  <2> QED
    BY <1>3, <2>2, <2>4
<1>5. OneCall(type, Len(input))
  BY <1>1, FitLengths
<1> HIDE DEF f, mi
<1>6. Good(type, new, f \o input) /\ KeepsPads(c, new)
  BY <1>1, <1>4, <1>5, UpdateGood
<1> HIDE DEF new
<1>7. Ready(type, new, m, mi, k, kd)
  BY <1>1, <1>2, <1>3, <1>6 DEF Ready, Good, KeepsPads, PadsFor
<1> QED
  BY <1>7 DEF new, mi

LEMMA ReadyFinish ==
  ASSUME NEW type, NEW c, NEW msg, NEW k, NEW kd, Ready(type, c, "plain", msg, k, kd)
  PROVE  /\ Ready(type, FinishOf(type, c).ctx, "none", <<>>, k, kd)
         /\ FinishOf(type, c).output = StandardDigest(type, msg)
<1> DEFINE end == FinishOf(type, c)
           e == <<>>
<1>1. /\ type \in Types /\ Str(msg) /\ Len(msg) <= MessageBound[type]
      /\ FedBy(type, "plain", k, msg) = msg /\ Good(type, c, msg)
  BY DEF Ready, FedBy
<1>2. Countable(type, Len(msg))
  BY <1>1, FedLength
<1>3. /\ end.output = StandardDigest(type, msg)
      /\ Form(type, end.ctx) /\ Named(type, end.ctx) /\ KeepsPads(c, end.ctx)
  BY <1>1, <1>2, FinishGood
<1>4. Str(e) /\ Len(e) = 0 /\ MessageBound[type] \in Nat
  BY <1>1, EmptyStr, FitLengths
<1> HIDE DEF end, e
<1>5. Ready(type, end.ctx, "none", e, k, kd)
  BY <1>3, <1>4 DEF Ready, KeepsPads, PadsFor
<1> QED
  BY <1>3, <1>5 DEF end, e

LEMMA ReadyHmacStarts ==
  ASSUME NEW type, NEW c, NEW m, NEW msg, NEW k, NEW kd, Ready(type, c, m, msg, k, kd),
         NEW new, Str(new), Len(new) \in KeyLengths
  PROVE  Ready(type, HmacStartsOf(type, c, new), "hmac", <<>>, new, TRUE)
<1> DEFINE d == HmacStartsOf(type, c, new)
           kk == StandardKey(type, new)
           p == Pad("ipad", BlockOf(type), kk)
           e == <<>>
<1>1. type \in Types /\ Form(type, c)
  BY DEF Ready
<1>2. OneCall(type, Len(new)) /\ Countable(type, Len(new))
  BY <1>1, FitLengths
<1>3. Good(type, d, p) /\ d.ipad = p /\ d.opad = Pad("opad", BlockOf(type), kk)
  BY <1>1, <1>2, HmacStartsGood
<1>4. Str(e) /\ Len(e) = 0 /\ MessageBound[type] \in Nat
  BY <1>1, EmptyStr, FitLengths
<1>5. FedBy(type, "hmac", new, e) = p
  <2>1. Str(p)
    BY <1>1, PadStr
  <2> HIDE DEF p
  <2>2. p \o e = p
    BY <2>1, EmptyStr
  <2> QED
    BY <2>2 DEF FedBy, p
<1>6. PadsFor(type, d, new)
  BY <1>3 DEF PadsFor
<1> HIDE DEF d, p, e, kk
<1>7. Ready(type, d, "hmac", e, new, TRUE)
  BY <1>1, <1>3, <1>4, <1>5, <1>6 DEF Ready, Good
<1> QED
  BY <1>7 DEF d, e

LEMMA ReadyHmacReset ==
  ASSUME NEW type, NEW c, NEW m, NEW msg, NEW k, NEW kd, Ready(type, c, m, msg, k, kd), kd
  PROVE  Ready(type, HmacResetOf(type, c), "hmac", <<>>, k, kd)
<1> DEFINE d == HmacResetOf(type, c)
           p == Pad("ipad", BlockOf(type), StandardKey(type, k))
           e == <<>>
<1>1. type \in Types /\ Form(type, c) /\ c.ipad = p /\ PadsFor(type, c, k)
  BY DEF Ready, PadsFor
<1>2. Str(p) /\ Len(p) = BlockOf(type)
  BY <1>1, PadStr
<1> HIDE DEF p
<1>3. Good(type, d, p) /\ KeepsPads(c, d)
  BY <1>1, <1>2, HmacResetGood
<1>4. Str(e) /\ Len(e) = 0 /\ MessageBound[type] \in Nat
  BY <1>1, EmptyStr, FitLengths
<1>5. FedBy(type, "hmac", k, e) = p
  <2>1. p \o e = p
    BY <1>2, EmptyStr
  <2> QED
    BY <2>1 DEF FedBy, p
<1> HIDE DEF d, e
<1>6. Ready(type, d, "hmac", e, k, kd)
  BY <1>1, <1>3, <1>4, <1>5 DEF Ready, Good, KeepsPads, PadsFor
<1> QED
  BY <1>6 DEF d, e

LEMMA ReadyHmacFinish ==
  ASSUME NEW type, NEW c, NEW msg, NEW k, NEW kd, Ready(type, c, "hmac", msg, k, kd)
  PROVE  /\ Ready(type, HmacFinishOf(type, c).ctx, "none", <<>>, k, kd)
         /\ HmacFinishOf(type, c).output = StandardHmac(type, k, msg)
<1> DEFINE end == HmacFinishOf(type, c)
           b == BlockOf(type)
           kk == StandardKey(type, k)
           f == FedBy(type, "hmac", k, msg)
           o == Pad("opad", b, kk)
           e == <<>>
<1>1. /\ type \in Types /\ Str(msg) /\ Len(msg) <= MessageBound[type] /\ Good(type, c, f)
      /\ kd /\ c.opad = o
  BY DEF Ready, PadsFor
<1>2. Countable(type, Len(f))
  BY <1>1, FedLength
<1>3. Str(o) /\ Len(o) = b
  BY <1>1, PadStr
<1>4. f = Pad("ipad", b, kk) \o msg
  BY DEF FedBy
<1>5. Str(e) /\ Len(e) = 0 /\ MessageBound[type] \in Nat
  BY <1>1, EmptyStr, FitLengths
<1> HIDE DEF f, o, e, kk, end
<1>6. /\ end.output = StandardDigest(type, o \o StandardDigest(type, f))
      /\ Form(type, end.ctx) /\ Named(type, end.ctx) /\ KeepsPads(c, end.ctx)
  BY <1>1, <1>2, <1>3, HmacFinishGood DEF end
<1>7. StandardHmac(type, k, msg) = StandardDigest(type, o \o StandardDigest(type, f))
  <2>1. Geometry(type).block = b
    BY <1>1, Geometries
  <2> QED
    BY <1>4, <2>1, Zenon DEF StandardHmac, o, kk
<1>8. Ready(type, end.ctx, "none", e, k, kd)
  BY <1>1, <1>5, <1>6 DEF Ready, KeepsPads, PadsFor
<1> QED
  BY <1>6, <1>7, <1>8 DEF end, e

-----------------------------------------------------------------------------
(* Each operation keeps the invariant.                                     *)

NoneMade == result.of = "none"

LEMMA BytesStr ==
  ASSUME NEW n \in Nat
  PROVE  Str(Bytes(n)) /\ Len(Bytes(n)) = n
<1> DEFINE b == Bytes(n)
<1>1. b = [i \in 1 .. n |-> b[i]]
  BY DEF Bytes
<1> HIDE DEF b
<1>2. Str(b) /\ Len(b) = n
  BY <1>1, IsStr
<1> QED
  BY <1>2 DEF b

LEMMA KeyStr ==
  ASSUME NEW n \in Nat
  PROVE  LET k == [i \in 1 .. n |-> <<"key", i>>] IN Str(k) /\ Len(k) = n
<1> DEFINE k == [i \in 1 .. n |-> <<"key", i>>]
<1>1. k = [i \in 1 .. n |-> k[i]]
  OBVIOUS
<1> HIDE DEF k
<1>2. Str(k) /\ Len(k) = n
  BY <1>1, IsStr
<1> QED
  BY <1>2 DEF k

LEMMA NoneMadeIsRight ==
  NoneMade => DigestIsStandard /\ HmacIsStandard
BY DEF NoneMade, DigestIsStandard, HmacIsStandard

LEMMA InitMdInv ==
  ASSUME Init
  PROVE  MdInv
<1>1. NoneMade
  BY DEF Init, NoneMade, NoResult
<1>2. DigestIsStandard /\ HmacIsStandard
  BY <1>1, NoneMadeIsRight
<1> QED
  BY <1>2 DEF Init, MdInv

LEMMA NamesGiveTypes ==
  ASSUME NEW name \in Names
  PROVE  MdInfoFromString(name) \in Types \cup {NoInfo}
<1>1. CASE name \in Types
  <2>1. name # "SHA"
    BY <1>1 DEF Types
  <2>2. MdInfoFromString(name) = name
    BY <1>1, <2>1, Zenon DEF MdInfoFromString
  <2> QED
    BY <1>1, <2>2
<1>2. CASE name \notin Types /\ name = "SHA"
  <2>1. MdInfoFromString(name) = "SHA1"
    BY <1>2, Zenon DEF MdInfoFromString
  <2> QED
    BY <2>1 DEF Types
<1>3. CASE name \notin Types /\ name # "SHA"
  BY <1>3, Zenon DEF MdInfoFromString
<1> QED
  BY <1>1, <1>2, <1>3

LEMMA InitCtxKeeps ==
  ASSUME MdInv, NEW type \in Types \cup {NoInfo}, MdInitCtx(type)
  PROVE  MdInv'
<1>1. type \in Types
  BY DEF MdInitCtx
<1>2. NoneMade'
  BY DEF MdInitCtx, NoneMade, NoResult
<1>3. DigestIsStandard' /\ HmacIsStandard'
  BY <1>2 DEF NoneMade, DigestIsStandard, HmacIsStandard
<1>4. CASE /\ info' = type
           /\ alive' = TRUE
           /\ mdctx' = MdInfoFromType(type, "starts", Allocated(type), <<>>).ctx
           /\ ret' = "ok"
           /\ mode' = "plain"
  <2>1. Ready(type, StartsOf(type, Allocated(type)), "plain", <<>>, <<>>, FALSE)
    BY <1>1, ReadyAllocated
  <2>2. mdctx' = StartsOf(type, Allocated(type))
    BY <1>4 DEF StartsOf
  <2>3. message' = <<>> /\ key' = <<>> /\ keyed' = FALSE
    BY DEF MdInitCtx
  <2>4. Ready(info', mdctx', mode', message', key', keyed')
    BY <1>4, <2>1, <2>2, <2>3
  <2> QED
    BY <1>1, <1>3, <1>4, <2>4 DEF MdInv
<1>5. CASE /\ info' = NoInfo
           /\ ret' = "alloc_failed"
           /\ mode' = "none"
           /\ UNCHANGED <<alive, mdctx>>
  <2>1. alive' = FALSE
    BY <1>5 DEF MdInitCtx, MdInv
  <2> QED
    BY <1>3, <1>5, <2>1 DEF MdInv
<1> QED
  BY <1>4, <1>5, Zenon DEF MdInitCtx

LEMMA RefusedKeeps ==
  ASSUME MdInv, NEW type, Refused(type)
  PROVE  MdInv'
BY DEF MdInv, Refused, context, history, counts, DigestIsStandard, HmacIsStandard

LEMMA FreeCtxKeeps ==
  ASSUME MdInv, MdFreeCtx
  PROVE  MdInv'
<1>1. DigestIsStandard' /\ HmacIsStandard'
  BY DEF MdFreeCtx, NoResult, DigestIsStandard, HmacIsStandard
<1> QED
  BY <1>1 DEF MdInv, MdFreeCtx

(* What the calls on a context that is alive have in common. *)
LEMMA ChangesKeeps ==
  ASSUME MdInv, NEW op, NEW arg, Changes(op, arg),
         mode' \in {"none", "plain", "hmac"},
         Ready(info, MdInfoFromType(info, op, mdctx, arg).ctx, mode', message', key', keyed'),
         DigestIsStandard', HmacIsStandard'
  PROVE  MdInv'
<1>1. /\ mdctx' = MdInfoFromType(info, op, mdctx, arg).ctx
      /\ ret' = "ok" /\ info' = info /\ alive' = alive
  BY DEF Changes, Called
<1>2. Ready(info', mdctx', mode', message', key', keyed')
  BY <1>1
<1> QED
  BY <1>1, <1>2 DEF MdInv

LEMMA StartsKeeps ==
  ASSUME MdInv, MdStarts
  PROVE  MdInv'
<1>1. Changes("starts", <<>>) /\ alive
  BY DEF MdStarts, Changes
<1>2. DigestIsStandard' /\ HmacIsStandard'
  BY DEF MdStarts, StartsAnew, NoResult, DigestIsStandard, HmacIsStandard
<1>3. Ready(info, StartsOf(info, mdctx), "plain", <<>>, key, keyed)
  BY <1>1, ReadyStarts DEF MdInv
<1>4. Ready(info, MdInfoFromType(info, "starts", mdctx, <<>>).ctx, mode', message', key', keyed')
  BY <1>3 DEF MdStarts, StartsAnew, StartsOf
<1>5. mode' \in {"none", "plain", "hmac"}
  BY DEF MdStarts
<1> QED
  BY <1>1, <1>2, <1>4, <1>5, ChangesKeeps

LEMMA UpdateKeeps ==
  ASSUME MdInv, NEW n \in PieceLengths, MdUpdate(n) \/ MdHmacUpdate(n)
  PROVE  MdInv'
<1> DEFINE b == Bytes(n)
           op == IF mode = "plain" THEN "update" ELSE "hmac_update"
<1>1. /\ alive /\ Feeds(n) /\ Changes(op, b)
      /\ mode = "plain" \/ mode = "hmac"
  BY DEF MdUpdate, MdHmacUpdate
<1>2. DigestIsStandard' /\ HmacIsStandard'
  BY <1>1 DEF Feeds, NoResult, DigestIsStandard, HmacIsStandard
<1>3. Ready(info, mdctx, mode, message, key, keyed) /\ info \in Types
  BY <1>1 DEF MdInv, Ready
<1>4. Str(b) /\ Len(b) = n
  BY BytesStr, PiecesAssumption
<1>5. /\ Len(message) + Len(b) <= MessageBound[info]
      /\ message' = message \o b /\ mode' = mode /\ key' = key /\ keyed' = keyed
  BY <1>1, <1>4 DEF Feeds
<1>6. MdInfoFromType(info, op, mdctx, b).ctx = UpdateOf(info, mdctx, b)
  <2>1. Composed(info, mdctx, key, b)
    BY <1>3, EveryComposed, Zenon
  <2>2. MdInfoFromType(info, "hmac_update", mdctx, b).ctx = UpdateOf(info, mdctx, b)
    BY <2>1, Zenon DEF Composed
  <2>3. MdInfoFromType(info, "update", mdctx, b).ctx = UpdateOf(info, mdctx, b)
    BY Zenon DEF UpdateOf
  <2>4. op = "update" \/ op = "hmac_update"
    BY Zenon DEF op
  <2> QED
    BY <2>2, <2>3, <2>4, Zenon
<1> HIDE DEF b, op
<1>7. Ready(info, UpdateOf(info, mdctx, b), mode, message \o b, key, keyed)
  BY <1>1, <1>3, <1>4, <1>5, ReadyUpdate
<1>8. Ready(info, MdInfoFromType(info, op, mdctx, b).ctx, mode', message', key', keyed')
  BY <1>5, <1>6, <1>7
<1>9. mode' \in {"none", "plain", "hmac"}
  BY <1>1, <1>5
<1> QED
  BY <1>1, <1>2, <1>8, <1>9, ChangesKeeps

LEMMA FinishKeeps ==
  ASSUME MdInv, MdFinish
  PROVE  MdInv'
<1> DEFINE end == FinishOf(info, mdctx)
<1>1. Changes("finish", <<>>) /\ alive /\ mode = "plain"
  BY DEF MdFinish, Changes
<1>2. Ready(info, mdctx, "plain", message, key, keyed)
  BY <1>1 DEF MdInv
<1>3. /\ Ready(info, end.ctx, "none", <<>>, key, keyed)
      /\ end.output = StandardDigest(info, message)
  BY <1>2, ReadyFinish
<1>4. MdInfoFromType(info, "finish", mdctx, <<>>) = end
  BY DEF FinishOf
<1> HIDE DEF end
<1>5. result' = [of |-> "digest", type |-> info, key |-> <<>>, message |-> message,
                 output |-> end.output]
  BY <1>4 DEF MdFinish, Called
<1>6. DigestIsStandard' /\ HmacIsStandard'
  BY <1>3, <1>5 DEF DigestIsStandard, HmacIsStandard
<1>7. mode' = "none" /\ message' = <<>> /\ key' = key /\ keyed' = keyed
  BY DEF MdFinish
<1>8. Ready(info, MdInfoFromType(info, "finish", mdctx, <<>>).ctx, mode', message', key', keyed')
  BY <1>3, <1>4, <1>7
<1>9. mode' \in {"none", "plain", "hmac"}
  BY <1>7
<1> QED
  BY <1>1, <1>6, <1>8, <1>9, ChangesKeeps

LEMMA HmacStartsKeeps ==
  ASSUME MdInv, NEW n \in KeyLengths, MdHmacStarts(n)
  PROVE  MdInv'
<1> DEFINE k == [i \in 1 .. n |-> <<"key", i>>]
<1>1. Changes("hmac_starts", k) /\ alive
  BY DEF MdHmacStarts, Changes
<1>2. Ready(info, mdctx, mode, message, key, keyed) /\ info \in Types /\ DOMAIN mdctx = Fields
  BY <1>1 DEF MdInv, Ready, Form
<1>3. Str(k) /\ Len(k) = n
  BY KeyStr, PiecesAssumption
<1>4. mode' = "hmac" /\ message' = <<>> /\ key' = k /\ keyed' = TRUE /\ result' = NoResult
  BY DEF MdHmacStarts, StartsAnew
<1>5. DigestIsStandard' /\ HmacIsStandard'
  BY <1>4 DEF NoResult, DigestIsStandard, HmacIsStandard
<1> HIDE DEF k
<1>6. MdInfoFromType(info, "hmac_starts", mdctx, k).ctx = HmacStartsOf(info, mdctx, k)
  BY <1>2, EveryComposed, Zenon DEF Composed
<1>7. Ready(info, HmacStartsOf(info, mdctx, k), "hmac", <<>>, k, TRUE)
  BY <1>2, <1>3, ReadyHmacStarts
<1>8. Ready(info, MdInfoFromType(info, "hmac_starts", mdctx, k).ctx, mode', message', key', keyed')
  BY <1>4, <1>6, <1>7
<1>9. mode' \in {"none", "plain", "hmac"}
  BY <1>4
<1> QED
  BY <1>1, <1>5, <1>8, <1>9, ChangesKeeps

LEMMA HmacResetKeeps ==
  ASSUME MdInv, MdHmacReset
  PROVE  MdInv'
<1>1. Changes("hmac_reset", <<>>) /\ alive /\ keyed
  BY DEF MdHmacReset, Changes
<1>2. /\ Ready(info, mdctx, mode, message, key, keyed) /\ info \in Types
      /\ Named(info, mdctx)
  BY <1>1 DEF MdInv, Ready
<1>3. mode' = "hmac" /\ message' = <<>> /\ key' = key /\ keyed' = keyed /\ result' = NoResult
  BY DEF MdHmacReset, StartsAnew
<1>4. DigestIsStandard' /\ HmacIsStandard'
  BY <1>3 DEF NoResult, DigestIsStandard, HmacIsStandard
<1>5. MdInfoFromType(info, "hmac_reset", mdctx, <<>>).ctx = HmacResetOf(info, mdctx)
  BY <1>2, EveryComposed, Zenon DEF Composed
<1>6. Ready(info, HmacResetOf(info, mdctx), "hmac", <<>>, key, keyed)
  BY <1>1, <1>2, ReadyHmacReset
<1>7. Ready(info, MdInfoFromType(info, "hmac_reset", mdctx, <<>>).ctx, mode', message', key', keyed')
  BY <1>3, <1>5, <1>6
<1>8. mode' \in {"none", "plain", "hmac"}
  BY <1>3
<1> QED
  BY <1>1, <1>4, <1>7, <1>8, ChangesKeeps

LEMMA HmacFinishKeeps ==
  ASSUME MdInv, MdHmacFinish
  PROVE  MdInv'
<1> DEFINE end == HmacFinishOf(info, mdctx)
<1>1. Changes("hmac_finish", <<>>) /\ alive /\ mode = "hmac"
  BY DEF MdHmacFinish, Changes
<1>2. /\ Ready(info, mdctx, "hmac", message, key, keyed) /\ info \in Types
      /\ Named(info, mdctx)
  BY <1>1 DEF MdInv, Ready
<1>3. /\ Ready(info, end.ctx, "none", <<>>, key, keyed)
      /\ end.output = StandardHmac(info, key, message)
  BY <1>2, ReadyHmacFinish
<1>4. MdInfoFromType(info, "hmac_finish", mdctx, <<>>) = end
  BY <1>2, EveryComposed, Zenon DEF Composed
<1> HIDE DEF end
<1>5. result' = [of |-> "hmac", type |-> info, key |-> key, message |-> message,
                 output |-> end.output]
  BY <1>4 DEF MdHmacFinish, Called
<1>6. DigestIsStandard' /\ HmacIsStandard'
  BY <1>3, <1>5 DEF DigestIsStandard, HmacIsStandard
<1>7. mode' = "none" /\ message' = <<>> /\ key' = key /\ keyed' = keyed
  BY DEF MdHmacFinish
<1>8. Ready(info, MdInfoFromType(info, "hmac_finish", mdctx, <<>>).ctx, mode', message', key', keyed')
  BY <1>3, <1>4, <1>7
<1>9. mode' \in {"none", "plain", "hmac"}
  BY <1>7
<1> QED
  BY <1>1, <1>6, <1>8, <1>9, ChangesKeeps

(* Between two calls, a context that is alive has the form of its algorithm *)
(* and keeps its pads; one that is in use has taken in what it was fed; and *)
(* the last digest is the standard's.                                       *)
THEOREM Invariant == Spec => []MdInv
<1>1. Init => MdInv
  BY InitMdInv
<1>2. MdInv /\ [Next]_vars => MdInv'
  <2> SUFFICES ASSUME MdInv, [Next]_vars
               PROVE  MdInv'
    OBVIOUS
  <2>1. ASSUME NEW name \in Names,
               MdInitCtx(MdInfoFromString(name)) \/ Refused(MdInfoFromString(name))
        PROVE  MdInv'
    BY <2>1, NamesGiveTypes, InitCtxKeeps, RefusedKeeps
  <2>2. CASE Refused(info)
    BY <2>2, RefusedKeeps
  <2>3. CASE MdFreeCtx
    BY <2>3, FreeCtxKeeps
  <2>4. CASE MdStarts
    BY <2>4, StartsKeeps
  <2>5. CASE MdFinish
    BY <2>5, FinishKeeps
  <2>6. CASE MdHmacFinish
    BY <2>6, HmacFinishKeeps
  <2>7. CASE MdHmacReset
    BY <2>7, HmacResetKeeps
  <2>8. ASSUME NEW n \in PieceLengths, MdUpdate(n) \/ MdHmacUpdate(n)
        PROVE  MdInv'
    BY <2>8, UpdateKeeps
  <2>9. ASSUME NEW n \in KeyLengths, MdHmacStarts(n)
        PROVE  MdInv'
    BY <2>9, HmacStartsKeeps
  <2>10. CASE UNCHANGED vars
    BY <2>10 DEF vars, context, history, counts, MdInv, DigestIsStandard, HmacIsStandard
  <2> QED
    BY <2>1, <2>2, <2>3, <2>4, <2>5, <2>6, <2>7, <2>8, <2>9, <2>10 DEF Next
<1> QED
  BY <1>1, <1>2, PTL DEF Spec

(* A context keeps the form of its algorithm under every sequence of the    *)
(* calls of md.h: its buffer is a block that is never full between calls,   *)
(* and whole blocks only have gone into its state.                          *)
THEOREM TypeCorrect == Spec => []TypeOK
<1>1. MdInv => TypeOK
  <2> SUFFICES ASSUME MdInv PROVE TypeOK
    OBVIOUS
  <2>1. ASSUME alive
        PROVE  /\ info \in Types
               /\ DOMAIN mdctx = Contexts(info)
               /\ Len(mdctx.buffer) = BlockOf(info)
               /\ mdctx.left \in 0 .. BlockOf(info) - 1
               /\ \A i \in DOMAIN mdctx.state \ {1} : Len(mdctx.state[i]) = BlockOf(info)
    <3>1. info \in Types /\ Form(info, mdctx)
      BY <2>1 DEF MdInv, Ready
    <3>2. Contexts(info) = Fields
      BY DEF Contexts, Garbage, Fields
    <3> QED
      BY <3>1, <3>2 DEF Form, Chain
  <2> QED
    BY <2>1 DEF MdInv, TypeOK
<1> QED
  BY <1>1, Invariant, PTL

(* However a message is cut into calls of md_update, the context has taken  *)
(* in each of its bytes once and in order, and counts them over both words, *)
(* with the carry from one word into the other.                             *)
THEOREM HoldsMessage == Spec => []ContextHoldsMessage
<1>1. MdInv => ContextHoldsMessage
  <2> SUFFICES ASSUME MdInv, alive, mode # "none"
               PROVE  LET n == Len(Fed)
                          rest == n % BlockOf(info)
                      IN /\ mdctx.state = <<info>> \o Blocks(BlockOf(info), Fed)
                         /\ SubSeq(mdctx.buffer, 1, rest) = SubSeq(Fed, n - rest + 1, n)
                         /\ IF info = "MD2" THEN mdctx.left = rest
                            ELSE mdctx.total[2] * Geometry(info).word + mdctx.total[1] = n
    BY DEF ContextHoldsMessage
  <2> DEFINE f == Fed
             n == Len(f)
             rest == Remainder(BlockOf(info), n)
  <2>1. info \in Types /\ Good(info, mdctx, FedBy(info, mode, key, message))
    BY DEF MdInv, Ready
  <2>2. f = FedBy(info, mode, key, message)
    BY DEF Fed, FedBy
  <2>3. rest = n % BlockOf(info)
    BY DEF Remainder
  <2>4. IF info = "MD2" THEN Md2Holds(mdctx, f) ELSE Holds(Geometry(info), <<info>>, mdctx, f)
    BY <2>1, <2>2 DEF Good
  <2> HIDE DEF f
  <2>5. /\ mdctx.state = <<info>> \o Blocks(BlockOf(info), f)
        /\ SubSeq(mdctx.buffer, 1, rest) = SubSeq(f, n - rest + 1, n)
    BY <2>1, <2>4, GoodChain
  <2>6. IF info = "MD2" THEN mdctx.left = rest
        ELSE mdctx.total[2] * Geometry(info).word + mdctx.total[1] = n
    <3>1. CASE info = "MD2"
      <4>1. BlockOf(info) = Tiny.block
        BY <2>1, <3>1, Geometries
      <4> QED
        BY <2>4, <3>1, <4>1 DEF Md2Holds
    <3>2. CASE info # "MD2"
      BY <2>4, <3>2 DEF Holds, Counts
    <3> QED
      BY <3>1, <3>2
  <2> HIDE DEF rest
  <2> QED
    BY <2>3, <2>5, <2>6 DEF f
<1> QED
  BY <1>1, Invariant, PTL

(* md_finish gives the digest that the standard defines for the message,    *)
(* whatever the context was used for before.                                *)
THEOREM StandardDigests == Spec => []DigestIsStandard
<1>1. MdInv => DigestIsStandard
  BY DEF MdInv
<1> QED
  BY <1>1, Invariant, PTL

(* md_hmac_finish gives the standard's keyed digest, for keys of any length *)
(* and for each message under the same key after md_hmac_reset.             *)
THEOREM StandardHmacs == Spec => []HmacIsStandard
<1>1. MdInv => HmacIsStandard
  BY DEF MdInv
<1> QED
  BY <1>1, Invariant, PTL

(* The one-shot functions of the tables agree with the standard, and so     *)
(* with the streaming functions.                                            *)
THEOREM OneShots == Spec => []OneShotAgrees
<1>1. MdInv => OneShotAgrees
  <2> SUFFICES ASSUME MdInv, alive, Len(message) \in PieceLengths
               PROVE  /\ mode = "plain" =>
                           Hash(info, message) = StandardDigest(info, message)
                      /\ mode = "hmac" =>
                           MdHmac(info, key, message) = StandardHmac(info, key, message)
    BY DEF OneShotAgrees
  <2>1. Ready(info, mdctx, mode, message, key, keyed) /\ info \in Types
    BY DEF MdInv, Ready
  <2>2. /\ Str(message) /\ OneCall(info, Len(message)) /\ Countable(info, Len(message))
        /\ Len(message) <= MessageBound[info]
    BY <2>1, FitLengths DEF Ready
  <2>3. Hash(info, message) = StandardDigest(info, message)
    <3>1. Md(info, message) = DigestOf(info, message)
      BY <2>1, EveryComposed DEF Composed
    <3> QED
      BY <2>1, <2>2, <3>1, DigestOfGood DEF Hash
  <2>4. MdHmac(info, key, message) = StandardHmac(info, key, message)
    <3> DEFINE g == Garbage(BlockOf(info))
               a == HmacStartsOf(info, g, key)
               b == UpdateOf(info, a, message)
               f == FedBy(info, "hmac", key, message)
               p == Pad("ipad", BlockOf(info), StandardKey(info, key))
               o == Pad("opad", BlockOf(info), StandardKey(info, key))
    <3>1. Str(key) /\ OneCall(info, Len(key)) /\ Countable(info, Len(key))
      BY <2>1, KeyFits DEF Ready
    <3>2. Form(info, g)
      BY <2>1, GarbageForm
    <3>3. DOMAIN g = Fields
      BY <3>2 DEF Form
    <3> HIDE DEF g
    <3>4. Good(info, a, p) /\ a.ipad = p /\ a.opad = o
      BY <2>1, <3>1, <3>2, HmacStartsGood
    <3> HIDE DEF a
    <3>5. f = p \o message /\ Countable(info, Len(f))
      BY <2>1, <2>2, FedLength DEF FedBy
    <3>6. Str(p) /\ Str(o) /\ Len(o) = BlockOf(info)
      BY <2>1, PadStr
    <3> HIDE DEF p, o, f
    <3>7. Len(f) = Len(p) + Len(message)
      BY <2>2, <3>5, <3>6, JoinStr
    <3>8. Good(info, b, f) /\ KeepsPads(a, b)
      BY <2>1, <2>2, <3>4, <3>5, <3>7, UpdateGood
    <3> HIDE DEF b
    <3>9. b.opad = o /\ Named(info, b)
      BY <3>4, <3>8 DEF KeepsPads, Good
    <3>10. HmacFinishOf(info, b).output = StandardDigest(info, o \o StandardDigest(info, f))
      <4>1. Good(info, b, f) /\ Countable(info, Len(f)) /\ Str(b.opad) /\ Len(b.opad) = BlockOf(info)
        BY <3>5, <3>6, <3>8, <3>9
      <4>2. HmacFinishOf(info, b).output = StandardDigest(info, b.opad \o StandardDigest(info, f))
        BY <2>1, <4>1, HmacFinishGood
      <4> QED
        BY <3>9, <4>2
    <3>11. MdHmac(info, key, message) = HmacFinishOf(info, b).output
      <4>1. MdHmac(info, key, message) =
              MdInfoFromType(info, "hmac_finish",
                MdInfoFromType(info, "hmac_update",
                  MdInfoFromType(info, "hmac_starts", g, key).ctx, message).ctx,
                <<>>).output
        <5>1. Composed(info, g, key, message)
          BY <2>1, EveryComposed
        <5> QED
          BY <5>1, Zenon DEF Composed, g
      <4>2. MdInfoFromType(info, "hmac_starts", g, key).ctx = a
        BY <2>1, <3>3, EveryComposed, Zenon DEF Composed, a
      <4>3. MdInfoFromType(info, "hmac_update", a, message).ctx = b
        BY <2>1, EveryComposed, Zenon DEF Composed, b
      <4>4. MdInfoFromType(info, "hmac_finish", b, <<>>) = HmacFinishOf(info, b)
        BY <2>1, <3>9, EveryComposed, Zenon DEF Composed
      <4> QED
        BY <4>1, <4>2, <4>3, <4>4
    <3>12. StandardHmac(info, key, message) = StandardDigest(info, o \o StandardDigest(info, f))
      <4>1. Geometry(info).block = BlockOf(info)
        BY <2>1, Geometries
      <4> QED
        BY <3>5, <4>1, Zenon DEF StandardHmac, o, p
    <3> QED
      BY <3>10, <3>11, <3>12
  <2> QED
    BY <2>3, <2>4
<1> QED
  BY <1>1, Invariant, PTL

=============================================================================
