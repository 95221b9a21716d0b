----------------------------- MODULE SeqLemmas -----------------------------
(***************************************************************************)
(* Facts about the sequence expressions the models use for Redis lists,    *)
(* message queues and sockets, beyond those of SequenceTheorems.           *)
(***************************************************************************)
EXTENDS SequenceTheorems, FiniteSetTheorems, TLAPS

\* The first m elements of a sequence, as LTRIM and slice keep them.
LEMMA PrefixProperties ==
    ASSUME NEW S, NEW s \in Seq(S), NEW m \in Nat, m <= Len(s)
    PROVE  /\ SubSeq(s, 1, m) \in Seq(S)
           /\ Len(SubSeq(s, 1, m)) = m
           /\ \A i \in 1..m : i \in 1..Len(s) /\ SubSeq(s, 1, m)[i] = s[i]
<1>1. Len(s) \in Nat
  BY LenProperties
<1>2. \A i \in 1..m : i \in 1..Len(s) /\ s[i] \in S
  BY <1>1, ElementOfSeq
<1>3. 1 \in Int /\ m \in Int
  OBVIOUS
<1>4. /\ SubSeq(s, 1, m) \in Seq(S)
      /\ Len(SubSeq(s, 1, m)) = IF 1 <= m THEN m - 1 + 1 ELSE 0
      /\ \A i \in 1 .. m-1+1 : SubSeq(s, 1, m)[i] = s[1+i-1]
  BY <1>2, <1>3, SubSeqProperties
<1> QED
  BY <1>2, <1>4

\* Putting an element in front, as LPUSH does, shifts the others by one.
LEMMA ConsProperties ==
    ASSUME NEW S, NEW s \in Seq(S), NEW e \in S
    PROVE  /\ <<e>> \o s \in Seq(S)
           /\ Len(<<e>> \o s) = Len(s) + 1
           /\ (<<e>> \o s)[1] = e
           /\ \A i \in 2..(Len(s) + 1) : i - 1 \in 1..Len(s) /\ (<<e>> \o s)[i] = s[i - 1]
<1>1. <<e>> \in Seq(S) /\ Len(<<e>>) = 1 /\ <<e>>[1] = e
  OBVIOUS
<1>2. Len(s) \in Nat
  BY LenProperties
<1> QED
  BY <1>1, <1>2, ConcatProperties

\* Dropping the last element keeps the others in place.
LEMMA FrontProperties ==
    ASSUME NEW S, NEW s \in Seq(S), s # <<>>
    PROVE  /\ SubSeq(s, 1, Len(s) - 1) \in Seq(S)
           /\ Len(SubSeq(s, 1, Len(s) - 1)) = Len(s) - 1
           /\ \A i \in 1..(Len(s) - 1) : i \in 1..Len(s) /\ SubSeq(s, 1, Len(s) - 1)[i] = s[i]
           /\ Len(s) \in Nat \ {0} /\ Len(s) \in 1..Len(s) /\ s[Len(s)] \in S
<1>1. Len(s) \in Nat \ {0}
  BY EmptySeq
<1>2. Len(s) \in 1..Len(s) /\ s[Len(s)] \in S
  BY <1>1, ElementOfSeq
<1>3. Len(s) - 1 \in Nat /\ Len(s) - 1 <= Len(s)
  BY <1>1
<1> QED
  BY <1>1, <1>2, <1>3, PrefixProperties
-----------------------------------------------------------------------------
(* Counting.  What a recursion would filter out of a sequence is described  *)
(* by ranks: element i is the n-th of its kind.                            *)

\* How many of the elements m to n of s are in A.
CountIn(s, A, m, n) == Cardinality({j \in m..n : s[j] \in A})

\* A count is a natural number, and zero for an empty range.
LEMMA CountType ==
    ASSUME NEW s, NEW A, NEW m \in Int, NEW n \in Int
    PROVE  /\ IsFiniteSet({j \in m..n : s[j] \in A})
           /\ CountIn(s, A, m, n) \in Nat
           /\ n < m => CountIn(s, A, m, n) = 0
<1>1. IsFiniteSet(m..n)
  BY FS_Interval
<1>2. IsFiniteSet({j \in m..n : s[j] \in A})
  BY <1>1, FS_Subset
<1>3. CountIn(s, A, m, n) \in Nat
  BY <1>2, FS_CardinalityType DEF CountIn
<1>4. ASSUME n < m
      PROVE  CountIn(s, A, m, n) = 0
  <2>1. {j \in m..n : s[j] \in A} = {}
    BY <1>4
  <2> QED
    BY <2>1, FS_EmptySet DEF CountIn
<1> QED
  BY <1>2, <1>3, <1>4

\* Only the elements counted matter, not the sequence they are in.
LEMMA CountSame ==
    ASSUME NEW s, NEW t, NEW A, NEW m \in Int, NEW n \in Int,
           \A j \in m..n : t[j] = s[j]
    PROVE  CountIn(t, A, m, n) = CountIn(s, A, m, n)
<1>1. {j \in m..n : t[j] \in A} = {j \in m..n : s[j] \in A}
  OBVIOUS
<1> QED
  BY <1>1 DEF CountIn

\* One more element at the end of the range.
LEMMA CountNext ==
    ASSUME NEW s, NEW A, NEW m \in Int, NEW n \in Int, m <= n + 1
    PROVE  CountIn(s, A, m, n + 1)
             = CountIn(s, A, m, n) + (IF s[n + 1] \in A THEN 1 ELSE 0)
<1> DEFINE K == {j \in m..n : s[j] \in A}
           L == {j \in m..(n + 1) : s[j] \in A}
<1>1. IsFiniteSet(K) /\ Cardinality(K) \in Nat
  BY CountType, FS_CardinalityType
<1>2. n + 1 \notin K
  OBVIOUS
<1>3. \A j : j \in m..(n + 1) <=> j \in m..n \/ j = n + 1
  OBVIOUS
<1>4. CASE s[n + 1] \in A
  <2>1. L = K \cup {n + 1}
    BY <1>3, <1>4
  <2> HIDE DEF K, L
  <2>2. Cardinality(L) = Cardinality(K) + 1
    BY <1>1, <1>2, <2>1, FS_AddElement
  <2> QED
    BY <1>4, <2>2 DEF CountIn, K, L
<1>5. CASE s[n + 1] \notin A
  <2>1. L = K
    BY <1>3, <1>5
  <2> QED
    BY <1>1, <1>5, <2>1 DEF CountIn
<1> QED
  BY <1>4, <1>5

\* Shifting the elements shifts the range.
LEMMA CountShift ==
    ASSUME NEW s, NEW t, NEW A, NEW m \in Int, NEW n \in Int,
           \A j \in m..n : t[j] = s[j + 1]
    PROVE  CountIn(t, A, m, n) = CountIn(s, A, m + 1, n + 1)
<1> DEFINE K == {j \in m..n : t[j] \in A}
           L == {j \in (m + 1)..(n + 1) : s[j] \in A}
           f == [j \in K |-> j + 1]
<1>1. IsFiniteSet(K)
  BY CountType
<1>2. \A j \in K : j \in Int /\ j + 1 \in L
  OBVIOUS
<1>3. \A l \in L : l \in Int /\ l - 1 \in K /\ (l - 1) + 1 = l
  OBVIOUS
<1> HIDE DEF K, L
<1>4. f \in [K -> L]
  BY <1>2
<1>5. \A i, j \in K : f[i] = f[j] => i = j
  BY <1>2
<1>6. \A l \in L : \E j \in K : f[j] = l
  BY <1>3
<1>7. ExistsBijection(K, L)
  <2>1. f \in Injection(K, L)
    BY <1>4, <1>5 DEF Injection, IsInjective
  <2>2. f \in Surjection(K, L)
    BY <1>4, <1>6 DEF Surjection
  <2> QED
    BY <2>1, <2>2 DEF ExistsBijection, Bijection
<1>8. Cardinality(L) = Cardinality(K)
  BY <1>1, <1>7, FS_Bijection
<1> QED
  BY <1>8 DEF CountIn, K, L

\* One more element at the front of the range.
LEMMA CountFirst ==
    ASSUME NEW s, NEW A, NEW m \in Int, NEW n \in Int, m <= n
    PROVE  CountIn(s, A, m, n)
             = CountIn(s, A, m + 1, n) + (IF s[m] \in A THEN 1 ELSE 0)
<1> DEFINE K == {j \in (m + 1)..n : s[j] \in A}
           L == {j \in m..n : s[j] \in A}
<1>1. IsFiniteSet(K) /\ Cardinality(K) \in Nat
  <2>1. m + 1 \in Int
    OBVIOUS
  <2>2. IsFiniteSet(K)
    BY ONLY <2>1, CountType, n \in Int
  <2> QED
    BY <2>2, FS_CardinalityType
<1>2. m \notin K
  OBVIOUS
<1>3. \A j : j \in m..n <=> j \in (m + 1)..n \/ j = m
  OBVIOUS
<1>4. CASE s[m] \in A
  <2>1. L = K \cup {m}
    BY <1>3, <1>4
  <2> HIDE DEF K, L
  <2>2. Cardinality(L) = Cardinality(K) + 1
    BY <1>1, <1>2, <2>1, FS_AddElement
  <2> QED
    BY <1>4, <2>2 DEF CountIn, K, L
<1>5. CASE s[m] \notin A
  <2>1. L = K
    BY <1>3, <1>5
  <2> QED
    BY <1>1, <1>5, <2>1 DEF CountIn
<1> QED
  BY <1>4, <1>5

\* An element that counts has a rank between 1 and the number of them all.
LEMMA CountBounds ==
    ASSUME NEW s, NEW A, NEW m \in Int, NEW n \in Int, NEW i \in m..n
    PROVE  /\ CountIn(s, A, m, i) <= CountIn(s, A, m, n)
           /\ CountIn(s, A, i, n) <= CountIn(s, A, m, n)
           /\ s[i] \in A => CountIn(s, A, m, i) >= 1 /\ CountIn(s, A, i, n) >= 1
<1>1. {j \in m..i : s[j] \in A} \subseteq {j \in m..n : s[j] \in A}
        /\ {j \in i..n : s[j] \in A} \subseteq {j \in m..n : s[j] \in A}
  OBVIOUS
<1>2. /\ CountIn(s, A, m, i) <= CountIn(s, A, m, n)
      /\ CountIn(s, A, i, n) <= CountIn(s, A, m, n)
  BY <1>1, CountType, FS_Subset DEF CountIn
<1>3. ASSUME s[i] \in A
      PROVE  CountIn(s, A, m, i) >= 1 /\ CountIn(s, A, i, n) >= 1
  <2>1. i \in {j \in m..i : s[j] \in A} /\ i \in {j \in i..n : s[j] \in A}
    BY <1>3
  <2>2. i \in Int
    OBVIOUS
  <2>3. /\ IsFiniteSet({j \in m..i : s[j] \in A}) /\ CountIn(s, A, m, i) \in Nat
        /\ IsFiniteSet({j \in i..n : s[j] \in A}) /\ CountIn(s, A, i, n) \in Nat
    BY <2>2, CountType
  <2>4. CountIn(s, A, m, i) # 0 /\ CountIn(s, A, i, n) # 0
    <3>1. {j \in m..i : s[j] \in A} # {} /\ {j \in i..n : s[j] \in A} # {}
      BY <2>1
    <3> QED
      BY <2>3, <3>1, FS_EmptySet DEF CountIn
  <2> QED
    BY <2>3, <2>4
<1> QED
  BY <1>2, <1>3

=============================================================================
