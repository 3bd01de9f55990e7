----------------------------- MODULE ListLemmas -----------------------------
(***************************************************************************)
(* Lists without repetitions: what the proofs use of taking the last       *)
(* element (takeItem( getCount() - 1 ), mThreadList[ --mIndex ]) and of    *)
(* appending a new one (append(), mThreadList[ mIndex++ ]).                *)
(***************************************************************************)
EXTENDS Integers, FiniteSets, Sequences, SequencesExt, FiniteSetTheorems,
        SequenceTheorems, TLAPS

\* No element occurs twice.
Distinct(s) == \A i, j \in 1..Len(s) : s[i] = s[j] => i = j

\* Taking the last element of a list removes it and nothing else.
LEMMA TakeLast ==
    ASSUME NEW S, NEW s \in Seq(S), s # <<>>
    PROVE  /\ Last(s) \in ToSet(s)
           /\ Last(s) \in S
           /\ Front(s) \in Seq(S)
           /\ Len(Front(s)) = Len(s) - 1
           /\ Distinct(s) => /\ Distinct(Front(s))
                             /\ ToSet(Front(s)) = ToSet(s) \ {Last(s)}
<1>1. Len(s) \in Nat /\ Len(s) > 0 /\ DOMAIN s = 1..Len(s)
  OBVIOUS
<1>2. /\ Front(s) \in Seq(S)
      /\ Len(Front(s)) = Len(s) - 1
      /\ \A i \in 1..(Len(s) - 1) : Front(s)[i] = s[i]
  BY <1>1 DEF Front
<1>3. Last(s) \in ToSet(s) /\ Last(s) \in S
  BY <1>1 DEF Last, ToSet
<1>4. ASSUME Distinct(s)
      PROVE  Distinct(Front(s)) /\ ToSet(Front(s)) = ToSet(s) \ {Last(s)}
  <2>1. Distinct(Front(s))
    BY <1>1, <1>2, <1>4 DEF Distinct
  <2>2. ToSet(Front(s)) = {s[i] : i \in 1..(Len(s) - 1)}
    BY <1>1, <1>2 DEF ToSet
  <2>3. \A i \in 1..(Len(s) - 1) : s[i] # Last(s)
    BY <1>1, <1>4 DEF Last, Distinct
  <2>4. ToSet(s) = {s[i] : i \in 1..(Len(s) - 1)} \cup {Last(s)}
    BY <1>1 DEF Last, ToSet
  <2> QED BY <2>1, <2>2, <2>3, <2>4
<1> QED BY <1>2, <1>3, <1>4

\* Appending a new element adds it and nothing else.
LEMMA AppendNew ==
    ASSUME NEW S, NEW s \in Seq(S), NEW e \in S
    PROVE  /\ Append(s, e) \in Seq(S)
           /\ Len(Append(s, e)) = Len(s) + 1
           /\ ToSet(Append(s, e)) = ToSet(s) \cup {e}
           /\ Distinct(s) /\ e \notin ToSet(s) => Distinct(Append(s, e))
<1>1. Len(s) \in Nat /\ DOMAIN s = 1..Len(s)
  OBVIOUS
<1>2. /\ Append(s, e) \in Seq(S)
      /\ Len(Append(s, e)) = Len(s) + 1
      /\ \A i \in 1..Len(s) : Append(s, e)[i] = s[i]
      /\ Append(s, e)[Len(s) + 1] = e
  OBVIOUS
<1>3. DOMAIN Append(s, e) = 1..Len(s) \cup {Len(s) + 1}
  BY <1>1, <1>2
<1>4. ToSet(Append(s, e)) = ToSet(s) \cup {e}
  BY <1>1, <1>2, <1>3 DEF ToSet
<1>5. ASSUME Distinct(s), e \notin ToSet(s)
      PROVE  Distinct(Append(s, e))
  BY <1>1, <1>2, <1>5 DEF Distinct, ToSet
<1> QED BY <1>2, <1>4, <1>5

\* What was appended is the last element.
LEMMA LastAppended ==
    ASSUME NEW S, NEW s \in Seq(S), NEW e \in S
    PROVE  Append(s, e) # <<>> /\ Last(Append(s, e)) = e
<1>1. /\ Len(Append(s, e)) = Len(s) + 1 /\ Len(s) \in Nat
      /\ Append(s, e)[Len(s) + 1] = e
  OBVIOUS
<1>2. Append(s, e) # <<>>
  BY AppendProperties
<1> QED BY <1>1, <1>2 DEF Last

\* A part of a list.
LEMMA PartOf ==
    ASSUME NEW S, NEW s \in Seq(S), NEW m \in Nat \ {0}
    PROVE  /\ SubSeq(s, m, Len(s)) \in Seq(S)
           /\ Len(SubSeq(s, m, Len(s))) = IF m <= Len(s) THEN Len(s) - m + 1 ELSE 0
           /\ \A j \in 1..(Len(s) - m + 1) : SubSeq(s, m, Len(s))[j] = s[m + j - 1]
<1>1. m \in Int /\ Len(s) \in Int
  OBVIOUS
<1>2. \A j \in m..Len(s) : s[j] \in S
  OBVIOUS
<1> QED BY <1>1, <1>2, SubSeqProperties

\* Taking an element out of the list (takeItem( i )) removes it and nothing else.
LEMMA RemoveOne ==
    ASSUME NEW S, NEW s \in Seq(S), Distinct(s), NEW i \in 1..Len(s)
    PROVE  /\ RemoveAt(s, i) \in Seq(S)
           /\ Len(RemoveAt(s, i)) = Len(s) - 1
           /\ Distinct(RemoveAt(s, i))
           /\ ToSet(RemoveAt(s, i)) = ToSet(s) \ {s[i]}
<1> DEFINE r == RemoveAt(s, i)
           n == Len(s)
<1>1. n \in Nat /\ DOMAIN s = 1..n /\ i \in Nat /\ i >= 1 /\ i <= n
  OBVIOUS
<1>2. /\ r \in Seq(S) /\ Len(r) = n - 1
      /\ \A j \in 1..(n - 1) : r[j] = IF j < i THEN s[j] ELSE s[j + 1]
  <2> DEFINE a == SubSeq(s, 1, i - 1)
             b == SubSeq(s, i + 1, n)
  <2>1. a \in Seq(S) /\ Len(a) = i - 1 /\ \A j \in 1..(i - 1) : a[j] = s[j]
    <3>1. \A j \in 1..(i - 1) : s[j] \in S
      BY <1>1
    <3> QED BY <1>1, <3>1, SubSeqProperties
  <2>2. b \in Seq(S) /\ Len(b) = n - i /\ \A j \in 1..(n - i) : b[j] = s[i + j]
    <3>2. /\ b \in Seq(S)
          /\ Len(b) = IF i + 1 <= n THEN n - (i + 1) + 1 ELSE 0
          /\ \A j \in 1..(n - (i + 1) + 1) : b[j] = s[(i + 1) + j - 1]
      BY <1>1, PartOf
    <3> HIDE DEF b, n
    <3>3. Len(b) = n - i
      BY <1>1, <3>2
    <3>4. \A j \in 1..(n - i) : j \in 1..(n - (i + 1) + 1) /\ (i + 1) + j - 1 = i + j
      BY <1>1
    <3> QED BY <3>2, <3>3, <3>4
  <2>3. r = a \o b
    BY DEF RemoveAt
  <2> HIDE DEF a, b
  <2> HIDE DEF r
  <2>4. /\ r \in Seq(S) /\ Len(r) = Len(a) + Len(b)
        /\ \A j \in 1..(Len(a) + Len(b)) :
              r[j] = IF j <= Len(a) THEN a[j] ELSE b[j - Len(a)]
    BY <2>1, <2>2, <2>3, ConcatProperties
  <2>5. ASSUME NEW j \in 1..(n - 1) PROVE r[j] = IF j < i THEN s[j] ELSE s[j + 1]
    <3>1. CASE j < i
      <4>1. j \in 1..(i - 1) /\ j \in 1..(Len(a) + Len(b)) /\ j <= Len(a)
        BY <1>1, <2>1, <2>2, <3>1
      <4>2. r[j] = a[j] /\ a[j] = s[j]
        BY <2>1, <2>4, <4>1
      <4> QED BY <3>1, <4>2
    <3>2. CASE j >= i
      <4>1. r[j] = b[j - (i - 1)]
        <5>1. j \in 1..(Len(a) + Len(b)) /\ ~(j <= Len(a)) /\ Len(a) = i - 1
          BY <1>1, <2>1, <2>2, <3>2
        <5>2. r[j] = b[j - Len(a)]
          BY <2>4, <5>1
        <5> QED BY <5>1, <5>2
      <4>2. j - (i - 1) \in 1..(n - i) /\ i + (j - (i - 1)) = j + 1
        BY <1>1, <3>2
      <4> QED BY <1>1, <2>2, <3>2, <4>1, <4>2
    <3> QED BY <1>1, <3>1, <3>2
  <2>6. Len(r) = n - 1
    <3>1. Len(a) + Len(b) = n - 1
      BY <1>1, <2>1, <2>2
    <3> QED BY <2>4, <3>1
  <2>7. \A j \in 1..(n - 1) : r[j] = IF j < i THEN s[j] ELSE s[j + 1]
    BY <2>5, Zenon
  <2> QED BY <2>4, <2>6, <2>7, Zenon
<1> HIDE DEF r
<1>3. DOMAIN r = 1..(n - 1)
  BY <1>1, <1>2
<1>4. Distinct(r)
  BY <1>1, <1>2 DEF Distinct
<1>5. \A j \in 1..(n - 1) : r[j] \in ToSet(s) \ {s[i]}
  BY <1>1, <1>2 DEF Distinct, ToSet
<1>6. ASSUME NEW k \in 1..n, k # i PROVE \E j \in 1..(n - 1) : r[j] = s[k]
  <2>1. CASE k < i
    <3>1. k \in 1..(n - 1) /\ r[k] = s[k]
      BY <1>1, <1>2, <2>1
    <3> QED BY <3>1
  <2>2. CASE k > i
    <3>1. k - 1 \in 1..(n - 1) /\ r[k - 1] = s[k]
      BY <1>1, <1>2, <2>2
    <3> QED BY <3>1
  <2> QED BY <1>1, <1>6, <2>1, <2>2
<1>7. ToSet(r) = ToSet(s) \ {s[i]}
  <2>1. ToSet(r) \subseteq ToSet(s) \ {s[i]}
    BY <1>3, <1>5 DEF ToSet
  <2>2. ToSet(s) \ {s[i]} \subseteq ToSet(r)
    <3> SUFFICES ASSUME NEW e \in ToSet(s), e # s[i] PROVE e \in ToSet(r)
      OBVIOUS
    <3>1. PICK k \in 1..n : e = s[k]
      BY <1>1 DEF ToSet
    <3>2. PICK j \in 1..(n - 1) : r[j] = s[k]
      BY <1>6, <3>1
    <3> QED BY <1>3, <3>1, <3>2 DEF ToSet
  <2> QED BY <2>1, <2>2
<1> QED BY <1>2, <1>4, <1>7 DEF r

LEMMA EmptyList ==
    ToSet(<<>>) = {} /\ Distinct(<<>>) /\ Len(<<>>) = 0
BY DEF ToSet, Distinct

\* A list without repetitions is as long as its set of elements is large.
LEMMA DistinctCardinality ==
    ASSUME NEW S, NEW s \in Seq(S), Distinct(s)
    PROVE  IsFiniteSet(ToSet(s)) /\ Cardinality(ToSet(s)) = Len(s)
<1>1. Len(s) \in Nat /\ DOMAIN s = 1..Len(s)
  OBVIOUS
<1>2. s \in Bijection(1..Len(s), ToSet(s))
  BY <1>1 DEF Bijection, Injection, Surjection, IsInjective, ToSet, Distinct
<1>3. IsFiniteSet(1..Len(s)) /\ Cardinality(1..Len(s)) = Len(s)
  BY <1>1, FS_Interval
<1>4. ExistsBijection(1..Len(s), ToSet(s))
  BY <1>2 DEF ExistsBijection
<1> QED BY <1>3, <1>4, FS_Bijection

\* A set no larger than a list of some of its elements has no others.
LEMMA AllListed ==
    ASSUME NEW S, NEW s \in Seq(S), Distinct(s),
           NEW A, IsFiniteSet(A), ToSet(s) \subseteq A, Cardinality(A) <= Len(s)
    PROVE  A = ToSet(s)
<1>1. IsFiniteSet(ToSet(s)) /\ Cardinality(ToSet(s)) = Len(s)
  BY DistinctCardinality
<1>2. Cardinality(ToSet(s)) <= Cardinality(A)
  BY FS_Subset
<1>3. Cardinality(A) \in Nat /\ Len(s) \in Nat
  BY FS_CardinalityType
<1>4. Cardinality(A) = Cardinality(ToSet(s))
  BY <1>1, <1>2, <1>3
<1> QED BY <1>4, FS_Subset

=============================================================================
