-------------------------------- MODULE Counting --------------------------------
(***************************************************************************)
(* How many elements of a sequence lie in a set, such as the messages of   *)
(* one kind that are on their way, and how the number changes when a       *)
(* message is sent or heard.                                               *)
(***************************************************************************)
EXTENDS Integers, Sequences, FiniteSetTheorems, FunctionTheorems, TLAPS

CountIn(s, K) == Cardinality({i \in 1..Len(s) : s[i] \in K})

One(b) == IF b THEN 1 ELSE 0

\* A sequence has a finite number of elements of each kind.
LEMMA CountInIsNat ==
  ASSUME NEW S, NEW s \in Seq(S), NEW K
  PROVE  CountIn(s, K) \in Nat
<1> DEFINE A == {i \in 1..Len(s) : s[i] \in K}
<1>1. IsFiniteSet(A)
  <2>1. IsFiniteSet(1..Len(s))
    BY FS_Interval
  <2> QED
    BY <2>1, FS_Subset
<1> QED
  BY <1>1, FS_CardinalityType DEF CountIn

LEMMA CountInEmpty ==
  ASSUME NEW K
  PROVE  CountIn(<<>>, K) = 0
<1>1. {i \in 1..Len(<<>>) : <<>>[i] \in K} = {}
  OBVIOUS
<1> QED
  BY <1>1, FS_EmptySet DEF CountIn

\* A message that is sent counts one more.
LEMMA CountInSent ==
  ASSUME NEW S, NEW s \in Seq(S), NEW m \in S, NEW K
  PROVE  CountIn(s \o <<m>>, K) = CountIn(s, K) + One(m \in K)
<1> DEFINE n == Len(s)
           t == s \o <<m>>
           A == {i \in 1..n : s[i] \in K}
           B == {i \in 1..Len(t) : t[i] \in K}
<1>1. /\ n \in Nat /\ Len(t) = n + 1 /\ t[n + 1] = m
      /\ \A i \in 1..n : t[i] = s[i]
  OBVIOUS
<1>2. IsFiniteSet(A)
  <2>1. IsFiniteSet(1..n)
    BY <1>1, FS_Interval
  <2> QED
    BY <2>1, FS_Subset
<1>3. CountIn(s, K) = Cardinality(A) /\ CountIn(t, K) = Cardinality(B)
  BY DEF CountIn
<1> HIDE DEF n, t
<1>4. CASE m \in K
  <2>1. B = A \cup {n + 1} /\ n + 1 \notin A
    BY <1>1, <1>4
  <2>2. Cardinality(A \cup {n + 1}) = Cardinality(A) + 1
    BY <1>2, <2>1, FS_AddElement
  <2> QED
    BY <1>3, <1>4, <2>1, <2>2 DEF One, t
<1>5. CASE m \notin K
  <2>1. B = A
    BY <1>1, <1>5
  <2>2. Cardinality(A) \in Nat
    BY <1>2, FS_CardinalityType
  <2> HIDE DEF A, B
  <2> QED
    BY <1>3, <1>5, <2>1, <2>2 DEF One, t
<1> QED
  BY <1>4, <1>5

\* A message that is heard counts one less.
LEMMA CountInHeard ==
  ASSUME NEW S, NEW s \in Seq(S), s # <<>>, NEW K
  PROVE  CountIn(s, K) = CountIn(Tail(s), K) + One(Head(s) \in K)
<1> DEFINE n == Len(s)
           t == Tail(s)
           A == {i \in 1..Len(t) : t[i] \in K}
           B == {i \in 1..n : s[i] \in K}
           f == [i \in A |-> i + 1]
<1>1. /\ n \in Nat /\ n > 0 /\ Len(t) = n - 1 /\ Head(s) = s[1]
      /\ \A i \in 1..Len(t) : t[i] = s[i + 1]
  OBVIOUS
<1>2. IsFiniteSet(A) /\ IsFiniteSet(B)
  <2>1. IsFiniteSet(1..Len(t)) /\ IsFiniteSet(1..n)
    BY <1>1, FS_Interval
  <2> QED
    BY <2>1, FS_Subset
<1>3. f \in Bijection(A, B \ {1})
  <2>1. f \in [A -> B \ {1}]
    <3> SUFFICES ASSUME NEW i \in A PROVE i + 1 \in B \ {1}
      OBVIOUS
    <3> QED
      BY <1>1
  <2>2. \A i, j \in A : f[i] = f[j] => i = j
    BY <1>1
  <2>3. \A k \in B \ {1} : \E i \in A : f[i] = k
    <3> SUFFICES ASSUME NEW k \in B \ {1} PROVE \E i \in A : f[i] = k
      OBVIOUS
    <3>1. k - 1 \in A
      BY <1>1
    <3>2. f[k - 1] = k
      BY <1>1, <3>1
    <3> QED
      BY <3>1, <3>2
  <2> HIDE DEF f, A, B
  <2> QED
    BY <2>1, <2>2, <2>3, Fun_IsBij
<1>4. Cardinality(B \ {1}) = Cardinality(A)
  <2> HIDE DEF f, A, B
  <2>1. ExistsBijection(A, B \ {1})
    BY <1>3 DEF ExistsBijection
  <2> QED
    BY <1>2, <2>1, FS_Bijection
<1>5. CountIn(s, K) = Cardinality(B) /\ CountIn(t, K) = Cardinality(A)
  BY DEF CountIn
<1>6. Cardinality(A) \in Nat /\ Cardinality(B) \in Nat
  BY <1>2, FS_CardinalityType
<1>7. CASE Head(s) \in K
  <2>1. 1 \in B
    BY <1>1, <1>7
  <2>2. Cardinality(B \ {1}) = Cardinality(B) - 1
    BY <1>2, <2>1, FS_RemoveElement
  <2> HIDE DEF A, B
  <2> QED
    BY <1>4, <1>5, <1>6, <1>7, <2>2 DEF One
<1>8. CASE Head(s) \notin K
  <2>1. B \ {1} = B
    BY <1>1, <1>8
  <2> HIDE DEF A, B
  <2>2. Cardinality(B) = Cardinality(A)
    BY <1>4, <2>1, Zenon
  <2>3. One(Head(s) \in K) = 0
    BY <1>8 DEF One
  <2> QED
    BY <1>5, <1>6, <2>2, <2>3
<1> QED
  BY <1>7, <1>8
=============================================================================
