--------------------------- MODULE SequenceFacts ---------------------------
(***************************************************************************)
(* Facts about sequences that the proofs about the lock annotation and the *)
(* list of taints share: what RemoveAt, Append, a new first element and    *)
(* the choice of some positions do to the elements of a list, and to a     *)
(* list without duplicates.                                                *)
(***************************************************************************)
EXTENDS SequencesExt, Integers, TLAPS, SequenceTheorems, FiniteSetTheorems,
        Sublists

\* RemoveAt drops one element and moves those behind it forward by one.
LEMMA RemoveAtElements ==
    ASSUME NEW S, NEW s \in Seq(S), NEW i \in DOMAIN s
    PROVE  /\ RemoveAt(s, i) \in Seq(S)
           /\ Len(RemoveAt(s, i)) = Len(s) - 1
           /\ DOMAIN RemoveAt(s, i) = 1..(Len(s) - 1)
           /\ \A j \in 1..(Len(s) - 1) :
                 RemoveAt(s, i)[j] = IF j <= i - 1 THEN s[j] ELSE s[j + 1]
<1> DEFINE a == SubSeq(s, 1, i - 1)
           b == SubSeq(s, i + 1, Len(s))
<1>1. i \in 1..Len(s) /\ Len(s) \in Nat /\ DOMAIN s = 1..Len(s) /\ \A j \in 1..Len(s) : s[j] \in S
  BY ElementOfSeq, LenProperties
<1>2. /\ a \in Seq(S) /\ Len(a) = i - 1
      /\ \A j \in 1..(i - 1) : a[j] = s[j]
  BY <1>1, SubSeqProperties, SMT
<1>3. /\ b \in Seq(S) /\ Len(b) = Len(s) - i
      /\ \A j \in 1..(Len(s) - i) : b[j] = s[i + j]
  BY <1>1, SubSeqProperties, SMT
<1> HIDE DEF a, b
<1>4. /\ a \o b \in Seq(S)
      /\ Len(a \o b) = Len(a) + Len(b)
      /\ \A j \in 1..(Len(a) + Len(b)) :
            (a \o b)[j] = IF j <= Len(a) THEN a[j] ELSE b[j - Len(a)]
  BY <1>2, <1>3, ConcatProperties, Zenon
<1>5. /\ Len(a \o b) = Len(s) - 1
      /\ \A j \in 1..(Len(s) - 1) : (a \o b)[j] = IF j <= i - 1 THEN s[j] ELSE s[j + 1]
  <2> DEFINE c == a \o b
  <2>1. Len(c) = Len(a) + Len(b) /\ Len(a) + Len(b) = Len(s) - 1
    BY <1>1, <1>2, <1>3, <1>4, SMT
  <2>2. \A j \in 1..(Len(a) + Len(b)) : c[j] = IF j <= Len(a) THEN a[j] ELSE b[j - Len(a)]
    BY <1>4
  <2> HIDE DEF c
  <2>3. \A j \in 1..(Len(s) - 1) : c[j] = IF j <= i - 1 THEN s[j] ELSE s[j + 1]
    <3> SUFFICES ASSUME NEW j \in 1..(Len(s) - 1)
                 PROVE  c[j] = IF j <= i - 1 THEN s[j] ELSE s[j + 1]
      OBVIOUS
    <3>1. CASE j <= i - 1
      BY <1>1, <1>2, <2>1, <2>2, <3>1, SMT
    <3>2. CASE ~(j <= i - 1)
      <4>0. j \in 1..(Len(a) + Len(b)) /\ ~(j <= Len(a)) /\ Len(a) = i - 1
        BY <1>2, <2>1, <3>2
      <4>1. c[j] = b[j - (i - 1)] /\ j - (i - 1) \in 1..(Len(s) - i)
        <5>1. c[j] = b[j - Len(a)]
          BY <2>2, <4>0
        <5>2. j - (i - 1) \in 1..(Len(s) - i)
          BY <1>1, <3>2, SMT
        <5> QED BY <4>0, <5>1, <5>2
      <4>2. b[j - (i - 1)] = s[i + (j - (i - 1))]
        BY <1>3, <4>1, SMT
      <4>3. i + (j - (i - 1)) = j + 1
        BY <1>1, SMT
      <4> QED BY <3>2, <4>1, <4>2, <4>3
    <3> QED BY <3>1, <3>2
  <2> QED BY <2>1, <2>3 DEF c
<1>6. RemoveAt(s, i) = a \o b
  BY DEF RemoveAt, a, b
<1>7. DOMAIN (a \o b) = 1..(Len(s) - 1)
  BY <1>4, <1>5, LenProperties
<1> QED BY <1>4, <1>5, <1>6, <1>7, Zenon

\* It keeps every other element and adds none.
LEMMA RemoveAtKeeps ==
    ASSUME NEW S, NEW s \in Seq(S), NEW i \in DOMAIN s
    PROVE  /\ RemoveAt(s, i) \in Seq(S)
           /\ Len(RemoveAt(s, i)) = Len(s) - 1
           /\ \A j \in DOMAIN s : j # i =>
                 \E k \in DOMAIN RemoveAt(s, i) : RemoveAt(s, i)[k] = s[j]
           /\ \A k \in DOMAIN RemoveAt(s, i) :
                 \E j \in DOMAIN s : s[j] = RemoveAt(s, i)[k]
<1> DEFINE c == RemoveAt(s, i)
<1>1. i \in 1..Len(s) /\ Len(s) \in Nat /\ DOMAIN s = 1..Len(s)
  BY LenProperties
<1>2. /\ c \in Seq(S) /\ Len(c) = Len(s) - 1 /\ DOMAIN c = 1..(Len(s) - 1)
      /\ \A j \in 1..(Len(s) - 1) : c[j] = IF j <= i - 1 THEN s[j] ELSE s[j + 1]
  BY RemoveAtElements
<1> HIDE DEF c
<1>3. ASSUME NEW j \in DOMAIN s, j # i
      PROVE  \E k \in DOMAIN c : c[k] = s[j]
  <2>1. CASE j < i
    <3>1. j \in 1..(Len(s) - 1) /\ j <= i - 1
      BY <1>1, <2>1, SMT
    <3> QED BY <1>2, <3>1
  <2>2. CASE j > i
    <3>1. j - 1 \in 1..(Len(s) - 1) /\ ~(j - 1 <= i - 1) /\ (j - 1) + 1 = j
      BY <1>1, <2>2, SMT
    <3>2. c[j - 1] = s[j]
      BY <1>2, <3>1, SMT
    <3> QED BY <1>2, <3>1, <3>2
  <2> QED BY <1>1, <1>3, <2>1, <2>2, SMT
<1>4. ASSUME NEW k \in DOMAIN c
      PROVE  \E j \in DOMAIN s : s[j] = c[k]
  <2>1. k \in 1..Len(s) /\ k + 1 \in 1..Len(s)
    BY <1>1, <1>2, SMT
  <2> QED BY <1>1, <1>2, <2>1, SMT
<1> QED BY <1>2, <1>3, <1>4 DEF c

\* From a list without duplicates it takes the element away for good.
LEMMA RemoveAtRange ==
    ASSUME NEW S, NEW s \in Seq(S), NEW i \in DOMAIN s, IsInjective(s)
    PROVE  /\ RemoveAt(s, i) \in Seq(S)
           /\ IsInjective(RemoveAt(s, i))
           /\ Range(RemoveAt(s, i)) = Range(s) \ {s[i]}
<1> DEFINE c == RemoveAt(s, i)
           Old(j) == IF j <= i - 1 THEN j ELSE j + 1
<1>1. i \in 1..Len(s) /\ Len(s) \in Nat /\ DOMAIN s = 1..Len(s)
  BY LenProperties
<1>2. /\ c \in Seq(S) /\ DOMAIN c = 1..(Len(s) - 1)
      /\ \A j \in DOMAIN c : c[j] = s[Old(j)]
  <2>1. /\ c \in Seq(S) /\ DOMAIN c = 1..(Len(s) - 1)
        /\ \A j \in 1..(Len(s) - 1) : c[j] = IF j <= i - 1 THEN s[j] ELSE s[j + 1]
    BY RemoveAtElements
  <2> HIDE DEF c
  <2> QED BY <2>1
<1>3. \A j, k \in 1..(Len(s) - 1) :
         /\ Old(j) \in DOMAIN s /\ Old(j) # i
         /\ Old(j) = Old(k) => j = k
  BY <1>1, SMT
<1> HIDE DEF c, Old
<1>4. IsInjective(c)
  BY <1>2, <1>3 DEF IsInjective
<1>5. \A j \in DOMAIN c : c[j] \in Range(s) /\ c[j] # s[i]
  BY <1>2, <1>3 DEF IsInjective, Range
<1>6. \A j \in DOMAIN s : j # i => \E k \in DOMAIN c : c[k] = s[j]
  BY RemoveAtKeeps DEF c
<1>7. Range(c) = Range(s) \ {s[i]}
  BY <1>5, <1>6 DEF Range
<1> QED BY <1>2, <1>4, <1>7 DEF c

\* A new element at the end of a list without duplicates.
LEMMA AppendRange ==
    ASSUME NEW S, NEW s \in Seq(S), IsInjective(s), NEW e \in S, e \notin Range(s)
    PROVE  /\ Append(s, e) \in Seq(S)
           /\ IsInjective(Append(s, e))
           /\ Range(Append(s, e)) = Range(s) \union {e}
<1> DEFINE c == Append(s, e)
<1>1. Len(s) \in Nat /\ DOMAIN s = 1..Len(s)
  BY LenProperties
<1>2. /\ c \in Seq(S) /\ DOMAIN c = 1..(Len(s) + 1)
      /\ \A i \in 1..Len(s) : c[i] = s[i]
      /\ c[Len(s) + 1] = e
  BY AppendProperties, LenProperties
<1> HIDE DEF c
<1>3. \A i \in DOMAIN c : (i \in DOMAIN s /\ c[i] = s[i]) \/ (i = Len(s) + 1 /\ c[i] = e)
  BY <1>1, <1>2, SMT
<1>4. Len(s) + 1 \in DOMAIN c /\ DOMAIN s \subseteq DOMAIN c
  BY <1>1, <1>2, SMT
<1>5. \A i \in DOMAIN s : s[i] # e
  BY DEF Range
<1>6. IsInjective(c)
  BY <1>3, <1>5 DEF IsInjective
<1>7. Range(c) = Range(s) \union {e}
  BY <1>1, <1>2, <1>3, <1>4 DEF Range
<1> QED BY <1>2, <1>6, <1>7 DEF c

\* A new element in front of it.
LEMMA PrependRange ==
    ASSUME NEW S, NEW s \in Seq(S), IsInjective(s), NEW e \in S, e \notin Range(s)
    PROVE  /\ <<e>> \o s \in Seq(S)
           /\ IsInjective(<<e>> \o s)
           /\ Range(<<e>> \o s) = Range(s) \union {e}
<1> DEFINE c == <<e>> \o s
<1>1. Len(s) \in Nat /\ DOMAIN s = 1..Len(s)
  BY LenProperties
<1>2. <<e>> \in Seq(S) /\ Len(<<e>>) = 1 /\ <<e>>[1] = e
  OBVIOUS
<1>3. /\ c \in Seq(S) /\ Len(c) = 1 + Len(s)
      /\ \A i \in 1..(1 + Len(s)) : c[i] = IF i <= 1 THEN <<e>>[i] ELSE s[i - 1]
  BY <1>2, ConcatProperties
<1> HIDE DEF c
<1>4. DOMAIN c = 1..(Len(s) + 1)
  BY <1>1, <1>3, LenProperties, SMT
<1>5. c[1] = e /\ \A i \in DOMAIN c : i = 1 \/ (i - 1 \in DOMAIN s /\ c[i] = s[i - 1])
  BY <1>1, <1>2, <1>3, <1>4, SMT
<1>6. 1 \in DOMAIN c /\ \A i \in DOMAIN s : i + 1 \in DOMAIN c /\ c[i + 1] = s[i]
  <2>1. 1 \in 1..(Len(s) + 1)
    BY <1>1, SMT
  <2>2. \A i \in DOMAIN s : i + 1 \in DOMAIN c /\ i + 1 # 1 /\ (i + 1) - 1 = i
    BY <1>1, <1>4, SMT
  <2> QED BY <1>4, <1>5, <2>1, <2>2
<1>7. \A i \in DOMAIN s : s[i] # e
  BY DEF Range
<1>8. \A i, j \in DOMAIN c : i - 1 = j - 1 => i = j
  BY <1>4, SMT
<1>9. IsInjective(c)
  BY <1>5, <1>7, <1>8 DEF IsInjective
<1>10. Range(c) = Range(s) \union {e}
  BY <1>5, <1>6 DEF Range
<1> QED BY <1>3, <1>9, <1>10 DEF c

\* How many positions there are up to n.
LEMMA IntervalSize ==
    ASSUME NEW n \in Nat PROVE IsFiniteSet(1..n) /\ Cardinality(1..n) = n
<1>1. /\ IsFiniteSet(1..n)
      /\ Cardinality(1..n) = IF 1 > n THEN 0 ELSE n - 1 + 1
  BY FS_Interval
<1>2. (IF 1 > n THEN 0 ELSE n - 1 + 1) = n
  BY SMT
<1> QED BY <1>1, <1>2

\* The elements of c are those of s at positions in I, no position twice.
Draws(c, s, I) ==
    \E at \in [DOMAIN c -> I] : IsInjective(at) /\ \A k \in DOMAIN at : c[k] = s[at[k]]

\* A part of a list is no longer than the list, shorter when a position is left
\* out, and has the elements at the kept positions and no other, each once.
LEMMA SublistElements ==
    ASSUME NEW S, NEW s \in Seq(S), NEW I \in SUBSET DOMAIN s
    PROVE  /\ Sublist(s, I) \in Seq(S)
           /\ Len(Sublist(s, I)) = Cardinality(I)
           /\ Len(Sublist(s, I)) <= Len(s)
           /\ I # DOMAIN s => Len(Sublist(s, I)) < Len(s)
           /\ \A i \in I : \E k \in DOMAIN Sublist(s, I) : Sublist(s, I)[k] = s[i]
           /\ Draws(Sublist(s, I), s, I)
<1> DEFINE c == Sublist(s, I)
           Upto(i) == {j \in I : j <= i}
           N == Cardinality(I)
           Rank(i) == Cardinality(Upto(i))
<1>1. /\ Len(s) \in Nat /\ DOMAIN s = 1..Len(s)
      /\ \A i \in DOMAIN s : i \in Int /\ s[i] \in S
  BY ElementOfSeq, LenProperties
<1>2. /\ IsFiniteSet(DOMAIN s) /\ Cardinality(DOMAIN s) = Len(s)
      /\ IsFiniteSet(I) /\ N \in Nat /\ N <= Len(s) /\ (N = Len(s) => I = DOMAIN s)
  <2>1. IsFiniteSet(1..Len(s)) /\ Cardinality(1..Len(s)) = Len(s)
    BY <1>1, IntervalSize
  <2>2. IsFiniteSet(I) /\ Cardinality(I) <= Len(s) /\ (Len(s) = Cardinality(I) => DOMAIN s = I)
    BY <1>1, <2>1, FS_Subset
  <2> QED BY <1>1, <2>1, <2>2, FS_CardinalityType
<1>3. \A i \in I : IsFiniteSet(Upto(i)) /\ Rank(i) \in Nat
  <2> TAKE i \in I
  <2>1. Upto(i) \in SUBSET I
    OBVIOUS
  <2>2. IsFiniteSet(Upto(i))
    BY <1>2, <2>1, FS_Subset
  <2> QED BY <2>2, FS_CardinalityType
<1>4. ASSUME NEW i \in I, NEW j \in I, i < j
      PROVE  Rank(i) < Rank(j)
  <2>1. Upto(i) \in SUBSET Upto(j) /\ Upto(i) # Upto(j)
    <3>1. j \in Upto(j) /\ j \notin Upto(i)
      BY <1>1, <1>4, SMT
    <3>2. Upto(i) \subseteq Upto(j)
      BY <1>1, <1>4, SMT
    <3> QED BY <3>1, <3>2
  <2>2. Rank(i) <= Rank(j) /\ Rank(i) # Rank(j)
    BY <1>3, <2>1, FS_Subset
  <2>3. Rank(i) \in Nat /\ Rank(j) \in Nat
    BY <1>3
  <2> HIDE DEF Rank
  <2> QED BY <2>2, <2>3, SMT
<1>5. \A i \in I : Rank(i) \in 1..N
  <2> TAKE i \in I
  <2>1. Upto(i) \in SUBSET I /\ i \in Upto(i)
    BY <1>1, SMT
  <2>2. Rank(i) <= N /\ Rank(i) # 0
    BY <1>2, <1>3, <2>1, FS_Subset, FS_EmptySet
  <2>3. Rank(i) \in Nat /\ N \in Nat
    BY <1>2, <1>3
  <2> HIDE DEF Rank, N
  <2> QED BY <2>2, <2>3, SMT
<1>6. \A k \in 1..N : \E i \in I : Rank(i) = k
  <2> DEFINE f == [i \in I |-> Rank(i)]
  <2>1. f \in [I -> 1..N]
    BY <1>5
  <2>2. \A i, j \in I : f[i] = f[j] => i = j
    <3> SUFFICES ASSUME NEW i \in I, NEW j \in I, i # j PROVE Rank(i) # Rank(j)
      OBVIOUS
    <3>1. i < j \/ j < i
      BY <1>1, SMT
    <3>2. Rank(i) < Rank(j) \/ Rank(j) < Rank(i)
      BY <1>4, <3>1
    <3>3. Rank(i) \in Nat /\ Rank(j) \in Nat
      BY <1>3
    <3> HIDE DEF Rank
    <3> QED BY <3>2, <3>3, SMT
  <2>3. IsFiniteSet(1..N) /\ Cardinality(1..N) = N
    BY <1>2, IntervalSize
  <2> HIDE DEF f
  <2>4. f \in Injection(I, 1..N)
    BY <2>1, <2>2 DEF Injection, IsInjective
  <2>5. f \in Surjection(I, 1..N)
    BY <2>3, <2>4, FS_Injection
  <2>6. \A k \in 1..N : \E i \in I : f[i] = k
    BY <2>5 DEF Surjection
  <2> QED BY <2>6 DEF f
<1> DEFINE At(k) == CHOOSE i \in I : Rank(i) = k
<1>7. \A k \in 1..N : At(k) \in I /\ Rank(At(k)) = k
  BY <1>6
<1>8. \A i \in I : At(Rank(i)) = i
  <2> TAKE i \in I
  <2>1. At(Rank(i)) \in I /\ Rank(At(Rank(i))) = Rank(i)
    BY <1>5, <1>7
  <2> DEFINE j == At(Rank(i))
  <2>2. j \in I /\ Rank(j) = Rank(i)
    BY <2>1
  <2> HIDE DEF j
  <2>3. j < i => Rank(j) < Rank(i)
    BY <1>4, <2>2
  <2>4. i < j => Rank(i) < Rank(j)
    BY <1>4, <2>2
  <2>5. Rank(i) \in Nat
    BY <1>3
  <2> HIDE DEF Rank
  <2>6. ~(j < i) /\ ~(i < j)
    BY <2>2, <2>3, <2>4, <2>5, SMT
  <2>7. j = i
    BY <1>1, <2>2, <2>6, SMT
  <2> QED BY <2>7 DEF j, Rank
<1>9. c = [k \in 1..N |-> s[At(k)]]
  BY DEF Sublist
<1> HIDE DEF c, N, Rank, At
<1>10. \A k \in DOMAIN c : k \in 1..N /\ c[k] = s[At(k)] /\ At(k) \in I
  BY <1>7, <1>9
<1>11. c \in Seq(S) /\ Len(c) = N
  <2>1. c \in [1..N -> S]
    BY <1>1, <1>9, <1>10
  <2>2. c \in Seq(S)
    BY <1>2, <2>1, SeqDef
  <2>3. Len(c) \in Nat /\ DOMAIN c = 1..Len(c) /\ DOMAIN c = 1..N
    BY <2>1, <2>2, LenProperties
  <2>4. Cardinality(1..Len(c)) = Len(c) /\ Cardinality(1..N) = N
    BY <1>2, <2>3, IntervalSize
  <2> QED BY <2>2, <2>3, <2>4
<1>12. \A i \in I : Rank(i) \in DOMAIN c /\ c[Rank(i)] = s[i]
  BY <1>5, <1>8, <1>9
<1>13. Len(c) <= Len(s) /\ (I # DOMAIN s => Len(c) < Len(s))
  <2>1. N \in Nat /\ Len(s) \in Nat /\ N <= Len(s) /\ Len(c) = N
    BY <1>1, <1>2, <1>11
  <2>2. I # DOMAIN s => N # Len(s)
    BY <1>2
  <2>3. N # Len(s) => N < Len(s)
    BY <2>1, SMT
  <2> QED BY <2>1, <2>2, <2>3
<1>14. Draws(c, s, I)
  <2> DEFINE at == [k \in DOMAIN c |-> At(k)]
  <2>1. at \in [DOMAIN c -> I] /\ \A k \in DOMAIN at : c[k] = s[at[k]]
    BY <1>10
  <2>2. IsInjective(at)
    BY <1>7, <1>10 DEF IsInjective
  <2> HIDE DEF at
  <2> QED BY <2>1, <2>2 DEF Draws
<1> QED BY <1>11, <1>12, <1>13, <1>14 DEF c, N

\* All of a list but one position.
LEMMA SublistDropsOne ==
    ASSUME NEW S, NEW s \in Seq(S), NEW i \in DOMAIN s, NEW c, c = Sublist(s, DOMAIN s \ {i})
    PROVE  /\ c \in Seq(S)
           /\ Len(c) = Len(s) - 1
           /\ \A j \in DOMAIN s : j # i => \E k \in DOMAIN c : c[k] = s[j]
           /\ Draws(c, s, DOMAIN s \ {i})
<1> DEFINE I == DOMAIN s \ {i}
<1>1. /\ c \in Seq(S) /\ Len(c) = Cardinality(I)
      /\ \A j \in I : \E k \in DOMAIN c : c[k] = s[j]
      /\ Draws(c, s, I)
  <2>1. I \in SUBSET DOMAIN s /\ c = Sublist(s, I)
    OBVIOUS
  <2> HIDE DEF I
  <2>2. /\ Sublist(s, I) \in Seq(S)
        /\ Len(Sublist(s, I)) = Cardinality(I)
        /\ \A j \in I : \E k \in DOMAIN Sublist(s, I) : Sublist(s, I)[k] = s[j]
        /\ Draws(Sublist(s, I), s, I)
    BY <2>1, SublistElements
  <2> QED BY <2>1, <2>2
<1>2. DOMAIN s = 1..Len(s) /\ Len(s) \in Nat
  BY LenProperties
<1>3. IsFiniteSet(DOMAIN s) /\ Cardinality(DOMAIN s) = Len(s)
  BY <1>2, IntervalSize
<1>4. Cardinality(I) = Len(s) - 1
  BY <1>3, FS_RemoveElement
<1> QED BY <1>1, <1>4
=============================================================================
