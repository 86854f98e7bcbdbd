--------------------------- MODULE SequenceCounts ---------------------------
(***************************************************************************)
(* How many elements of a kind a sequence holds, and how that number       *)
(* changes when the sequence does: messages on a connection, calls on a    *)
(* stack.                                                                  *)
(***************************************************************************)
EXTENDS Integers, Sequences, FiniteSetTheorems, SequenceTheorems, TLAPS

Positions(s, M) == {i \in DOMAIN s : s[i] \in M}
Count(s, M) == Cardinality(Positions(s, M))

\* A sequence holds a finite number of elements of a kind; none, if there is
\* no position of one.
LEMMA CountType ==
    ASSUME NEW T, NEW s \in Seq(T), NEW M
    PROVE  /\ IsFiniteSet(Positions(s, M)) /\ Count(s, M) \in Nat
           /\ Count(s, M) = 0 <=> \A i \in DOMAIN s : s[i] \notin M
<1>1. Len(s) \in Nat /\ DOMAIN s = 1..Len(s)
  BY LenProperties
<1>2. IsFiniteSet(1..Len(s))
  BY <1>1, FS_Interval
<1>3. Positions(s, M) \in SUBSET (1..Len(s))
  BY <1>1 DEF Positions
<1>4. IsFiniteSet(Positions(s, M))
  BY <1>2, <1>3, FS_Subset
<1>5. Count(s, M) \in Nat /\ (Count(s, M) = 0 <=> Positions(s, M) = {})
  BY <1>4, FS_CardinalityType, FS_EmptySet DEF Count
<1>6. QED
  BY <1>4, <1>5 DEF Positions

\* An element that is added is one more of its kind.
LEMMA CountAppend ==
    ASSUME NEW T, NEW s \in Seq(T), NEW m \in T, NEW M
    PROVE  Count(Append(s, m), M) = Count(s, M) + IF m \in M THEN 1 ELSE 0
<1> DEFINE a == Append(s, m)
           n == Len(s) + 1
<1>1. /\ Len(s) \in Nat /\ DOMAIN s = 1..Len(s) /\ DOMAIN a = 1..n
      /\ \A i \in 1..Len(s) : a[i] = s[i]
      /\ a[n] = m
  BY LenProperties, AppendProperties
<1>2. IsFiniteSet(Positions(s, M)) /\ n \notin Positions(s, M)
  <2>1. IsFiniteSet(Positions(s, M))
    BY CountType
  <2>2. n \notin 1..Len(s)
    BY <1>1
  <2>3. QED
    BY <1>1, <2>1, <2>2 DEF Positions
<1>3. Positions(a, M) = IF m \in M THEN Positions(s, M) \cup {n} ELSE Positions(s, M)
  <2> HIDE DEF a
  <2>1. 1..n = (1..Len(s)) \cup {n}
    BY <1>1
  <2>2. QED
    BY <1>1, <2>1 DEF Positions
<1>4. Cardinality(Positions(s, M) \cup {n}) = Cardinality(Positions(s, M)) + 1
  BY <1>2, FS_AddElement
<1>5. QED
  BY <1>3, <1>4, CountType DEF Count

\* What is left of a sequence.
LEMMA TailOf ==
    ASSUME NEW T, NEW s \in Seq(T), s # <<>>
    PROVE  /\ Len(s) \in Nat \ {0} /\ DOMAIN s = 1..Len(s) /\ Head(s) = s[1] /\ Head(s) \in T
           /\ Tail(s) \in Seq(T) /\ Len(Tail(s)) = Len(s) - 1 /\ DOMAIN Tail(s) = 1..(Len(s) - 1)
           /\ \A i \in 1..(Len(s) - 1) : Tail(s)[i] = s[i + 1]
  BY HeadTailProperties, LenProperties, EmptySeq

\* An element that is taken is one less of its kind.
LEMMA CountTail ==
    ASSUME NEW T, NEW s \in Seq(T), s # <<>>, NEW M
    PROVE  Count(s, M) = Count(Tail(s), M) + IF Head(s) \in M THEN 1 ELSE 0
<1> DEFINE t == Tail(s)
           Rest == Positions(s, M) \ {1}
           f == [i \in Positions(t, M) |-> i + 1]
<1>1. /\ Len(s) \in Nat \ {0} /\ DOMAIN s = 1..Len(s)
      /\ t \in Seq(T) /\ Len(t) = Len(s) - 1 /\ DOMAIN t = 1..(Len(s) - 1)
      /\ \A i \in 1..(Len(s) - 1) : t[i] = s[i + 1]
      /\ Head(s) = s[1]
  BY TailOf
<1>2. IsFiniteSet(Positions(s, M)) /\ IsFiniteSet(Positions(t, M))
  BY <1>1, CountType
<1> HIDE DEF t
<1>3. f \in Bijection(Positions(t, M), Rest)
  <2>1. f \in [Positions(t, M) -> Rest]
    BY <1>1 DEF Positions
  <2>2. \A i, j \in Positions(t, M) : f[i] = f[j] => i = j
    BY <1>1 DEF Positions
  <2>3. \A k \in Rest : \E i \in Positions(t, M) : f[i] = k
    <3>1. SUFFICES ASSUME NEW k \in Rest PROVE k - 1 \in Positions(t, M) /\ f[k - 1] = k
      OBVIOUS
    <3>2. QED
      BY <1>1 DEF Positions
  <2>4. QED
    BY <2>1, <2>2, <2>3 DEF Bijection, Injection, Surjection, IsInjective
<1>4. Cardinality(Rest) = Cardinality(Positions(t, M))
  BY <1>2, <1>3, FS_Bijection DEF ExistsBijection
<1>5. Cardinality(Rest) = IF 1 \in Positions(s, M) THEN Cardinality(Positions(s, M)) - 1
                          ELSE Cardinality(Positions(s, M))
  BY <1>2, FS_RemoveElement
<1>6. 1 \in Positions(s, M) <=> Head(s) \in M
  BY <1>1 DEF Positions
<1>7. Count(s, M) \in Nat /\ Count(t, M) \in Nat
  BY <1>1, CountType
<1>8. QED
  BY <1>4, <1>5, <1>6, <1>7 DEF Count, t

\* Two sequences in a row.
LEMMA CountConcat ==
    ASSUME NEW T, NEW s \in Seq(T), NEW r \in Seq(T), NEW M
    PROVE  Count(s \o r, M) = Count(s, M) + Count(r, M)
<1> DEFINE a == s \o r
           Rest == {i \in (Len(s) + 1)..(Len(s) + Len(r)) : a[i] \in M}
           f == [i \in Positions(r, M) |-> Len(s) + i]
<1>1. /\ Len(s) \in Nat /\ DOMAIN s = 1..Len(s) /\ Len(r) \in Nat /\ DOMAIN r = 1..Len(r)
      /\ DOMAIN a = 1..(Len(s) + Len(r))
      /\ \A i \in 1..(Len(s) + Len(r)) : a[i] = IF i <= Len(s) THEN s[i] ELSE r[i - Len(s)]
  BY ConcatProperties, LenProperties
<1>2. /\ IsFiniteSet(Positions(s, M)) /\ IsFiniteSet(Positions(r, M))
      /\ Count(s, M) \in Nat /\ Count(r, M) \in Nat
  BY CountType
<1> HIDE DEF a
<1>3. f \in Bijection(Positions(r, M), Rest)
  <2>1. f \in [Positions(r, M) -> Rest]
    BY <1>1 DEF Positions
  <2>2. \A i, j \in Positions(r, M) : f[i] = f[j] => i = j
    BY <1>1 DEF Positions
  <2>3. \A k \in Rest : \E i \in Positions(r, M) : f[i] = k
    <3>1. SUFFICES ASSUME NEW k \in Rest
                   PROVE  k - Len(s) \in Positions(r, M) /\ f[k - Len(s)] = k
      OBVIOUS
    <3>2. k \in (Len(s) + 1)..(Len(s) + Len(r)) /\ a[k] \in M
      OBVIOUS
    <3>3. k - Len(s) \in 1..Len(r) /\ a[k] = r[k - Len(s)] /\ Len(s) + (k - Len(s)) = k
      BY <1>1, <3>2
    <3>4. QED
      BY <1>1, <3>2, <3>3 DEF Positions
  <2>4. QED
    BY <2>1, <2>2, <2>3 DEF Bijection, Injection, Surjection, IsInjective
<1>4. IsFiniteSet(Rest) /\ Cardinality(Rest) = Cardinality(Positions(r, M))
  BY <1>2, <1>3, FS_Bijection DEF ExistsBijection
<1>5. Positions(a, M) = Positions(s, M) \cup Rest
  BY <1>1 DEF Positions
<1>6. Positions(s, M) \cap Rest = {}
  BY <1>1 DEF Positions
<1> HIDE DEF Rest, f
<1>7. Cardinality(Positions(a, M)) = Cardinality(Positions(s, M)) + Cardinality(Rest)
  <2>1. Cardinality(Positions(s, M) \cap Rest) = 0
    BY <1>6, FS_EmptySet
  <2>2. Cardinality(Positions(s, M)) \in Nat /\ Cardinality(Rest) \in Nat
    BY <1>2, <1>4 DEF Count
  <2>3. Cardinality(Positions(s, M) \cup Rest)
          = Cardinality(Positions(s, M)) + Cardinality(Rest) - Cardinality(Positions(s, M) \cap Rest)
    BY <1>2, <1>4, FS_Union
  <2>4. QED
    BY <1>5, <2>1, <2>2, <2>3
<1>8. QED
  BY <1>4, <1>7 DEF Count, a

\* An element in front is one more of its kind.
LEMMA CountCons ==
    ASSUME NEW T, NEW s \in Seq(T), NEW m \in T, NEW M
    PROVE  /\ <<m>> \o s \in Seq(T) /\ <<m>> \o s # <<>>
           /\ Head(<<m>> \o s) = m /\ Tail(<<m>> \o s) = s
           /\ Len(<<m>> \o s) = Len(s) + 1
           /\ \A i \in 1..Len(s) : (<<m>> \o s)[i + 1] = s[i]
           /\ Count(<<m>> \o s, M) = Count(s, M) + IF m \in M THEN 1 ELSE 0
<1> DEFINE a == <<m>> \o s
<1>1. <<m>> \in Seq(T) /\ Len(<<m>>) = 1 /\ <<m>>[1] = m
  OBVIOUS
<1>2. Len(s) \in Nat /\ DOMAIN s = 1..Len(s)
  BY LenProperties
<1>3. /\ a \in Seq(T) /\ Len(a) = Len(s) + 1 /\ a[1] = m
      /\ \A i \in 1..Len(s) : a[i + 1] = s[i]
  <2>1. a \in Seq(T) /\ Len(a) = 1 + Len(s)
    BY <1>1, ConcatProperties
  <2>2. \A i \in 1..(1 + Len(s)) : a[i] = IF i <= 1 THEN <<m>>[i] ELSE s[i - 1]
    BY <1>1, ConcatProperties
  <2>3. a[1] = m
    BY <1>1, <1>2, <2>2
  <2>4. ASSUME NEW i \in 1..Len(s) PROVE a[i + 1] = s[i]
    <3>1. i + 1 \in 1..(1 + Len(s)) /\ ~(i + 1 <= 1) /\ (i + 1) - 1 = i
      BY <1>2
    <3>2. QED
      BY <2>2, <3>1
  <2>5. QED
    BY <1>2, <2>1, <2>3, <2>4
<1> HIDE DEF a
<1>4. a # <<>> /\ Head(a) = m
  BY <1>2, <1>3, EmptySeq, HeadTailProperties
<1>5. Tail(a) = s
  <2>1. /\ Tail(a) \in Seq(T) /\ Len(Tail(a)) = Len(s)
        /\ \A i \in 1..Len(s) : Tail(a)[i] = s[i]
    BY <1>2, <1>3, <1>4, TailOf
  <2>2. QED
    BY <2>1, <1>2, SeqEqual
<1>6. Count(a, M) = Count(s, M) + IF m \in M THEN 1 ELSE 0
  BY <1>3, <1>4, <1>5, CountTail
<1>7. QED
  BY <1>3, <1>4, <1>5, <1>6 DEF a

=============================================================================
