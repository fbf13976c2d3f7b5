---------------------------- MODULE WebApiProofs ----------------------------
(***************************************************************************)
(* Lemmas about the calls in flight, for the proofs about the web client:  *)
(* what is a sequence of calls, which calls it holds, and how many of them *)
(* are of certain operations, after a call was sent, answered or given up. *)
(***************************************************************************)
EXTENDS WebApi, SequenceTheorems, FiniteSetTheorems, TLAPS

IsList(s) == s \in Seq(ToSet(s))

\* How many calls of s are requests of the operations S.
Number(s, S) == Cardinality({i \in DOMAIN s : s[i].op \in S})

-----------------------------------------------------------------------------
LEMMA ListFacts ==
    ASSUME NEW s, IsList(s)
    PROVE  Len(s) \in Nat /\ DOMAIN s = 1..Len(s)
  BY LenProperties DEF IsList

LEMMA ListIntro ==
    ASSUME NEW T, NEW s \in Seq(T)
    PROVE  IsList(s)
  <1>1. Len(s) \in Nat /\ DOMAIN s = 1..Len(s)
    BY LenProperties
  <1>2. \A i \in 1..Len(s) : s[i] \in ToSet(s)
    BY <1>1 DEF ToSet
  <1> QED
    BY <1>1, <1>2 DEF IsList

LEMMA EmptyList == IsList(<<>>) /\ DOMAIN <<>> = {} /\ Len(<<>>) = 0
  <1>1. <<>> \in Seq({}) /\ Len(<<>>) = 0
    BY EmptySeq
  <1>2. IsList(<<>>)
    BY <1>1, ListIntro
  <1> QED
    BY <1>1, <1>2, ListFacts

LEMMA OneList ==
    ASSUME NEW c
    PROVE  IsList(<<c>>) /\ DOMAIN <<c>> = {1} /\ Len(<<c>>) = 1 /\ <<c>>[1] = c
  <1>1. <<c>> \in Seq({c}) /\ Len(<<c>>) = 1 /\ <<c>>[1] = c
    OBVIOUS
  <1>2. IsList(<<c>>)
    BY <1>1, ListIntro
  <1> QED
    BY <1>1, <1>2, ListFacts

LEMMA TwoList ==
    ASSUME NEW c, NEW d
    PROVE  IsList(<<c, d>>) /\ DOMAIN <<c, d>> = {1, 2} /\ Len(<<c, d>>) = 2
           /\ <<c, d>>[1] = c /\ <<c, d>>[2] = d
  <1>1. <<c, d>> \in Seq({c, d}) /\ Len(<<c, d>>) = 2 /\ <<c, d>>[1] = c /\ <<c, d>>[2] = d
    OBVIOUS
  <1>2. IsList(<<c, d>>)
    BY <1>1, ListIntro
  <1> QED
    BY <1>1, <1>2, ListFacts

LEMMA JoinList ==
    ASSUME NEW s, NEW t, IsList(s), IsList(t)
    PROVE  /\ IsList(s \o t)
           /\ Len(s \o t) = Len(s) + Len(t)
           /\ \A i \in DOMAIN (s \o t) : (s \o t)[i] = IF i <= Len(s) THEN s[i] ELSE t[i - Len(s)]
           /\ ToSet(s \o t) = ToSet(s) \cup ToSet(t)
  <1> DEFINE T == ToSet(s) \cup ToSet(t)
  <1>1. s \in Seq(T) /\ t \in Seq(T)
    BY SeqMonotonic DEF IsList
  <1>2. Len(s) \in Nat /\ Len(t) \in Nat /\ DOMAIN s = 1..Len(s) /\ DOMAIN t = 1..Len(t)
    BY ListFacts
  <1>3. /\ s \o t \in Seq(T)
        /\ Len(s \o t) = Len(s) + Len(t)
        /\ \A i \in 1..Len(s) + Len(t) : (s \o t)[i] = IF i <= Len(s) THEN s[i] ELSE t[i - Len(s)]
    BY <1>1, ConcatProperties
  <1>4. IsList(s \o t)
    BY <1>3, ListIntro
  <1>5. DOMAIN (s \o t) = 1..Len(s) + Len(t)
    BY <1>3, <1>4, ListFacts
  <1>6. ASSUME NEW i \in DOMAIN (s \o t) PROVE (s \o t)[i] \in ToSet(s) \cup ToSet(t)
    <2>1. CASE i <= Len(s)
      BY <2>1, <1>2, <1>3, <1>5 DEF ToSet
    <2>2. CASE ~(i <= Len(s))
      <3>1. i - Len(s) \in DOMAIN t /\ (s \o t)[i] = t[i - Len(s)]
        BY <2>2, <1>2, <1>3, <1>5
      <3> QED
        BY <3>1 DEF ToSet
    <2> QED
      BY <2>1, <2>2
  <1>7. ASSUME NEW i \in DOMAIN s PROVE s[i] \in ToSet(s \o t)
    <2>1. i \in DOMAIN (s \o t) /\ (s \o t)[i] = s[i]
      BY <1>2, <1>3, <1>5
    <2> QED
      BY <2>1 DEF ToSet
  <1>8. ASSUME NEW i \in DOMAIN t PROVE t[i] \in ToSet(s \o t)
    <2>1. i + Len(s) \in DOMAIN (s \o t) /\ (s \o t)[i + Len(s)] = t[i]
      BY <1>2, <1>3, <1>5
    <2> QED
      BY <2>1 DEF ToSet
  <1>9. ToSet(s \o t) = ToSet(s) \cup ToSet(t)
    BY <1>6, <1>7, <1>8 DEF ToSet
  <1> QED
    BY <1>3, <1>4, <1>5, <1>9

LEMMA AppendList ==
    ASSUME NEW s, IsList(s), NEW e
    PROVE  /\ IsList(Append(s, e))
           /\ DOMAIN Append(s, e) = DOMAIN s \cup {Len(s) + 1} /\ Len(s) + 1 \notin DOMAIN s
           /\ \A i \in DOMAIN s : Append(s, e)[i] = s[i]
           /\ Append(s, e)[Len(s) + 1] = e
  <1> DEFINE T == ToSet(s) \cup {e}
  <1>1. s \in Seq(T) /\ e \in T /\ Len(s) \in Nat /\ DOMAIN s = 1..Len(s)
    BY ListFacts, SeqMonotonic DEF IsList
  <1> HIDE DEF T
  <1>2. /\ Append(s, e) \in Seq(T) /\ Len(Append(s, e)) = Len(s) + 1
        /\ \A i \in 1..Len(s) : Append(s, e)[i] = s[i]
        /\ Append(s, e)[Len(s) + 1] = e
    BY <1>1, AppendProperties
  <1>3. IsList(Append(s, e))
    BY <1>2, ListIntro
  <1>4. DOMAIN Append(s, e) = 1..(Len(s) + 1)
    BY <1>2, <1>3, ListFacts
  <1> QED
    BY <1>1, <1>2, <1>3, <1>4

LEMMA RemoveList ==
    ASSUME NEW s, IsList(s), NEW i \in DOMAIN s
    PROVE  /\ IsList(RemoveAt(s, i))
           /\ DOMAIN RemoveAt(s, i) = 1..Len(s) - 1
           /\ \A k \in DOMAIN RemoveAt(s, i) : RemoveAt(s, i)[k] = IF k < i THEN s[k] ELSE s[k + 1]
           /\ ToSet(RemoveAt(s, i)) \subseteq ToSet(s)
  <1> DEFINE T == ToSet(s)
             a == SubSeq(s, 1, i - 1)
             b == SubSeq(s, i + 1, Len(s))
  <1>1. s \in Seq(T) /\ Len(s) \in Nat /\ DOMAIN s = 1..Len(s) /\ i \in 1..Len(s)
    BY ListFacts DEF IsList
  <1>2. \A k \in 1..Len(s) : s[k] \in T
    BY <1>1 DEF ToSet
  <1>3. a \in Seq(T) /\ Len(a) = i - 1 /\ \A k \in 1..i - 1 : a[k] = s[k]
    <2>1. \A k \in 1..i - 1 : s[k] \in T
      BY <1>1, <1>2
    <2>2. 1 \in Int /\ i - 1 \in Int
      BY <1>1
    <2> HIDE DEF T
    <2>3. a \in Seq(T) /\ Len(a) = (IF 1 <= i - 1 THEN (i - 1) - 1 + 1 ELSE 0)
          /\ \A k \in 1..(i - 1) - 1 + 1 : a[k] = s[1 + k - 1]
      BY <2>1, <2>2, SubSeqProperties
    <2>5. Len(a) = i - 1
      BY <2>3, <1>1
    <2>6. ASSUME NEW k \in 1..i - 1 PROVE a[k] = s[k]
      <3>1. k \in 1..(i - 1) - 1 + 1 /\ 1 + k - 1 = k
        BY <1>1
      <3> QED
        BY <3>1, <2>3
    <2> QED
      BY <2>3, <2>5, <2>6
  <1>4. b \in Seq(T) /\ Len(b) = Len(s) - i /\ \A k \in 1..Len(s) - i : b[k] = s[i + k]
    <2>1. \A k \in i + 1..Len(s) : s[k] \in T
      BY <1>1, <1>2
    <2>2. i + 1 \in Int /\ Len(s) \in Int
      BY <1>1
    <2> HIDE DEF T
    <2>3. b \in Seq(T) /\ Len(b) = (IF i + 1 <= Len(s) THEN Len(s) - (i + 1) + 1 ELSE 0)
          /\ \A k \in 1..Len(s) - (i + 1) + 1 : b[k] = s[i + 1 + k - 1]
      BY <2>1, <2>2, SubSeqProperties
    <2>4. Len(b) = Len(s) - i
      BY <2>3, <1>1
    <2>5. ASSUME NEW k \in 1..Len(s) - i PROVE b[k] = s[i + k]
      <3>1. k \in 1..Len(s) - (i + 1) + 1 /\ i + 1 + k - 1 = i + k
        BY <1>1
      <3> QED
        BY <3>1, <2>3
    <2> QED
      BY <2>3, <2>4, <2>5
  <1>5. /\ a \o b \in Seq(T)
        /\ Len(a \o b) = Len(s) - 1
        /\ \A k \in 1..Len(s) - 1 : (a \o b)[k] = IF k <= i - 1 THEN a[k] ELSE b[k - (i - 1)]
    <2> HIDE DEF a, b, T
    <2>1. /\ a \o b \in Seq(T)
          /\ Len(a \o b) = Len(a) + Len(b)
          /\ \A k \in 1..Len(a) + Len(b) : (a \o b)[k] = IF k <= Len(a) THEN a[k] ELSE b[k - Len(a)]
      BY <1>3, <1>4, ConcatProperties
    <2> QED
      BY <2>1, <1>1, <1>3, <1>4
  <1>6. RemoveAt(s, i) = a \o b
    BY DEF RemoveAt
  <1>7. IsList(a \o b) /\ DOMAIN (a \o b) = 1..Len(s) - 1
    <2> HIDE DEF a, b, T
    <2> QED
      BY <1>5, ListIntro, LenProperties
  <1>8. ASSUME NEW k \in 1..Len(s) - 1 PROVE (a \o b)[k] = IF k < i THEN s[k] ELSE s[k + 1]
    <2> HIDE DEF a, b, T
    <2>1. CASE k < i
      BY <2>1, <1>1, <1>3, <1>5
    <2>2. CASE ~(k < i)
      <3>1. k - (i - 1) \in 1..Len(s) - i /\ (a \o b)[k] = b[k - (i - 1)] /\ i + (k - (i - 1)) = k + 1
        BY <2>2, <1>1, <1>5
      <3> QED
        BY <2>2, <3>1, <1>4
    <2> QED
      BY <2>1, <2>2
  <1>9. ToSet(a \o b) \subseteq ToSet(s)
    <2> HIDE DEF a, b, T
    <2>1. ASSUME NEW k \in 1..Len(s) - 1 PROVE (a \o b)[k] \in ToSet(s)
      <3>1. k \in DOMAIN s /\ k + 1 \in DOMAIN s
        BY <1>1
      <3> QED
        BY <3>1, <1>8 DEF ToSet
    <2> QED
      BY <2>1, <1>7 DEF ToSet
  <1> QED
    <2> HIDE DEF a, b, T
    <2> QED
      BY <1>6, <1>7, <1>8, <1>9

\* A sequence of the same length, as EXCEPT and Orphan make one.
LEMMA MapList ==
    ASSUME NEW s, IsList(s), NEW t, t = [i \in DOMAIN s |-> t[i]]
    PROVE  IsList(t) /\ DOMAIN t = DOMAIN s /\ Len(t) = Len(s)
  <1>1. Len(s) \in Nat /\ DOMAIN s = 1..Len(s)
    BY ListFacts
  <1>2. DOMAIN t = 1..Len(s)
    BY <1>1
  <1>3. t \in [1..Len(s) -> ToSet(t)]
    BY <1>1, <1>2 DEF ToSet
  <1>4. t \in Seq(ToSet(t))
    BY <1>1, <1>3, SeqDef
  <1> QED
    BY <1>1, <1>2, <1>4, ListFacts DEF IsList

-----------------------------------------------------------------------------
LEMMA NumberType ==
    ASSUME NEW s, IsList(s), NEW S
    PROVE  IsFiniteSet({i \in DOMAIN s : s[i].op \in S}) /\ Number(s, S) \in Nat
  <1>1. Len(s) \in Nat /\ DOMAIN s = 1..Len(s)
    BY ListFacts
  <1>2. IsFiniteSet(DOMAIN s)
    BY <1>1, FS_Interval
  <1>3. {i \in DOMAIN s : s[i].op \in S} \in SUBSET DOMAIN s
    OBVIOUS
  <1> QED
    BY <1>2, <1>3, FS_Subset, FS_CardinalityType DEF Number

LEMMA NumberNone ==
    ASSUME NEW s, IsList(s), NEW S
    PROVE  Number(s, S) = 0 <=> \A i \in DOMAIN s : s[i].op \notin S
  <1>1. IsFiniteSet({i \in DOMAIN s : s[i].op \in S})
    BY NumberType
  <1> QED
    BY <1>1, FS_EmptySet DEF Number

LEMMA NumberSame ==
    ASSUME NEW s, NEW t, NEW S, DOMAIN t = DOMAIN s,
           \A i \in DOMAIN s : s[i].op \in S <=> t[i].op \in S
    PROVE  Number(t, S) = Number(s, S)
  <1>1. {i \in DOMAIN t : t[i].op \in S} = {i \in DOMAIN s : s[i].op \in S}
    OBVIOUS
  <1> QED
    BY <1>1 DEF Number

LEMMA NumberOne ==
    ASSUME NEW c, NEW S
    PROVE  Number(<<c>>, S) = IF c.op \in S THEN 1 ELSE 0
  <1>1. DOMAIN <<c>> = {1} /\ <<c>>[1] = c
    BY OneList
  <1>2. {i \in DOMAIN <<c>> : <<c>>[i].op \in S} = IF c.op \in S THEN {1} ELSE {}
    BY <1>1
  <1> QED
    BY <1>2, FS_EmptySet, FS_Singleton DEF Number

\* Where there is one call of S, every call of S is that one.
LEMMA NumberUnique ==
    ASSUME NEW s, IsList(s), NEW S, Number(s, S) = 1,
           NEW i \in DOMAIN s, NEW j \in DOMAIN s, s[i].op \in S, s[j].op \in S
    PROVE  i = j
  <1>1. IsFiniteSet({k \in DOMAIN s : s[k].op \in S})
    BY NumberType
  <1>2. PICK x : {k \in DOMAIN s : s[k].op \in S} = {x}
    BY <1>1, FS_Singleton DEF Number
  <1> QED
    BY <1>2

LEMMA NumberJoin ==
    ASSUME NEW s, NEW t, IsList(s), IsList(t), NEW S
    PROVE  Number(s \o t, S) = Number(s, S) + Number(t, S)
  <1> DEFINE A == {i \in DOMAIN s : s[i].op \in S}
             B == {i \in DOMAIN t : t[i].op \in S}
             C == {i \in DOMAIN (s \o t) : (s \o t)[i].op \in S}
             D == C \ A
  <1>1. Len(s) \in Nat /\ DOMAIN s = 1..Len(s) /\ Len(t) \in Nat /\ DOMAIN t = 1..Len(t)
    BY ListFacts
  <1>2. /\ DOMAIN (s \o t) = 1..Len(s) + Len(t)
        /\ \A i \in DOMAIN (s \o t) : (s \o t)[i] = IF i <= Len(s) THEN s[i] ELSE t[i - Len(s)]
    BY JoinList, ListFacts
  <1>3. IsFiniteSet(A) /\ IsFiniteSet(B) /\ IsFiniteSet(C)
    BY JoinList, NumberType
  <1>4. A \subseteq C
    BY <1>1, <1>2
  <1>5. D = {i \in Len(s) + 1..Len(s) + Len(t) : t[i - Len(s)].op \in S}
    <2>1. ASSUME NEW i \in D PROVE i \in Len(s) + 1..Len(s) + Len(t) /\ t[i - Len(s)].op \in S
      BY <1>1, <1>2
    <2>2. ASSUME NEW i \in Len(s) + 1..Len(s) + Len(t), t[i - Len(s)].op \in S PROVE i \in D
      BY <2>2, <1>1, <1>2
    <2> QED
      BY <2>1, <2>2
  <1>6. ExistsBijection(B, D)
    <2> DEFINE f == [i \in B |-> i + Len(s)]
    <2>1. f \in [B -> D]
      BY <1>1, <1>5
    <2>2. IsInjective(f)
      BY <1>1 DEF IsInjective
    <2>3. ASSUME NEW k \in D PROVE \E i \in B : f[i] = k
      <3>1. k - Len(s) \in B /\ (k - Len(s)) + Len(s) = k
        BY <1>1, <1>5
      <3> QED
        BY <3>1
    <2>4. f \in Bijection(B, D)
      BY <2>1, <2>2, <2>3 DEF Bijection, Injection, Surjection
    <2> QED
      BY <2>4 DEF ExistsBijection
  <1>7. IsFiniteSet(D) /\ Cardinality(D) = Cardinality(B)
    BY <1>3, <1>6, FS_Bijection
  <1>8. C = A \cup D /\ A \cap D = {}
    BY <1>4
  <1> HIDE DEF A, B, C, D
  <1>9. Cardinality(A \cup D) = Cardinality(A) + Cardinality(D) - Cardinality(A \cap D)
    BY <1>3, <1>7, FS_Union
  <1>10. Cardinality(C) = Cardinality(A) + Cardinality(B)
    <2>1. Cardinality(A) \in Nat /\ Cardinality(D) \in Nat
      BY <1>3, <1>7, FS_CardinalityType
    <2> QED
      BY <2>1, <1>7, <1>8, <1>9, FS_EmptySet
  <1> QED
    BY <1>10 DEF A, B, C, Number

LEMMA NumberRemove ==
    ASSUME NEW s, IsList(s), NEW i \in DOMAIN s, NEW S
    PROVE  Number(RemoveAt(s, i), S) = Number(s, S) - IF s[i].op \in S THEN 1 ELSE 0
  <1> DEFINE r == RemoveAt(s, i)
             A == {k \in DOMAIN s : s[k].op \in S}
             B == {k \in DOMAIN r : r[k].op \in S}
             D == A \ {i}
  <1>1. Len(s) \in Nat /\ DOMAIN s = 1..Len(s) /\ i \in 1..Len(s)
    BY ListFacts
  <1>2. /\ IsList(r)
        /\ DOMAIN r = 1..Len(s) - 1
        /\ \A k \in DOMAIN r : r[k] = IF k < i THEN s[k] ELSE s[k + 1]
    BY RemoveList
  <1> HIDE DEF r
  <1>3. IsFiniteSet(A) /\ IsFiniteSet(B)
    BY <1>2, NumberType
  <1>4. ExistsBijection(B, D)
    <2> DEFINE f == [k \in B |-> IF k < i THEN k ELSE k + 1]
    <2>1. ASSUME NEW k \in B PROVE f[k] \in D
      BY <1>1, <1>2
    <2>2. f \in [B -> D]
      BY <2>1
    <2>3. ASSUME NEW j \in B, NEW k \in B, f[j] = f[k] PROVE j = k
      BY <2>3, <1>1, <1>2
    <2>4. ASSUME NEW k \in D PROVE \E j \in B : f[j] = k
      <3>1. CASE k < i
        <4>1. k \in B /\ f[k] = k
          BY <3>1, <1>1, <1>2
        <4> QED
          BY <4>1
      <3>2. CASE k > i
        <4>1. k - 1 \in 1..Len(s) - 1 /\ ~(k - 1 < i) /\ (k - 1) + 1 = k
          BY <3>2, <1>1
        <4>2. k - 1 \in B /\ f[k - 1] = k
          BY <4>1, <1>2
        <4> QED
          BY <4>2
      <3> QED
        BY <3>1, <3>2, <1>1
    <2>5. IsInjective(f)
      BY <2>2, <2>3 DEF IsInjective
    <2>6. f \in Bijection(B, D)
      BY <2>2, <2>5, <2>4 DEF Bijection, Injection, Surjection
    <2> QED
      BY <2>6 DEF ExistsBijection
  <1>5. Cardinality(D) = Cardinality(B)
    BY <1>3, <1>4, FS_Bijection, FS_RemoveElement
  <1>6. Cardinality(D) = IF i \in A THEN Cardinality(A) - 1 ELSE Cardinality(A)
    BY <1>3, FS_RemoveElement
  <1>7. Cardinality(A) \in Nat
    BY <1>3, FS_CardinalityType
  <1> QED
    BY <1>5, <1>6, <1>7 DEF Number, r
=============================================================================
