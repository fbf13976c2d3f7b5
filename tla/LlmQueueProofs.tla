--------------------------- MODULE LlmQueueProofs ---------------------------
(***************************************************************************)
(* Proofs about LlmQueue, for every set of groups, every limit and every   *)
(* number of jobs.                                                         *)
(***************************************************************************)
EXTENDS LlmQueue, SequenceTheorems, TLAPS

-----------------------------------------------------------------------------
(***************************************************************************)
(* Lists: what list.remove() and the loop of _promote do to increasing     *)
(* sequences of ids.                                                       *)
(***************************************************************************)

\* IsSorted(s, <), with its operator argument instantiated.
Increasing(s) == \A i, k \in 1..Len(s) : i < k => s[i] < s[k]

\* Removing place i shifts the rest of the list down by one.
LEMMA RemoveAtPlace ==
    ASSUME NEW S, NEW s \in Seq(S), NEW i \in 1..Len(s)
    PROVE  /\ RemoveAt(s, i) \in Seq(S)
           /\ Len(RemoveAt(s, i)) = Len(s) - 1
           /\ \A k \in 1..(Len(s) - 1) :
                 RemoveAt(s, i)[k] = IF k < i THEN s[k] ELSE s[k + 1]
  <1> DEFINE a == SubSeq(s, 1, i - 1)
             b == SubSeq(s, i + 1, Len(s))
  <1>1. /\ a \in Seq(S) /\ Len(a) = i - 1
        /\ \A k \in 1..(i - 1) : a[k] = s[k]
    <2>1. \A k \in 1..(i - 1) : s[k] \in S
      BY LenProperties
    <2>2. 1 \in Int /\ i - 1 \in Int
      BY LenProperties
    <2>3. QED
      BY <2>1, <2>2, SubSeqProperties, LenProperties
  <1>2. /\ b \in Seq(S) /\ Len(b) = Len(s) - i
        /\ \A k \in 1..(Len(s) - i) : b[k] = s[k + i]
    <2>1. \A k \in (i + 1)..Len(s) : s[k] \in S
      BY LenProperties
    <2>2. i + 1 \in Int /\ Len(s) \in Int
      BY LenProperties
    <2>3. QED
      BY <2>1, <2>2, SubSeqProperties, LenProperties
  <1>3. RemoveAt(s, i) = a \o b
    BY DEF RemoveAt
  <1>4. /\ a \o b \in Seq(S)
        /\ Len(a \o b) = Len(a) + Len(b)
        /\ \A k \in 1..(Len(a) + Len(b)) :
              (a \o b)[k] = IF k <= Len(a) THEN a[k] ELSE b[k - Len(a)]
    BY <1>1, <1>2, ConcatProperties
  <1> HIDE DEF a, b
  <1>5. QED
    BY <1>1, <1>2, <1>3, <1>4, LenProperties

\* In an increasing list the first occurrence of e is its only one.
LEMMA RemoveFirstPlace ==
    ASSUME NEW S \in SUBSET Nat, NEW s \in Seq(S), NEW e, Increasing(s),
           NEW i \in 1..Len(s), s[i] = e
    PROVE  RemoveFirst(s, e) = RemoveAt(s, i)
  <1> DEFINE I == {k \in 1..Len(s) : s[k] = e}
  <1>1. I = {i}
    <2>1. ASSUME NEW k \in 1..Len(s), s[k] = e PROVE k = i
      <3>1. k \in Int /\ i \in Int /\ s[k] \in Nat /\ s[i] \in Nat
        <4>1. Len(s) \in Nat
          BY LenProperties
        <4>2. s[k] \in S /\ s[i] \in S
          BY ElementOfSeq
        <4>3. k \in Int /\ i \in Int
          BY <4>1
        <4>4. s[k] \in Nat /\ s[i] \in Nat
          BY <4>2
        <4>5. QED
          BY <4>3, <4>4
      <3>2. ~(k < i) /\ ~(i < k)
        BY <2>1, <3>1 DEF Increasing
      <3>3. QED
        BY <3>1, <3>2
    <2>2. QED
      BY <2>1
  <1>2. Min(I) = i
    <2>1. Len(s) \in Nat
      BY LenProperties
    <2>2. i \in Int
      BY <2>1
    <2>3. \A x \in {i} : \A y \in {i} : x =< y
      BY <2>2
    <2>4. QED
      BY <1>1, <2>3 DEF Min
  <1>3. SelectInSeq(s, LAMBDA v : v = e) = i
    BY <1>1, <1>2 DEF SelectInSeq
  <1>4. QED
    BY <1>3 DEF RemoveFirst

\* Removing e from an increasing list keeps it increasing and removes e only.
LEMMA RemoveFirstIncreasing ==
    ASSUME NEW S \in SUBSET Nat, NEW s \in Seq(S), NEW e, Increasing(s)
    PROVE  /\ RemoveFirst(s, e) \in Seq(S)
           /\ Increasing(RemoveFirst(s, e))
           /\ Len(RemoveFirst(s, e)) <= Len(s)
           /\ \A x : Contains(RemoveFirst(s, e), x) <=> Contains(s, x) /\ x # e
  <1>0. Len(s) \in Nat /\ \A k \in 1..Len(s) : s[k] \in Nat
    <2>1. Len(s) \in Nat
      BY LenProperties
    <2>2. \A k \in 1..Len(s) : s[k] \in S
      BY ElementOfSeq
    <2>3. QED
      BY <2>1, <2>2
  <1>1. CASE ~Contains(s, e)
    <2>1. RemoveFirst(s, e) = s
      BY <1>1 DEF RemoveFirst, Contains
    <2>2. QED
      BY <1>0, <1>1, <2>1
  <1>2. CASE Contains(s, e)
    <2>1. PICK i \in 1..Len(s) : s[i] = e
      BY <1>2 DEF Contains
    <2> DEFINE t == RemoveAt(s, i)
    <2>2. RemoveFirst(s, e) = t
      BY <2>1, RemoveFirstPlace
    <2>3. /\ t \in Seq(S)
          /\ Len(t) = Len(s) - 1
          /\ \A k \in 1..(Len(s) - 1) : t[k] = IF k < i THEN s[k] ELSE s[k + 1]
      BY RemoveAtPlace
    <2> HIDE DEF t
    <2>4. Increasing(t)
      BY <1>0, <2>3, SMTT(30) DEF Increasing
    <2>5. ASSUME NEW x, Contains(t, x) PROVE Contains(s, x) /\ x # e
      <3>1. PICK k \in 1..(Len(s) - 1) : t[k] = x
        BY <2>3, <2>5 DEF Contains
      <3>2. CASE k < i
        <4>1. s[k] = x /\ k \in 1..Len(s) /\ s[k] < s[i]
          BY <1>0, <2>3, <3>1, <3>2 DEF Increasing
        <4>2. s[k] # s[i]
          BY <1>0, <4>1
        <4>3. QED
          BY <2>1, <4>1, <4>2 DEF Contains
      <3>3. CASE ~(k < i)
        <4>1. s[k + 1] = x /\ k + 1 \in 1..Len(s) /\ s[i] < s[k + 1]
          BY <1>0, <2>3, <3>1, <3>3 DEF Increasing
        <4>2. s[k + 1] # s[i]
          BY <1>0, <4>1
        <4>3. QED
          BY <2>1, <4>1, <4>2 DEF Contains
      <3>4. QED
        BY <3>2, <3>3
    <2>6. ASSUME NEW x, Contains(s, x), x # e PROVE Contains(t, x)
      <3>1. PICK k \in 1..Len(s) : s[k] = x
        BY <2>6 DEF Contains
      <3>2. k # i
        BY <2>1, <2>6, <3>1
      <3>3. CASE k < i
        BY <1>0, <2>3, <3>1, <3>3, SMTT(30) DEF Contains
      <3>4. CASE i < k
        <4>1. k - 1 \in 1..(Len(s) - 1) /\ ~(k - 1 < i) /\ (k - 1) + 1 = k
          BY <1>0, <3>4
        <4>2. t[k - 1] = x
          BY <2>3, <3>1, <4>1
        <4>3. QED
          BY <2>3, <4>1, <4>2 DEF Contains
      <3>5. QED
        BY <1>0, <3>2, <3>3, <3>4
    <2>7. QED
      BY <1>0, <2>2, <2>3, <2>4, <2>5, <2>6
  <1>3. QED
    BY <1>1, <1>2

\* The members of a concatenation are those of its parts.
LEMMA ContainsConcat ==
    ASSUME NEW S, NEW r \in Seq(S), NEW w \in Seq(S), NEW x
    PROVE  Contains(r \o w, x) <=> Contains(r, x) \/ Contains(w, x)
  <1>1. /\ Len(r) \in Nat /\ Len(w) \in Nat
        /\ Len(r \o w) = Len(r) + Len(w)
        /\ \A i \in 1..(Len(r) + Len(w)) :
              (r \o w)[i] = IF i <= Len(r) THEN r[i] ELSE w[i - Len(r)]
    BY LenProperties, ConcatProperties
  <1> DEFINE c == r \o w
  <1>2. /\ \A i \in 1..Len(r) : i \in 1..Len(c) /\ c[i] = r[i]
        /\ \A k \in 1..Len(w) : k + Len(r) \in 1..Len(c) /\ c[k + Len(r)] = w[k]
    <2>1. ASSUME NEW k \in 1..Len(w)
          PROVE  k + Len(r) \in 1..Len(c) /\ c[k + Len(r)] = w[k]
      <3>1. k + Len(r) \in 1..(Len(r) + Len(w)) /\ ~(k + Len(r) <= Len(r))
            /\ (k + Len(r)) - Len(r) = k
        BY <1>1
      <3>2. QED
        BY <1>1, <3>1
    <2>2. QED
      BY <1>1, <2>1
  <1>3. ASSUME NEW i \in 1..Len(c)
        PROVE  \/ i \in 1..Len(r) /\ c[i] = r[i]
               \/ i - Len(r) \in 1..Len(w) /\ c[i] = w[i - Len(r)]
    BY <1>1
  <1> HIDE DEF c
  <1>4. Contains(c, x) <=> Contains(r, x) \/ Contains(w, x)
    BY <1>2, <1>3 DEF Contains
  <1>5. QED
    BY <1>4 DEF c

\* An element appended to the second part is appended to the whole.
LEMMA AppendConcat ==
    ASSUME NEW S, NEW r \in Seq(S), NEW w \in Seq(S), NEW e \in S
    PROVE  r \o Append(w, e) = Append(r \o w, e)
  OBVIOUS

\* A concatenation is increasing when its parts are and the first lies below
\* the second.
LEMMA ConcatIncreasing ==
    ASSUME NEW S \in SUBSET Nat, NEW r \in Seq(S), NEW w \in Seq(S)
    PROVE  Increasing(r \o w) <=>
             /\ Increasing(r)
             /\ Increasing(w)
             /\ \A i \in 1..Len(r), k \in 1..Len(w) : r[i] < w[k]
  <1>1. /\ Len(r) \in Nat /\ Len(w) \in Nat
        /\ Len(r \o w) = Len(r) + Len(w)
        /\ \A i \in 1..(Len(r) + Len(w)) :
              (r \o w)[i] = IF i <= Len(r) THEN r[i] ELSE w[i - Len(r)]
    BY LenProperties, ConcatProperties
  <1> DEFINE c == r \o w
  <1>2. /\ \A i \in 1..Len(r) : i \in 1..Len(c) /\ c[i] = r[i]
        /\ \A k \in 1..Len(w) : k + Len(r) \in 1..Len(c) /\ c[k + Len(r)] = w[k]
    <2>1. ASSUME NEW k \in 1..Len(w)
          PROVE  k + Len(r) \in 1..Len(c) /\ c[k + Len(r)] = w[k]
      <3>1. k + Len(r) \in 1..(Len(r) + Len(w)) /\ ~(k + Len(r) <= Len(r))
            /\ (k + Len(r)) - Len(r) = k
        BY <1>1
      <3>2. QED
        BY <1>1, <3>1
    <2>2. QED
      BY <1>1, <2>1
  <1>3. ASSUME Increasing(c)
        PROVE  /\ Increasing(r)
               /\ Increasing(w)
               /\ \A i \in 1..Len(r), k \in 1..Len(w) : r[i] < w[k]
    <2> HIDE DEF c
    <2>1. Increasing(r)
      BY <1>1, <1>2, <1>3 DEF Increasing
    <2>2. ASSUME NEW i \in 1..Len(w), NEW k \in 1..Len(w), i < k
          PROVE  w[i] < w[k]
      <3>1. i + Len(r) < k + Len(r)
        BY <1>1, <2>2
      <3>2. QED
        BY <1>2, <1>3, <3>1 DEF Increasing
    <2>3. ASSUME NEW i \in 1..Len(r), NEW k \in 1..Len(w)
          PROVE  r[i] < w[k]
      <3>1. i < k + Len(r)
        BY <1>1
      <3>2. QED
        BY <1>2, <1>3, <3>1 DEF Increasing
    <2>4. QED
      BY <2>1, <2>2, <2>3 DEF Increasing
  <1>4. ASSUME Increasing(r), Increasing(w),
               \A i \in 1..Len(r), k \in 1..Len(w) : r[i] < w[k]
        PROVE  Increasing(c)
    <2>1. ASSUME NEW i \in 1..Len(c), NEW k \in 1..Len(c), i < k
          PROVE  c[i] < c[k]
      <3>1. CASE k <= Len(r)
        BY <1>1, <1>4, <2>1, <3>1 DEF Increasing
      <3>2. CASE i <= Len(r) /\ ~(k <= Len(r))
        <4>1. k - Len(r) \in 1..Len(w) /\ i \in 1..Len(r)
          BY <1>1, <3>2
        <4>2. QED
          BY <1>1, <1>4, <3>2, <4>1
      <3>3. CASE ~(i <= Len(r))
        <4>1. /\ k - Len(r) \in 1..Len(w) /\ i - Len(r) \in 1..Len(w)
              /\ i - Len(r) < k - Len(r) /\ ~(k <= Len(r))
          BY <1>1, <2>1, <3>3
        <4>2. w[i - Len(r)] < w[k - Len(r)]
          BY <1>4, <4>1 DEF Increasing
        <4>3. QED
          BY <1>1, <3>3, <4>1, <4>2
      <3>4. QED
        BY <1>1, <2>1, <3>1, <3>2, <3>3
    <2>2. QED
      BY <2>1 DEF Increasing
  <1>5. QED
    BY <1>3, <1>4

-----------------------------------------------------------------------------
(***************************************************************************)
(* _promote.                                                               *)
(***************************************************************************)

\* The loop of _promote cuts the line in two: the first part joins the slots,
\* which never exceed the limit, and a job stays behind only if they are full.
LEMMA PromoteLists ==
    ASSUME NEW g \in Groups, NEW r \in Seq(JobId), NEW w \in Seq(JobId),
           Len(r) <= Limit[g]
    PROVE  LET n  == NumPromoted(g, r, w)
               r1 == r \o SubSeq(w, 1, n)
               w1 == SubSeq(w, n + 1, Len(w))
           IN  /\ n \in 0..Len(w)
               /\ r1 \in Seq(JobId)
               /\ w1 \in Seq(JobId)
               /\ r1 \o w1 = r \o w
               /\ Len(r1) <= Limit[g]
               /\ w1 # <<>> => Len(r1) >= Limit[g]
               /\ r1 = SubSeq(r \o w, 1, IF Len(r \o w) < Limit[g]
                                         THEN Len(r \o w) ELSE Limit[g])
  <1> DEFINE n  == NumPromoted(g, r, w)
             a  == SubSeq(w, 1, n)
             w1 == SubSeq(w, n + 1, Len(w))
             r1 == r \o a
             m  == IF Len(r \o w) < Limit[g] THEN Len(r \o w) ELSE Limit[g]
  <1>1. Limit[g] \in Nat /\ Len(r) \in Nat /\ Len(w) \in Nat
    BY LimitAssumption, LenProperties
  <1>2. /\ n \in 0..Len(w)
        /\ Len(r) + n <= Limit[g]
        /\ n < Len(w) => Len(r) + n = Limit[g]
    BY <1>1 DEF NumPromoted
  <1> HIDE DEF n
  <1>3. \A k \in 1..Len(w) : w[k] \in JobId
    BY ElementOfSeq
  <1>4. /\ a \in Seq(JobId) /\ Len(a) = n
        /\ \A k \in 1..n : a[k] = w[k]
    <2>1. \A k \in 1..n : w[k] \in JobId
      BY <1>1, <1>2, <1>3
    <2>2. n \in Int /\ 1 \in Int
      BY <1>2
    <2>3. QED
      BY <1>2, <2>1, <2>2, SubSeqProperties
  <1>5. w1 \in Seq(JobId) /\ Len(w1) = Len(w) - n
    <2>1. \A k \in (n + 1)..Len(w) : w[k] \in JobId
      BY <1>1, <1>2, <1>3
    <2>2. n + 1 \in Int /\ Len(w) \in Int
      BY <1>1, <1>2
    <2>3. QED
      BY <1>1, <1>2, <2>1, <2>2, SubSeqProperties
  <1>6. a \o w1 = w
    <2>1. a \o w1 = SubSeq(w, 1, Len(w))
      <3>1. /\ 1 \in 1..(Len(w) + 1)
            /\ n \in (1 - 1)..Len(w)
            /\ Len(w) \in n..Len(w)
        BY <1>1, <1>2
      <3> HIDE DEF NumPromoted
      <3>2. QED
        BY <3>1, ConcatAdjacentSubSeq, Zenon
    <2>2. SubSeq(w, 1, Len(w)) = w
      BY SubSeqFull
    <2>3. QED
      BY <2>1, <2>2
  <1> HIDE DEF a, w1
  <1>7. r1 \in Seq(JobId) /\ Len(r1) = Len(r) + n
    BY <1>1, <1>4, ConcatProperties
  <1>8. r1 \o w1 = r \o w
    <2>1. (r \o a) \o w1 = r \o (a \o w1)
      <3>1. a \in Seq(JobId) /\ w1 \in Seq(JobId) /\ r \in Seq(JobId)
        BY <1>4, <1>5
      <3>2. QED
        BY ONLY <3>1
    <2>2. QED
      BY <1>6, <2>1
  <1>9. w1 # <<>> => Len(r1) >= Limit[g]
    <2>1. w1 # <<>> => Len(w1) # 0
      BY <1>5, EmptySeq
    <2>2. QED
      BY <1>1, <1>2, <1>5, <1>7, <2>1
  <1>10. r1 = SubSeq(r \o w, 1, m)
    <2>1. Len(r \o w) = Len(r) + Len(w)
      BY ConcatProperties
    <2>2. m = Len(r1)
      BY <1>1, <1>2, <1>7, <2>1
    <2>3. r \o w \in Seq(JobId)
      BY ConcatProperties
    <2> HIDE DEF m, r1
    <2>4. SubSeq(r1 \o w1, 1, Len(r1)) = r1
      <3>1. CASE Len(r1) = 0
        <4>1. r1 = <<>>
          BY <1>7, <3>1, EmptySeq
        <4>2. SubSeq(r1 \o w1, 1, 0) = <<>>
          BY SubSeqEmpty
        <4>3. QED
          BY <3>1, <4>1, <4>2
      <3>2. CASE Len(r1) # 0
        <4>1. Len(r1) \in 1..Len(r1) /\ 1 \in 1..Len(r1)
          BY <1>7, <3>2, LenProperties
        <4>2. SubSeq(r1 \o w1, 1, Len(r1)) = SubSeq(r1, 1, Len(r1))
          BY <1>5, <1>7, <4>1, SubSeqOfConcat1
        <4>3. QED
          BY <1>7, <4>2, SubSeqFull
      <3>3. QED
        BY <3>1, <3>2
    <2>5. QED
      BY <1>8, <2>2, <2>4
  <1>11. QED
    BY <1>1, <1>2, <1>5, <1>7, <1>8, <1>9, <1>10 DEF n, a, w1

\* The jobs that leave the line are the ones that join the slots.
LEMMA PromoteMembers ==
    ASSUME NEW g \in Groups, NEW r \in Seq(JobId), NEW w \in Seq(JobId),
           Len(r) <= Limit[g], Increasing(w)
    PROVE  LET n  == NumPromoted(g, r, w)
               up == {w[i] : i \in 1..n}
           IN  /\ \A x \in up : Contains(w, x)
               /\ \A x : Contains(r \o SubSeq(w, 1, n), x) <=> Contains(r, x) \/ x \in up
               /\ \A x : Contains(SubSeq(w, n + 1, Len(w)), x)
                            <=> Contains(w, x) /\ x \notin up
  <1> DEFINE n  == NumPromoted(g, r, w)
             up == {w[i] : i \in 1..n}
             a  == SubSeq(w, 1, n)
             w1 == SubSeq(w, n + 1, Len(w))
  <1>1. n \in 0..Len(w) /\ Len(w) \in Nat /\ Len(r) \in Nat
    BY PromoteLists, LenProperties
  <1> HIDE DEF n
  <1>2. \A k \in 1..Len(w) : w[k] \in JobId /\ w[k] \in Nat
    <2>1. \A k \in 1..Len(w) : w[k] \in JobId
      BY ElementOfSeq
    <2>2. QED
      BY <2>1, BoundAssumption DEF JobId
  <1>3. /\ a \in Seq(JobId) /\ Len(a) = n
        /\ \A k \in 1..n : a[k] = w[k]
    <2>1. \A k \in 1..n : w[k] \in JobId
      BY <1>1, <1>2
    <2>2. n \in Int /\ 1 \in Int
      BY <1>1
    <2>3. QED
      BY <1>1, <2>1, <2>2, SubSeqProperties
  <1>4. /\ Len(w1) = Len(w) - n
        /\ \A k \in 1..(Len(w) - n) : w1[k] = w[k + n]
    <2>1. \A k \in (n + 1)..Len(w) : w[k] \in JobId
      BY <1>1, <1>2
    <2>2. n + 1 \in Int /\ Len(w) \in Int
      BY <1>1
    <2>3. QED
      BY <1>1, <2>1, <2>2, SubSeqProperties
  <1> HIDE DEF a, w1
  <1>5. \A x \in up : Contains(w, x)
    BY <1>1 DEF Contains
  <1>6. ASSUME NEW x PROVE Contains(r \o a, x) <=> Contains(r, x) \/ x \in up
    <2>1. /\ Len(r \o a) = Len(r) + n
          /\ \A i \in 1..(Len(r) + n) :
                (r \o a)[i] = IF i <= Len(r) THEN r[i] ELSE a[i - Len(r)]
      BY <1>3, ConcatProperties
    <2>2. ASSUME Contains(r \o a, x) PROVE Contains(r, x) \/ x \in up
      <3>1. PICK i \in 1..(Len(r) + n) : (r \o a)[i] = x
        BY <2>1, <2>2 DEF Contains
      <3>2. CASE i <= Len(r)
        <4>1. i \in 1..Len(r) /\ r[i] = x
          BY <1>1, <2>1, <3>1, <3>2
        <4>2. QED
          BY <4>1 DEF Contains
      <3>3. CASE ~(i <= Len(r))
        <4>1. i - Len(r) \in 1..n
          BY <1>1, <3>3
        <4>2. x = w[i - Len(r)]
          BY <1>3, <2>1, <3>1, <3>3, <4>1
        <4>3. QED
          BY <4>1, <4>2
      <3>4. QED
        BY <3>2, <3>3
    <2>3. ASSUME Contains(r, x) PROVE Contains(r \o a, x)
      <3>1. PICK i \in 1..Len(r) : r[i] = x
        BY <2>3 DEF Contains
      <3>2. i \in 1..(Len(r) + n) /\ i <= Len(r)
        BY <1>1
      <3>3. QED
        BY <2>1, <3>1, <3>2 DEF Contains
    <2>4. ASSUME x \in up PROVE Contains(r \o a, x)
      <3>1. PICK i \in 1..n : w[i] = x
        BY <2>4
      <3>2. /\ i + Len(r) \in 1..(Len(r) + n) /\ ~(i + Len(r) <= Len(r))
            /\ (i + Len(r)) - Len(r) = i
        BY <1>1
      <3>3. (r \o a)[i + Len(r)] = x
        BY <1>3, <2>1, <3>1, <3>2
      <3>4. QED
        BY <2>1, <3>2, <3>3 DEF Contains
    <2>5. QED
      BY <2>2, <2>3, <2>4
  <1>7. ASSUME NEW x PROVE Contains(w1, x) <=> Contains(w, x) /\ x \notin up
    <2>1. ASSUME Contains(w1, x) PROVE Contains(w, x) /\ x \notin up
      <3>1. PICK k \in 1..(Len(w) - n) : w1[k] = x
        BY <1>4, <2>1 DEF Contains
      <3>2. k + n \in 1..Len(w) /\ w[k + n] = x
        BY <1>1, <1>4, <3>1
      <3>3. ASSUME NEW i \in 1..n PROVE w[i] # x
        <4>1. i < k + n /\ i \in 1..Len(w)
          BY <1>1
        <4>2. w[i] < w[k + n]
          BY <3>2, <4>1 DEF Increasing
        <4>3. QED
          BY <1>2, <3>2, <4>1, <4>2
      <3>4. QED
        BY <3>2, <3>3 DEF Contains
    <2>2. ASSUME Contains(w, x), x \notin up PROVE Contains(w1, x)
      <3>1. PICK i \in 1..Len(w) : w[i] = x
        BY <2>2 DEF Contains
      <3>2. ~(i <= n)
        BY <1>1, <2>2, <3>1
      <3>3. i - n \in 1..(Len(w) - n) /\ (i - n) + n = i
        BY <1>1, <3>2
      <3>4. w1[i - n] = x
        BY <1>4, <3>1, <3>3
      <3>5. QED
        BY <1>4, <3>3, <3>4 DEF Contains
    <2>3. QED
      BY <2>1, <2>2
  <1>8. QED
    BY <1>5, <1>6, <1>7 DEF n, a, w1

-----------------------------------------------------------------------------
(***************************************************************************)
(* The inductive invariant.                                                *)
(***************************************************************************)

\* Well-typed; bounded and work-conserving; ordered; and the lists, the
\* statuses, the futures and the owners agree.  Order is what makes removal
\* from a list well defined, agreement is what makes a release remove the
\* right job.
IInv ==
    /\ TypeOK
    /\ ConcurrencyLimit
    /\ WorkConserving
    /\ FifoOrder
    /\ SlotsAreOwned
    /\ FuturesAgree

\* The queue starts in the invariant.
LEMMA InitIInv == Init => IInv
  <1> SUFFICES ASSUME Init PROVE IInv
    OBVIOUS
  <1>1. TypeOK
    <2>1. (CHOOSE g \in Groups : TRUE) \in Groups
      BY GroupsAssumption
    <2>2. QED
      BY <2>1, BoundAssumption DEF Init, TypeOK, Status, PC
  <1>2. \A g \in Groups : running[g] = <<>> /\ waiting[g] = <<>>
    BY DEF Init
  <1>3. ConcurrencyLimit /\ WorkConserving
    BY <1>2, LimitAssumption DEF ConcurrencyLimit, WorkConserving
  <1>4. FifoOrder
    <2>1. Len(<<>> \o <<>>) = 0
      OBVIOUS
    <2>2. \A g \in Groups : Len(Present(g)) = 0
      BY <1>2, <2>1 DEF Present
    <2>3. QED
      BY <2>2 DEF FifoOrder, IsSorted
  <1>5. SlotsAreOwned
    <2>1. \A g \in Groups, j \in JobId : ~Contains(running[g], j) /\ ~Contains(waiting[g], j)
      BY <1>2 DEF Contains
    <2>2. QED
      BY <2>1 DEF Init, SlotsAreOwned
  <1>6. FuturesAgree
    BY BoundAssumption DEF Init, FuturesAgree, JobId, Released
  <1>7. QED
    BY <1>1, <1>3, <1>4, <1>5, <1>6 DEF IInv

-----------------------------------------------------------------------------
(***************************************************************************)
(* The step common to submit and release: the caller has computed the      *)
(* lists r and w of group g and the statuses st; _promote then runs.       *)
(***************************************************************************)

\* What holds of the lists and statuses when _promote starts.
ReadyToPromote(g, r, w, st) ==
    /\ r \in Seq(JobId)
    /\ w \in Seq(JobId)
    /\ Len(r) <= Limit[g]
    /\ Increasing(r \o w)
    /\ st \in [JobId -> Status]
    /\ \A x \in JobId :
          /\ Contains(r, x) <=> group'[x] = g /\ st[x] = "running"
          /\ Contains(w, x) <=> group'[x] = g /\ st[x] = "queued"
    /\ \A h \in Groups \ {g}, x \in JobId :
          /\ Contains(running[h], x) <=> group'[x] = h /\ st[x] = "running"
          /\ Contains(waiting[h], x) <=> group'[x] = h /\ st[x] = "queued"

\* _promote, applied to lists it may promote from, re-establishes the invariant
\* of the lists, the statuses and the futures.
LEMMA PromoteKeeps ==
    ASSUME IInv, NEW g \in Groups, NEW r, NEW w, NEW st, NEW fu,
           ReadyToPromote(g, r, w, st),
           fu \in [JobId -> {"pending", "set", "cancelled"}],
           Promote(g, r, w, st, fu)
    PROVE  /\ running' \in [Groups -> Seq(JobId)]
           /\ waiting' \in [Groups -> Seq(JobId)]
           /\ status' \in [JobId -> Status]
           /\ started' \in [JobId -> {"pending", "set", "cancelled"}]
           /\ ConcurrencyLimit'
           /\ WorkConserving'
           /\ FifoOrder'
           /\ \A h \in Groups, x \in JobId :
                 /\ Contains(running'[h], x) <=> group'[x] = h /\ status'[x] = "running"
                 /\ Contains(waiting'[h], x) <=> group'[x] = h /\ status'[x] = "queued"
           /\ \A x \in JobId :
                 \/ status'[x] = st[x] /\ started'[x] = fu[x]
                 \/ /\ st[x] = "queued" /\ status'[x] = "running"
                    /\ started'[x] = IF fu[x] = "pending" THEN "set" ELSE fu[x]
  <1> DEFINE n  == NumPromoted(g, r, w)
             up == {w[i] : i \in 1..n}
             r1 == r \o SubSeq(w, 1, n)
             w1 == SubSeq(w, n + 1, Len(w))
  <1>1. /\ r \in Seq(JobId) /\ w \in Seq(JobId) /\ Len(r) <= Limit[g]
        /\ Increasing(r \o w) /\ st \in [JobId -> Status]
    BY DEF ReadyToPromote
  <1>2. Increasing(w)
    <2>1. JobId \in SUBSET Nat
      BY BoundAssumption DEF JobId
    <2>2. QED
      BY <1>1, <2>1, ConcatIncreasing
  <1>3. /\ n \in 0..Len(w)
        /\ r1 \in Seq(JobId)
        /\ w1 \in Seq(JobId)
        /\ r1 \o w1 = r \o w
        /\ Len(r1) <= Limit[g]
        /\ w1 # <<>> => Len(r1) >= Limit[g]
    BY <1>1, PromoteLists
  <1>4. /\ \A x \in up : Contains(w, x)
        /\ \A x : Contains(r1, x) <=> Contains(r, x) \/ x \in up
        /\ \A x : Contains(w1, x) <=> Contains(w, x) /\ x \notin up
    BY <1>1, <1>2, PromoteMembers
  <1>5. /\ running' = [running EXCEPT ![g] = r1]
        /\ waiting' = [waiting EXCEPT ![g] = w1]
        /\ status' = [j \in JobId |-> IF j \in up THEN "running" ELSE st[j]]
        /\ started' = [j \in JobId |-> IF j \in up /\ fu[j] = "pending"
                                       THEN "set" ELSE fu[j]]
    BY DEF Promote
  <1> HIDE DEF n, up, r1, w1
  <1>6. running \in [Groups -> Seq(JobId)] /\ waiting \in [Groups -> Seq(JobId)]
    BY DEF IInv, TypeOK
  <1>7. /\ running'[g] = r1 /\ waiting'[g] = w1
        /\ \A h \in Groups \ {g} : running'[h] = running[h] /\ waiting'[h] = waiting[h]
    BY <1>5, <1>6
  <1>8. /\ running' \in [Groups -> Seq(JobId)]
        /\ waiting' \in [Groups -> Seq(JobId)]
    BY <1>3, <1>5, <1>6
  <1>9. status' \in [JobId -> Status]
    BY <1>1, <1>5 DEF Status
  <1>10. started' \in [JobId -> {"pending", "set", "cancelled"}]
    BY <1>5
  <1>11. ConcurrencyLimit'
    BY <1>3, <1>7 DEF IInv, ConcurrencyLimit
  <1>12. WorkConserving'
    BY <1>3, <1>7 DEF IInv, WorkConserving
  <1>13. FifoOrder'
    <2>1. \A h \in Groups : Increasing(running[h] \o waiting[h])
      BY DEF IInv, FifoOrder, Present, IsSorted, Increasing
    <2>2. Increasing(r1 \o w1)
      BY <1>1, <1>3
    <2>3. \A h \in Groups : Increasing(running'[h] \o waiting'[h])
      BY <1>7, <2>1, <2>2
    <2>4. QED
      BY <2>3 DEF FifoOrder, Present, IsSorted, Increasing
  <1>14. ASSUME NEW x \in up PROVE group'[x] = g /\ st[x] = "queued" /\ x \in JobId
    <2>1. Contains(w, x)
      BY <1>4
    <2>2. x \in JobId
      BY <1>1, <2>1, ElementOfSeq DEF Contains
    <2>3. QED
      BY <2>1, <2>2 DEF ReadyToPromote
  <1>15. ASSUME NEW h \in Groups, NEW x \in JobId
         PROVE  /\ Contains(running'[h], x) <=> group'[x] = h /\ status'[x] = "running"
                /\ Contains(waiting'[h], x) <=> group'[x] = h /\ status'[x] = "queued"
    <2>1. status'[x] = IF x \in up THEN "running" ELSE st[x]
      BY <1>5
    <2>2. CASE h = g
      <3>1. /\ Contains(r, x) <=> group'[x] = g /\ st[x] = "running"
            /\ Contains(w, x) <=> group'[x] = g /\ st[x] = "queued"
        BY DEF ReadyToPromote
      <3>2. QED
        BY <1>4, <1>7, <1>14, <2>1, <2>2, <3>1
    <2>3. CASE h # g
      <3>1. /\ Contains(running[h], x) <=> group'[x] = h /\ st[x] = "running"
            /\ Contains(waiting[h], x) <=> group'[x] = h /\ st[x] = "queued"
        BY <2>3 DEF ReadyToPromote
      <3>2. QED
        BY <1>7, <1>14, <2>1, <2>3, <3>1
    <2>4. QED
      BY <2>2, <2>3
  <1>16. ASSUME NEW x \in JobId
         PROVE  \/ status'[x] = st[x] /\ started'[x] = fu[x]
                \/ /\ st[x] = "queued" /\ status'[x] = "running"
                   /\ started'[x] = IF fu[x] = "pending" THEN "set" ELSE fu[x]
    BY <1>5, <1>14
  <1>17. QED
    BY <1>8, <1>9, <1>10, <1>11, <1>12, <1>13, <1>15, <1>16

\* The new job stands behind everybody: its id is larger than all present ones.
LEMMA SubmitReady ==
    ASSUME IInv, NEW g \in Groups, NEW s \in BOOLEAN, Submit(g, s)
    PROVE  ReadyToPromote(g, running[g], Append(waiting[g], lastId + 1),
                          [status EXCEPT ![lastId + 1] = "queued"])
  <1> DEFINE j  == lastId + 1
             r  == running[g]
             w  == waiting[g]
             w2 == Append(w, j)
             st == [status EXCEPT ![j] = "queued"]
  <1>1. /\ lastId \in Nat /\ j \in JobId
        /\ r \in Seq(JobId) /\ w \in Seq(JobId)
        /\ status \in [JobId -> Status] /\ group \in [JobId -> Groups]
        /\ JobId \in SUBSET Nat
    BY BoundAssumption DEF IInv, TypeOK, Submit, JobId
  <1>2. group' = [group EXCEPT ![j] = g]
    BY DEF Submit
  <1>3. status[j] = "none"
    BY <1>1 DEF IInv, FuturesAgree
  <1>4. \A x \in JobId : status[x] # "none" => x < j
    BY <1>1 DEF IInv, FuturesAgree
  <1> HIDE DEF j
  <1>5. /\ w2 \in Seq(JobId)
        /\ Len(w2) = Len(w) + 1
        /\ \A i \in 1..Len(w) : w2[i] = w[i]
        /\ w2[Len(w) + 1] = j
    BY <1>1, AppendProperties
  <1>6. Len(r) \in Nat /\ Len(w) \in Nat
    BY <1>1, LenProperties
  <1>7. \A h \in Groups, x \in JobId :
           /\ Contains(running[h], x) <=> group[x] = h /\ status[x] = "running"
           /\ Contains(waiting[h], x) <=> group[x] = h /\ status[x] = "queued"
    BY DEF IInv, SlotsAreOwned
  <1>8. /\ Increasing(r) /\ Increasing(w)
        /\ \A i \in 1..Len(r), k \in 1..Len(w) : r[i] < w[k]
    <2>1. Increasing(r \o w)
      BY DEF IInv, FifoOrder, Present, IsSorted, Increasing
    <2>2. QED
      BY <1>1, <2>1, ConcatIncreasing
  <1>9. /\ \A i \in 1..Len(r) : r[i] < j
        /\ \A i \in 1..Len(w) : w[i] < j
    <2>1. ASSUME NEW i \in 1..Len(r) PROVE r[i] < j
      <3>1. r[i] \in JobId /\ Contains(r, r[i])
        BY <1>1, ElementOfSeq DEF Contains
      <3>2. status[r[i]] = "running"
        BY <1>7, <3>1
      <3>3. QED
        BY <1>4, <3>1, <3>2
    <2>2. ASSUME NEW i \in 1..Len(w) PROVE w[i] < j
      <3>1. w[i] \in JobId /\ Contains(w, w[i])
        BY <1>1, ElementOfSeq DEF Contains
      <3>2. status[w[i]] = "queued"
        BY <1>7, <3>1
      <3>3. QED
        BY <1>4, <3>1, <3>2
    <2>3. QED
      BY <2>1, <2>2
  <1> HIDE DEF r, w, w2
  <1>10. Increasing(r \o w2)
    <2>1. Increasing(w2)
      <3>1. ASSUME NEW i \in 1..Len(w2), NEW k \in 1..Len(w2), i < k
            PROVE  w2[i] < w2[k]
        <4>1. CASE k <= Len(w)
          BY <1>5, <1>6, <1>8, <3>1, <4>1 DEF Increasing
        <4>2. CASE k = Len(w) + 1
          BY <1>5, <1>6, <1>9, <3>1, <4>2
        <4>3. QED
          BY <1>5, <1>6, <4>1, <4>2
      <3>2. QED
        BY <3>1 DEF Increasing
    <2>2. ASSUME NEW i \in 1..Len(r), NEW k \in 1..Len(w2)
          PROVE  r[i] < w2[k]
      <3>1. CASE k <= Len(w)
        BY <1>5, <1>6, <1>8, <3>1
      <3>2. CASE k = Len(w) + 1
        BY <1>5, <1>9, <3>2
      <3>3. QED
        BY <1>5, <1>6, <3>1, <3>2
    <2>3. QED
      BY <1>1, <1>5, <1>8, <2>1, <2>2, ConcatIncreasing
  <1>11. \A x : Contains(w2, x) <=> Contains(w, x) \/ x = j
    <2>1. ASSUME NEW x, Contains(w2, x) PROVE Contains(w, x) \/ x = j
      <3>1. PICK i \in 1..Len(w2) : w2[i] = x
        BY <2>1 DEF Contains
      <3>2. CASE i <= Len(w)
        BY <1>5, <1>6, <3>1, <3>2 DEF Contains
      <3>3. CASE i = Len(w) + 1
        BY <1>5, <3>1, <3>3
      <3>4. QED
        BY <1>5, <1>6, <3>2, <3>3
    <2>2. ASSUME NEW x, Contains(w, x) PROVE Contains(w2, x)
      BY <1>5, <1>6, <2>2 DEF Contains
    <2>3. Contains(w2, j)
      BY <1>5, <1>6 DEF Contains
    <2>4. QED
      BY <2>1, <2>2, <2>3
  <1>12. st \in [JobId -> Status]
    BY <1>1 DEF Status
  <1>13. /\ st[j] = "queued" /\ group'[j] = g
         /\ \A x \in JobId \ {j} : st[x] = status[x] /\ group'[x] = group[x]
    BY <1>1, <1>2
  <1> HIDE DEF st
  <1>14. \A x \in JobId :
            /\ Contains(r, x) <=> group'[x] = g /\ st[x] = "running"
            /\ Contains(w2, x) <=> group'[x] = g /\ st[x] = "queued"
    BY <1>3, <1>7, <1>11, <1>13 DEF r, w
  <1>15. \A h \in Groups \ {g}, x \in JobId :
            /\ Contains(running[h], x) <=> group'[x] = h /\ st[x] = "running"
            /\ Contains(waiting[h], x) <=> group'[x] = h /\ st[x] = "queued"
    BY <1>3, <1>7, <1>13
  <1>16. Len(r) <= Limit[g]
    BY DEF IInv, ConcurrencyLimit, r
  <1>17. QED
    BY <1>1, <1>5, <1>10, <1>12, <1>14, <1>15, <1>16 DEF ReadyToPromote, j, r, w, w2, st

\* A release takes its job out of both lists and leaves the others in order.
LEMMA ReleaseReady ==
    ASSUME IInv, NEW j \in JobId, NEW outcome \in Released, Release(j, outcome)
    PROVE  ReadyToPromote(group[j], RemoveFirst(running[group[j]], j),
                          RemoveFirst(waiting[group[j]], j),
                          [status EXCEPT ![j] = IF Contains(waiting[group[j]], j)
                                                THEN "cancelled" ELSE outcome])
  <1> DEFINE g  == group[j]
             r  == running[g]
             w  == waiting[g]
             r2 == RemoveFirst(r, j)
             w2 == RemoveFirst(w, j)
             st == [status EXCEPT ![j] = IF Contains(w, j) THEN "cancelled" ELSE outcome]
  <1>1. /\ g \in Groups /\ r \in Seq(JobId) /\ w \in Seq(JobId)
        /\ status \in [JobId -> Status] /\ group \in [JobId -> Groups]
        /\ JobId \in SUBSET Nat
    BY BoundAssumption DEF IInv, TypeOK, JobId
  <1>2. group' = group
    BY DEF Release
  <1>3. \A h \in Groups, x \in JobId :
           /\ Contains(running[h], x) <=> group[x] = h /\ status[x] = "running"
           /\ Contains(waiting[h], x) <=> group[x] = h /\ status[x] = "queued"
    BY DEF IInv, SlotsAreOwned
  <1>4. /\ Increasing(r) /\ Increasing(w)
        /\ \A i \in 1..Len(r), k \in 1..Len(w) : r[i] < w[k]
    <2>1. Increasing(r \o w)
      BY <1>1 DEF IInv, FifoOrder, Present, IsSorted, Increasing
    <2>2. QED
      BY <1>1, <2>1, ConcatIncreasing
  <1>5. Len(r) <= Limit[g]
    BY <1>1 DEF IInv, ConcurrencyLimit
  <1> HIDE DEF g, r, w
  <1>6. /\ r2 \in Seq(JobId) /\ Increasing(r2) /\ Len(r2) <= Len(r)
        /\ \A x : Contains(r2, x) <=> Contains(r, x) /\ x # j
    BY <1>1, <1>4, RemoveFirstIncreasing
  <1>7. /\ w2 \in Seq(JobId) /\ Increasing(w2)
        /\ \A x : Contains(w2, x) <=> Contains(w, x) /\ x # j
    BY <1>1, <1>4, RemoveFirstIncreasing
  <1> HIDE DEF r2, w2
  <1>8. Increasing(r2 \o w2)
    <2>1. ASSUME NEW i \in 1..Len(r2), NEW k \in 1..Len(w2) PROVE r2[i] < w2[k]
      <3>1. Contains(r2, r2[i]) /\ Contains(w2, w2[k])
        BY DEF Contains
      <3>2. Contains(r, r2[i]) /\ Contains(w, w2[k])
        BY <1>6, <1>7, <3>1
      <3>3. QED
        BY <1>4, <3>2 DEF Contains
    <2>2. QED
      BY <1>1, <1>6, <1>7, <2>1, ConcatIncreasing
  <1>9. Len(r2) <= Limit[g]
    <2>1. Len(r2) \in Nat /\ Len(r) \in Nat /\ Limit[g] \in Nat
      BY <1>1, <1>6, LimitAssumption, LenProperties
    <2>2. QED
      BY <1>5, <1>6, <2>1
  <1>10. st \in [JobId -> Status]
    BY <1>1 DEF Status, Released
  <1>11. /\ st[j] \in Released
         /\ \A x \in JobId \ {j} : st[x] = status[x]
    BY <1>1 DEF Released
  <1> HIDE DEF st
  <1>12. \A x \in JobId :
            /\ Contains(r2, x) <=> group'[x] = g /\ st[x] = "running"
            /\ Contains(w2, x) <=> group'[x] = g /\ st[x] = "queued"
    <2>1. st[j] # "running" /\ st[j] # "queued"
      BY <1>11 DEF Released
    <2>2. QED
      BY <1>1, <1>2, <1>3, <1>6, <1>7, <1>11, <2>1 DEF r, w
  <1>13. \A h \in Groups \ {g}, x \in JobId :
            /\ Contains(running[h], x) <=> group'[x] = h /\ st[x] = "running"
            /\ Contains(waiting[h], x) <=> group'[x] = h /\ st[x] = "queued"
    <2>1. \A h \in Groups \ {g} : group[j] # h
      BY DEF g
    <2>2. QED
      BY <1>2, <1>3, <1>11, <2>1
  <1>14. QED
    BY <1>6, <1>7, <1>8, <1>9, <1>10, <1>12, <1>13 DEF ReadyToPromote, g, r, w, r2, w2, st

-----------------------------------------------------------------------------
(***************************************************************************)
(* Every step preserves the invariant.                                     *)
(***************************************************************************)

\* submit() keeps the invariant.
LEMMA SubmitKeeps ==
    ASSUME IInv, NEW g \in Groups, NEW s \in BOOLEAN, Submit(g, s)
    PROVE  IInv'
  <1> DEFINE j  == lastId + 1
             w  == Append(waiting[g], j)
             st == [status EXCEPT ![j] = "queued"]
  <1>1. /\ lastId \in Nat /\ j \in JobId /\ lastId' = j /\ j \in 0..MaxJobs
        /\ group' = [group EXCEPT ![j] = g]
        /\ streamed' = [streamed EXCEPT ![j] = s]
        /\ pc' = [pc EXCEPT ![j] = IF started'[j] = "set" THEN "vendor"
                                   ELSE IF s THEN "atQueued" ELSE "waiting"]
        /\ recent' = recent
    BY BoundAssumption DEF IInv, TypeOK, Submit, JobId
  <1>2. ReadyToPromote(g, running[g], w, st)
    BY SubmitReady
  <1>3. Promote(g, running[g], w, st, started)
    BY DEF Submit
  <1>4. started \in [JobId -> {"pending", "set", "cancelled"}]
    BY DEF IInv, TypeOK
  <1>5. status[j] = "none" /\ started[j] = "pending"
    BY <1>1 DEF IInv, FuturesAgree
  <1>6. status \in [JobId -> Status] /\ pc \in [JobId -> PC] /\ group \in [JobId -> Groups]
    BY DEF IInv, TypeOK
  <1>7. st[j] = "queued" /\ \A x \in JobId \ {j} : st[x] = status[x]
    BY <1>1, <1>6
  <1> HIDE DEF w, st
  <1>8. /\ running' \in [Groups -> Seq(JobId)]
        /\ waiting' \in [Groups -> Seq(JobId)]
        /\ status' \in [JobId -> Status]
        /\ started' \in [JobId -> {"pending", "set", "cancelled"}]
        /\ ConcurrencyLimit' /\ WorkConserving' /\ FifoOrder'
        /\ \A h \in Groups, x \in JobId :
              /\ Contains(running'[h], x) <=> group'[x] = h /\ status'[x] = "running"
              /\ Contains(waiting'[h], x) <=> group'[x] = h /\ status'[x] = "queued"
        /\ \A x \in JobId :
              \/ status'[x] = st[x] /\ started'[x] = started[x]
              \/ /\ st[x] = "queued" /\ status'[x] = "running"
                 /\ started'[x] = IF started[x] = "pending" THEN "set" ELSE started[x]
    BY <1>2, <1>3, <1>4, PromoteKeeps
  <1>9. TypeOK'
    BY <1>1, <1>6, <1>8 DEF IInv, TypeOK, PC, AtAwait, AtYield
  <1>10. /\ \/ status'[j] = "queued" /\ started'[j] = "pending"
            \/ status'[j] = "running" /\ started'[j] = "set"
         /\ pc'[j] = IF started'[j] = "set" THEN "vendor"
                     ELSE IF s THEN "atQueued" ELSE "waiting"
    BY <1>1, <1>5, <1>6, <1>7, <1>8
  <1>11. ASSUME NEW x \in JobId, x # j
         PROVE  /\ pc'[x] = pc[x]
                /\ \/ status'[x] = status[x] /\ started'[x] = started[x]
                   \/ /\ status[x] = "queued" /\ status'[x] = "running"
                      /\ started'[x] = IF started[x] = "pending" THEN "set" ELSE started[x]
    <2>1. pc'[x] = pc[x]
      BY <1>1, <1>6, <1>11
    <2>2. st[x] = status[x]
      BY <1>7, <1>11
    <2>3. \/ status'[x] = st[x] /\ started'[x] = started[x]
          \/ /\ st[x] = "queued" /\ status'[x] = "running"
             /\ started'[x] = IF started[x] = "pending" THEN "set" ELSE started[x]
      BY <1>8
    <2>4. QED
      BY <2>1, <2>2, <2>3
  <1>12. SlotsAreOwned'
    <2>1. ASSUME NEW x \in JobId
          PROVE  status'[x] \in {"queued", "running"} <=> pc'[x] \notin {"none", "finished"}
      <3>1. CASE x = j
        BY <1>10, <3>1
      <3>2. CASE x # j
        <4>1. status[x] \in {"queued", "running"} <=> pc[x] \notin {"none", "finished"}
          BY DEF IInv, SlotsAreOwned
        <4>2. QED
          BY <1>11, <3>2, <4>1
      <3>3. QED
        BY <3>1, <3>2
    <2>2. QED
      BY <1>8, <2>1 DEF SlotsAreOwned
  <1>13. FuturesAgree'
    <2>1. ASSUME NEW x \in JobId
          PROVE  /\ status'[x] = "none" <=> x > lastId'
                 /\ status'[x] = "none" <=> pc'[x] = "none"
                 /\ status'[x] \in {"none", "queued"} => started'[x] = "pending"
                 /\ status'[x] = "running" => started'[x] = "set"
                 /\ status'[x] \in Released => started'[x] # "pending"
                 /\ pc'[x] \in {"vendor", "atDelta", "atDone"} => status'[x] = "running"
      <3>1. CASE x = j
        BY <1>1, <1>10, <3>1 DEF Released
      <3>2. CASE x # j
        <4>1. /\ status[x] = "none" <=> x > lastId
              /\ status[x] = "none" <=> pc[x] = "none"
              /\ status[x] \in {"none", "queued"} => started[x] = "pending"
              /\ status[x] = "running" => started[x] = "set"
              /\ status[x] \in Released => started[x] # "pending"
              /\ pc[x] \in {"vendor", "atDelta", "atDone"} => status[x] = "running"
          BY DEF IInv, FuturesAgree
        <4>2. x > lastId <=> x > lastId'
          BY <1>1, <3>2 DEF JobId
        <4>3. QED
          BY <1>11, <3>2, <4>1, <4>2 DEF Released
      <3>3. QED
        BY <3>1, <3>2
    <2>2. QED
      BY <2>1 DEF FuturesAgree
  <1>14. QED
    BY <1>8, <1>9, <1>12, <1>13 DEF IInv

\* release() keeps the invariant, from wherever its owner calls it.
LEMMA ReleaseKeeps ==
    ASSUME IInv, NEW j \in JobId, NEW outcome \in Released,
           Release(j, outcome), pc[j] # "none"
    PROVE  IInv'
  <1> DEFINE g  == group[j]
             st == [status EXCEPT ![j] = IF Contains(waiting[g], j)
                                         THEN "cancelled" ELSE outcome]
             fu == [started EXCEPT ![j] = IF @ = "pending" THEN "cancelled" ELSE @]
  <1>1. /\ group' = group /\ streamed' = streamed /\ lastId' = lastId
        /\ pc' = [pc EXCEPT ![j] = "finished"]
        /\ recent' = PushRecent(recent, j, RecentMax)
    BY DEF Release
  <1>2. ReadyToPromote(g, RemoveFirst(running[g], j), RemoveFirst(waiting[g], j), st)
    BY ReleaseReady
  <1>3. Promote(g, RemoveFirst(running[g], j), RemoveFirst(waiting[g], j), st, fu)
    BY DEF Release
  <1>4. /\ started \in [JobId -> {"pending", "set", "cancelled"}]
        /\ status \in [JobId -> Status] /\ pc \in [JobId -> PC] /\ g \in Groups
    BY DEF IInv, TypeOK
  <1>5. fu \in [JobId -> {"pending", "set", "cancelled"}]
    BY <1>4
  <1>6. /\ st[j] \in Released /\ fu[j] # "pending"
        /\ \A x \in JobId \ {j} : st[x] = status[x] /\ fu[x] = started[x]
    BY <1>4 DEF Released
  <1> HIDE DEF g, st, fu
  <1>7. /\ running' \in [Groups -> Seq(JobId)]
        /\ waiting' \in [Groups -> Seq(JobId)]
        /\ status' \in [JobId -> Status]
        /\ started' \in [JobId -> {"pending", "set", "cancelled"}]
        /\ ConcurrencyLimit' /\ WorkConserving' /\ FifoOrder'
        /\ \A h \in Groups, x \in JobId :
              /\ Contains(running'[h], x) <=> group'[x] = h /\ status'[x] = "running"
              /\ Contains(waiting'[h], x) <=> group'[x] = h /\ status'[x] = "queued"
        /\ \A x \in JobId :
              \/ status'[x] = st[x] /\ started'[x] = fu[x]
              \/ /\ st[x] = "queued" /\ status'[x] = "running"
                 /\ started'[x] = IF fu[x] = "pending" THEN "set" ELSE fu[x]
    BY <1>2, <1>3, <1>4, <1>5, PromoteKeeps
  <1>8. recent' \in Seq(JobId)
    <2>1. recent \in Seq(JobId)
      BY DEF IInv, TypeOK
    <2>2. CASE Len(recent) < RecentMax
      BY <1>1, <2>1, <2>2, AppendProperties DEF PushRecent
    <2>3. CASE ~(Len(recent) < RecentMax)
      <3>1. recent # <<>>
        BY <2>1, <2>3, BoundAssumption
      <3>2. Tail(recent) \in Seq(JobId)
        BY <2>1, <3>1, HeadTailProperties
      <3>3. QED
        BY <1>1, <2>3, <3>2, AppendProperties DEF PushRecent
    <2>4. QED
      BY <2>2, <2>3
  <1>9. TypeOK'
    BY <1>1, <1>4, <1>7, <1>8 DEF IInv, TypeOK, PC
  <1>10. status'[j] \in Released /\ started'[j] # "pending" /\ pc'[j] = "finished"
    BY <1>1, <1>4, <1>6, <1>7 DEF Released
  <1>11. ASSUME NEW x \in JobId, x # j
         PROVE  /\ pc'[x] = pc[x]
                /\ \/ status'[x] = status[x] /\ started'[x] = started[x]
                   \/ /\ status[x] = "queued" /\ status'[x] = "running"
                      /\ started'[x] = IF started[x] = "pending" THEN "set" ELSE started[x]
    <2>1. pc'[x] = pc[x]
      BY <1>1, <1>4, <1>11
    <2>2. st[x] = status[x] /\ fu[x] = started[x]
      BY <1>6, <1>11
    <2>3. \/ status'[x] = st[x] /\ started'[x] = fu[x]
          \/ /\ st[x] = "queued" /\ status'[x] = "running"
             /\ started'[x] = IF fu[x] = "pending" THEN "set" ELSE fu[x]
      BY <1>7
    <2>4. QED
      BY <2>1, <2>2, <2>3
  <1>12. SlotsAreOwned'
    <2>1. ASSUME NEW x \in JobId
          PROVE  status'[x] \in {"queued", "running"} <=> pc'[x] \notin {"none", "finished"}
      <3>1. CASE x = j
        BY <1>10, <3>1 DEF Released
      <3>2. CASE x # j
        <4>1. status[x] \in {"queued", "running"} <=> pc[x] \notin {"none", "finished"}
          BY DEF IInv, SlotsAreOwned
        <4>2. QED
          BY <1>11, <3>2, <4>1
      <3>3. QED
        BY <3>1, <3>2
    <2>2. QED
      BY <1>7, <2>1 DEF SlotsAreOwned
  <1>13. FuturesAgree'
    <2>1. ASSUME NEW x \in JobId
          PROVE  /\ status'[x] = "none" <=> x > lastId'
                 /\ status'[x] = "none" <=> pc'[x] = "none"
                 /\ status'[x] \in {"none", "queued"} => started'[x] = "pending"
                 /\ status'[x] = "running" => started'[x] = "set"
                 /\ status'[x] \in Released => started'[x] # "pending"
                 /\ pc'[x] \in {"vendor", "atDelta", "atDone"} => status'[x] = "running"
      <3>1. /\ status[x] = "none" <=> x > lastId
            /\ status[x] = "none" <=> pc[x] = "none"
            /\ status[x] \in {"none", "queued"} => started[x] = "pending"
            /\ status[x] = "running" => started[x] = "set"
            /\ status[x] \in Released => started[x] # "pending"
            /\ pc[x] \in {"vendor", "atDelta", "atDone"} => status[x] = "running"
        BY DEF IInv, FuturesAgree
      <3>2. CASE x = j
        BY <1>1, <1>10, <3>1, <3>2 DEF Released
      <3>3. CASE x # j
        BY <1>1, <1>11, <3>1, <3>3 DEF Released
      <3>4. QED
        BY <3>2, <3>3
    <2>2. QED
      BY <2>1 DEF FuturesAgree
  <1>14. QED
    BY <1>7, <1>9, <1>12, <1>13 DEF IInv

\* Steps that only move the owner of a job between two suspension points.
LEMMA MoveKeeps ==
    ASSUME IInv, NEW j \in JobId, NEW to \in PC \ {"none", "finished"},
           pc[j] \notin {"none", "finished"},
           to \in {"vendor", "atDelta", "atDone"} => status[j] = "running",
           pc' = [pc EXCEPT ![j] = to], QueueUnchanged
    PROVE  IInv'
  <1>1. /\ lastId' = lastId /\ group' = group /\ streamed' = streamed
        /\ status' = status /\ started' = started
        /\ waiting' = waiting /\ running' = running /\ recent' = recent
    BY DEF QueueUnchanged
  <1>2. pc \in [JobId -> PC]
    BY DEF IInv, TypeOK
  <1>3. TypeOK'
    BY <1>1, <1>2 DEF IInv, TypeOK
  <1>4. ConcurrencyLimit' /\ WorkConserving'
    BY <1>1 DEF IInv, ConcurrencyLimit, WorkConserving
  <1>5. FifoOrder'
    BY <1>1 DEF IInv, FifoOrder, Present, IsSorted
  <1>6. SlotsAreOwned'
    <2>1. ASSUME NEW x \in JobId
          PROVE  status[x] \in {"queued", "running"} <=> pc'[x] \notin {"none", "finished"}
      BY <1>2 DEF IInv, SlotsAreOwned
    <2>2. QED
      BY <1>1, <2>1 DEF IInv, SlotsAreOwned
  <1>7. FuturesAgree'
    <2>1. ASSUME NEW x \in JobId
          PROVE  /\ status[x] = "none" <=> x > lastId
                 /\ status[x] = "none" <=> pc'[x] = "none"
                 /\ status[x] \in {"none", "queued"} => started[x] = "pending"
                 /\ status[x] = "running" => started[x] = "set"
                 /\ status[x] \in Released => started[x] # "pending"
                 /\ pc'[x] \in {"vendor", "atDelta", "atDone"} => status[x] = "running"
      <3>1. CASE x = j
        BY <1>2, <3>1 DEF IInv, FuturesAgree
      <3>2. CASE x # j
        BY <1>2, <3>2 DEF IInv, FuturesAgree
      <3>3. QED
        BY <3>1, <3>2
    <2>2. QED
      BY <1>1, <2>1 DEF FuturesAgree
  <1>8. QED
    BY <1>3, <1>4, <1>5, <1>6, <1>7 DEF IInv

\* A job whose future is set and whose owner is not done holds a slot.
LEMMA SetMeansRunning ==
    ASSUME IInv, NEW j \in JobId, started[j] = "set", pc[j] \notin {"none", "finished"}
    PROVE  status[j] = "running"
  BY DEF IInv, SlotsAreOwned, FuturesAgree

\* Every step keeps the invariant.
LEMMA NextIInv == IInv /\ [Next]_vars => IInv'
  <1> SUFFICES ASSUME IInv, [Next]_vars PROVE IInv'
    OBVIOUS
  <1> USE DEF Goto
  <1>0. \A j \in JobId : pc[j] \in {"vendor", "atDelta", "atDone"} => status[j] = "running"
    BY DEF IInv, FuturesAgree
  <1>1. ASSUME NEW g \in Groups, NEW s \in BOOLEAN, Submit(g, s) PROVE IInv'
    BY <1>1, SubmitKeeps
  <1>2. ASSUME NEW j \in JobId, Wake(j) PROVE IInv'
    BY <1>2, SetMeansRunning, MoveKeeps DEF Wake, PC, AtAwait, AtYield
  <1>3. ASSUME NEW j \in JobId, KeepAlive(j) PROVE IInv'
    BY <1>3, MoveKeeps DEF KeepAlive, PC, AtAwait, AtYield
  <1>4. ASSUME NEW j \in JobId, QueuedSent(j) PROVE IInv'
    BY <1>4, SetMeansRunning, MoveKeeps DEF QueuedSent, PC, AtAwait, AtYield
  <1>5. ASSUME NEW j \in JobId, Delta(j) PROVE IInv'
    BY <1>0, <1>5, MoveKeeps DEF Delta, PC, AtAwait, AtYield
  <1>6. ASSUME NEW j \in JobId, DeltaSent(j) PROVE IInv'
    BY <1>0, <1>6, MoveKeeps DEF DeltaSent, PC, AtAwait, AtYield
  <1>7. ASSUME NEW j \in JobId, VendorReply(j) PROVE IInv'
    BY <1>7, ReleaseKeeps DEF VendorReply, Released
  <1>8. ASSUME NEW j \in JobId, StreamEnd(j) PROVE IInv'
    BY <1>0, <1>8, MoveKeeps DEF StreamEnd, PC, AtAwait, AtYield
  <1>9. ASSUME NEW j \in JobId, DoneSent(j) PROVE IInv'
    BY <1>9, ReleaseKeeps DEF DoneSent, Released
  <1>10. ASSUME NEW j \in JobId, VendorError(j) PROVE IInv'
    BY <1>10, ReleaseKeeps DEF VendorError, Released
  <1>11. ASSUME NEW j \in JobId, Cancel(j) PROVE IInv'
    BY <1>11, ReleaseKeeps DEF Cancel, AtAwait, Released
  <1>12. ASSUME NEW j \in JobId, Disconnect(j) PROVE IInv'
    BY <1>12, MoveKeeps DEF Disconnect, PC, AtAwait, AtYield
  <1>13. ASSUME NEW j \in JobId, Finalize(j) PROVE IInv'
    BY <1>13, ReleaseKeeps DEF Finalize, Released
  <1>14. CASE UNCHANGED vars
    BY <1>14 DEF vars, IInv, TypeOK, ConcurrencyLimit, WorkConserving, FifoOrder,
                 Present, IsSorted, SlotsAreOwned, FuturesAgree
  <1>15. QED
    BY <1>1, <1>2, <1>3, <1>4, <1>5, <1>6, <1>7, <1>8, <1>9, <1>10, <1>11, <1>12,
       <1>13, <1>14 DEF Next

\* The invariant holds in every reachable state of the queue.
THEOREM Invariance == Spec => []IInv
  BY InitIInv, NextIInv, PTL DEF Spec

\* Every reachable state is well typed.
THEOREM TypeCorrect == Spec => []TypeOK
  <1>1. IInv => TypeOK
    BY DEF IInv
  <1>2. QED
    BY <1>1, Invariance, PTL

\* No group ever holds more slots than its limit allows (_promote, _limit).
THEOREM LimitRespected == Spec => []ConcurrencyLimit
  <1>1. IInv => ConcurrencyLimit
    BY DEF IInv
  <1>2. QED
    BY <1>1, Invariance, PTL

\* A job waits only while its group's slots are all taken.
THEOREM NoIdleSlot == Spec => []WorkConserving
  <1>1. IInv => WorkConserving
    BY DEF IInv
  <1>2. QED
    BY <1>1, Invariance, PTL

\* The jobs of a group are held in the order of their submission, once each.
THEOREM FirstComeFirstServed == Spec => []FifoOrder
  <1>1. IInv => FifoOrder
    BY DEF IInv
  <1>2. QED
    BY <1>1, Invariance, PTL

\* No slot is leaked: each one belongs to a coroutine that has yet to release it.
THEOREM NoLeakedSlot == Spec => []SlotsAreOwned
  <1>1. IInv => SlotsAreOwned
    BY DEF IInv
  <1>2. QED
    BY <1>1, Invariance, PTL

\* No coroutine waits for a future that nobody can resolve.
THEOREM NoForgottenWaiter == Spec => []NoLostWakeup
  <1>1. IInv => NoLostWakeup
    <2> SUFFICES ASSUME IInv, NEW j \in Submitted
                 PROVE  started[j] = "pending" <=> Contains(waiting[group[j]], j)
      BY DEF NoLostWakeup
    <2>1. j \in JobId /\ status[j] # "none" /\ group[j] \in Groups
      BY BoundAssumption DEF IInv, TypeOK, FuturesAgree, Submitted, JobId
    <2>2. status[j] \in {"queued", "running"} \cup Released
      BY <2>1 DEF IInv, TypeOK, Status
    <2>3. QED
      BY <2>1, <2>2 DEF IInv, SlotsAreOwned, FuturesAgree
  <1>2. QED
    BY <1>1, Invariance, PTL

\* A vendor is only ever called by the holder of a slot.
THEOREM CallsHoldSlots == Spec => []VendorHoldsSlot
  <1>1. IInv => VendorHoldsSlot
    BY DEF IInv, TypeOK, SlotsAreOwned, FuturesAgree, VendorHoldsSlot
  <1>2. QED
    BY <1>1, Invariance, PTL

-----------------------------------------------------------------------------
(***************************************************************************)
(* The queue implements the gate: it always serves the oldest jobs.        *)
(***************************************************************************)

\* Taking a job out of either list takes one place out of their concatenation.
LEMMA RemoveFromConcat ==
    ASSUME NEW S, NEW r \in Seq(S), NEW w \in Seq(S)
    PROVE  /\ \A i \in 1..Len(r) : RemoveAt(r, i) \o w = RemoveAt(r \o w, i)
           /\ \A i \in 1..Len(w) : r \o RemoveAt(w, i) = RemoveAt(r \o w, Len(r) + i)
  <1>1. /\ Len(r) \in Nat /\ Len(w) \in Nat /\ r \o w \in Seq(S)
        /\ Len(r \o w) = Len(r) + Len(w)
        /\ \A k \in 1..(Len(r) + Len(w)) :
              (r \o w)[k] = IF k <= Len(r) THEN r[k] ELSE w[k - Len(r)]
    BY LenProperties, ConcatProperties
  <1>2. ASSUME NEW i \in 1..Len(r)
        PROVE  RemoveAt(r, i) \o w = RemoveAt(r \o w, i)
    <2> DEFINE t == RemoveAt(r, i)
               u == RemoveAt(r \o w, i)
    <2>1. /\ t \in Seq(S) /\ Len(t) = Len(r) - 1
          /\ \A k \in 1..(Len(r) - 1) : t[k] = IF k < i THEN r[k] ELSE r[k + 1]
      BY RemoveAtPlace
    <2>2. /\ u \in Seq(S) /\ Len(u) = Len(r) + Len(w) - 1
          /\ \A k \in 1..(Len(r) + Len(w) - 1) :
                u[k] = IF k < i THEN (r \o w)[k] ELSE (r \o w)[k + 1]
      <3>1. i \in 1..Len(r \o w)
        BY <1>1
      <3>2. /\ u \in Seq(S) /\ Len(u) = Len(r \o w) - 1
            /\ \A k \in 1..(Len(r \o w) - 1) :
                  u[k] = IF k < i THEN (r \o w)[k] ELSE (r \o w)[k + 1]
        BY <1>1, <3>1, RemoveAtPlace
      <3> HIDE DEF u
      <3>3. Len(r \o w) - 1 = Len(r) + Len(w) - 1
        BY <1>1
      <3>4. QED
        BY <3>2, <3>3
    <2> HIDE DEF t, u
    <2>3. /\ t \o w \in Seq(S) /\ Len(t \o w) = Len(r) + Len(w) - 1
          /\ \A k \in 1..(Len(r) + Len(w) - 1) :
                (t \o w)[k] = IF k <= Len(r) - 1 THEN t[k] ELSE w[k - (Len(r) - 1)]
      <3>1. /\ t \o w \in Seq(S) /\ Len(t \o w) = Len(t) + Len(w)
            /\ \A k \in 1..(Len(t) + Len(w)) :
                  (t \o w)[k] = IF k <= Len(t) THEN t[k] ELSE w[k - Len(t)]
        BY <2>1, ConcatProperties
      <3>2. Len(t) + Len(w) = Len(r) + Len(w) - 1 /\ Len(t) = Len(r) - 1
        BY <1>1, <2>1
      <3>3. QED
        BY <3>1, <3>2
    <2>4. ASSUME NEW k \in 1..(Len(r) + Len(w) - 1) PROVE (t \o w)[k] = u[k]
      <3>1. CASE k < i
        <4>1. k \in 1..(Len(r) - 1) /\ k <= Len(r) - 1 /\ k <= Len(r)
          BY <1>1, <3>1
        <4>2. QED
          BY <1>1, <2>1, <2>2, <2>3, <3>1, <4>1
      <3>2. CASE ~(k < i) /\ k <= Len(r) - 1
        <4>1. k \in 1..(Len(r) - 1) /\ k + 1 <= Len(r) /\ k + 1 \in 1..(Len(r) + Len(w))
          BY <1>1, <3>2
        <4>2. QED
          BY <1>1, <2>1, <2>2, <2>3, <3>2, <4>1
      <3>3. CASE ~(k <= Len(r) - 1)
        <4>1. /\ ~(k < i) /\ ~(k + 1 <= Len(r)) /\ k + 1 \in 1..(Len(r) + Len(w))
              /\ (k + 1) - Len(r) = k - (Len(r) - 1)
          BY <1>1, <3>3
        <4>2. QED
          BY <1>1, <2>2, <2>3, <3>3, <4>1
      <3>4. QED
        BY <1>1, <3>1, <3>2, <3>3
    <2>5. t \o w = u
      BY <1>1, <2>2, <2>3, <2>4, SeqEqual
    <2>6. QED
      BY <2>5 DEF t, u
  <1>3. ASSUME NEW i \in 1..Len(w)
        PROVE  r \o RemoveAt(w, i) = RemoveAt(r \o w, Len(r) + i)
    <2> DEFINE t == RemoveAt(w, i)
               u == RemoveAt(r \o w, Len(r) + i)
    <2>1. /\ t \in Seq(S) /\ Len(t) = Len(w) - 1
          /\ \A k \in 1..(Len(w) - 1) : t[k] = IF k < i THEN w[k] ELSE w[k + 1]
      BY RemoveAtPlace
    <2>2. /\ u \in Seq(S) /\ Len(u) = Len(r) + Len(w) - 1
          /\ \A k \in 1..(Len(r) + Len(w) - 1) :
                u[k] = IF k < Len(r) + i THEN (r \o w)[k] ELSE (r \o w)[k + 1]
      <3>1. Len(r) + i \in 1..Len(r \o w)
        BY <1>1
      <3>2. /\ u \in Seq(S) /\ Len(u) = Len(r \o w) - 1
            /\ \A k \in 1..(Len(r \o w) - 1) :
                  u[k] = IF k < Len(r) + i THEN (r \o w)[k] ELSE (r \o w)[k + 1]
        BY <1>1, <3>1, RemoveAtPlace
      <3> HIDE DEF u
      <3>3. Len(r \o w) - 1 = Len(r) + Len(w) - 1
        BY <1>1
      <3>4. QED
        BY <3>2, <3>3
    <2> HIDE DEF t, u
    <2>3. /\ r \o t \in Seq(S) /\ Len(r \o t) = Len(r) + Len(w) - 1
          /\ \A k \in 1..(Len(r) + Len(w) - 1) :
                (r \o t)[k] = IF k <= Len(r) THEN r[k] ELSE t[k - Len(r)]
      <3>1. /\ r \o t \in Seq(S) /\ Len(r \o t) = Len(r) + Len(t)
            /\ \A k \in 1..(Len(r) + Len(t)) :
                  (r \o t)[k] = IF k <= Len(r) THEN r[k] ELSE t[k - Len(r)]
        BY <2>1, ConcatProperties
      <3>2. Len(r) + Len(t) = Len(r) + Len(w) - 1
        BY <1>1, <2>1
      <3>3. QED
        BY <3>1, <3>2
    <2>4. ASSUME NEW k \in 1..(Len(r) + Len(w) - 1) PROVE (r \o t)[k] = u[k]
      <3>1. CASE k <= Len(r)
        <4>1. k < Len(r) + i /\ k \in 1..(Len(r) + Len(w))
          BY <1>1, <3>1
        <4>2. QED
          BY <1>1, <2>2, <2>3, <3>1, <4>1
      <3>2. CASE ~(k <= Len(r)) /\ k < Len(r) + i
        <4>1. k - Len(r) \in 1..(Len(w) - 1) /\ k - Len(r) < i /\ k \in 1..(Len(r) + Len(w))
          BY <1>1, <3>2
        <4>2. QED
          BY <1>1, <2>1, <2>2, <2>3, <3>2, <4>1
      <3>3. CASE ~(k <= Len(r)) /\ ~(k < Len(r) + i)
        <4>1. /\ k - Len(r) \in 1..(Len(w) - 1) /\ ~(k - Len(r) < i)
              /\ ~(k + 1 <= Len(r)) /\ k + 1 \in 1..(Len(r) + Len(w))
              /\ (k + 1) - Len(r) = (k - Len(r)) + 1
          BY <1>1, <3>3
        <4>2. QED
          BY <1>1, <2>1, <2>2, <2>3, <3>3, <4>1
      <3>4. QED
        BY <3>1, <3>2, <3>3
    <2>5. r \o t = u
      BY <1>1, <2>2, <2>3, <2>4, SeqEqual
    <2>6. QED
      BY <2>5 DEF t, u
  <1>4. QED
    BY <1>2, <1>3

\* The lists of group g become the line p, its oldest jobs in the slots.
LEMMA PromoteServes ==
    ASSUME IInv, NEW g \in Groups, NEW r, NEW w, NEW st, NEW fu,
           ReadyToPromote(g, r, w, st), Promote(g, r, w, st, fu)
    PROVE  /\ \A h \in Groups : running'[h] \o waiting'[h]
                  = IF h = g THEN r \o w ELSE running[h] \o waiting[h]
           /\ running' = [running EXCEPT ![g] = Gate!Oldest(r \o w, Limit[g])]
  <1> DEFINE n  == NumPromoted(g, r, w)
             r1 == r \o SubSeq(w, 1, n)
             w1 == SubSeq(w, n + 1, Len(w))
  <1>1. r \in Seq(JobId) /\ w \in Seq(JobId) /\ Len(r) <= Limit[g]
    BY DEF ReadyToPromote
  <1>2. /\ r1 \o w1 = r \o w
        /\ r1 = SubSeq(r \o w, 1, IF Len(r \o w) < Limit[g] THEN Len(r \o w) ELSE Limit[g])
    BY <1>1, PromoteLists
  <1>3. running' = [running EXCEPT ![g] = r1] /\ waiting' = [waiting EXCEPT ![g] = w1]
    BY DEF Promote
  <1> HIDE DEF n, r1, w1
  <1>4. running \in [Groups -> Seq(JobId)] /\ waiting \in [Groups -> Seq(JobId)]
    BY DEF IInv, TypeOK
  <1>5. \A h \in Groups : running'[h] \o waiting'[h]
                               = IF h = g THEN r \o w ELSE running[h] \o waiting[h]
    BY <1>2, <1>3, <1>4
  <1>6. r1 = Gate!Oldest(r \o w, Limit[g])
    BY <1>2 DEF Gate!Oldest
  <1>7. QED
    BY <1>3, <1>5, <1>6

\* submit() is the arrival of a job at the end of the line.
LEMMA SubmitArrives ==
    ASSUME IInv, NEW g \in Groups, NEW s \in BOOLEAN, Submit(g, s)
    PROVE  Gate!Arrive(g, lastId + 1)
  <1> DEFINE j == lastId + 1
             r == running[g]
             w == waiting[g]
             w2 == Append(w, j)
             st == [status EXCEPT ![j] = "queued"]
             lines == [h \in Groups |-> running[h] \o waiting[h]]
  <1>1. /\ j \in JobId /\ status[j] = "none" /\ r \in Seq(JobId) /\ w \in Seq(JobId)
    BY BoundAssumption DEF IInv, TypeOK, Submit, JobId, FuturesAgree
  <1>2. Promote(g, r, w2, st, started)
    BY DEF Submit
  <1>3. ReadyToPromote(g, r, w2, st)
    BY SubmitReady
  <1> DEFINE p == Append(r \o w, j)
  <1>4. p = r \o w2
    <2> HIDE DEF r, w, j
    <2>1. r \o Append(w, j) = Append(r \o w, j)
      BY ONLY <1>1, AppendConcat
    <2>2. QED
      BY <2>1 DEF p, w2
  <1> HIDE DEF p, w2, st
  <1>5. /\ \A h \in Groups : running'[h] \o waiting'[h]
               = IF h = g THEN r \o w2 ELSE running[h] \o waiting[h]
        /\ running' = [running EXCEPT ![g] = Gate!Oldest(r \o w2, Limit[g])]
    BY <1>2, <1>3, PromoteServes
  <1>9. /\ [h \in Groups |-> running'[h] \o waiting'[h]] = [lines EXCEPT ![g] = p]
        /\ running' = [running EXCEPT ![g] = Gate!Oldest(p, Limit[g])]
    BY <1>4, <1>5
  <1>6. \A h \in Groups : ~Contains(Present(h), j)
    <2> SUFFICES ASSUME NEW h \in Groups, Contains(Present(h), j) PROVE FALSE
      OBVIOUS
    <2>1. running[h] \in Seq(JobId) /\ waiting[h] \in Seq(JobId)
      BY DEF IInv, TypeOK
    <2>2. Contains(running[h], j) \/ Contains(waiting[h], j)
      BY <2>1, ContainsConcat DEF Present
    <2>3. status[j] \in {"running", "queued"}
      BY <1>1, <2>2 DEF IInv, SlotsAreOwned
    <2>4. QED
      BY <1>1, <2>3
  <1>7. lines[g] = r \o w
    OBVIOUS
  <1>8. QED
    BY <1>9, <1>6, <1>7 DEF Gate!Arrive, Gate!Contains, Contains, Present, p

\* release() is a departure from the line, from a slot or from the queue.
LEMMA ReleaseLeaves ==
    ASSUME IInv, NEW j \in JobId, NEW outcome \in Released, Release(j, outcome),
           pc[j] \notin {"none", "finished"}
    PROVE  \E i \in 1..Len(Present(group[j])) : Gate!Leave(group[j], i)
  <1> DEFINE g  == group[j]
             r  == running[g]
             w  == waiting[g]
             r2 == RemoveFirst(r, j)
             w2 == RemoveFirst(w, j)
             lines == [h \in Groups |-> running[h] \o waiting[h]]
  <1>1. /\ g \in Groups /\ r \in Seq(JobId) /\ w \in Seq(JobId)
        /\ status[j] \in {"queued", "running"} /\ JobId \in SUBSET Nat
    BY BoundAssumption DEF IInv, TypeOK, SlotsAreOwned, JobId
  <1>2. Promote(g, r2, w2, [status EXCEPT ![j] = IF Contains(w, j) THEN "cancelled" ELSE outcome],
                [started EXCEPT ![j] = IF @ = "pending" THEN "cancelled" ELSE @])
    BY DEF Release
  <1>3. ReadyToPromote(g, r2, w2, [status EXCEPT ![j] = IF Contains(w, j)
                                                        THEN "cancelled" ELSE outcome])
    BY ReleaseReady
  <1>4. Increasing(r) /\ Increasing(w)
    <2>1. Increasing(r \o w)
      BY <1>1 DEF IInv, FifoOrder, Present, IsSorted, Increasing
    <2>2. QED
      BY <1>1, <2>1, ConcatIncreasing
  <1>5. /\ Contains(r, j) <=> status[j] = "running"
        /\ Contains(w, j) <=> status[j] = "queued"
    BY <1>1 DEF IInv, SlotsAreOwned
  <1>6. Len(r) \in Nat /\ Len(w) \in Nat /\ Len(r \o w) = Len(r) + Len(w)
    BY <1>1, LenProperties, ConcatProperties
  <1>7. PICK i \in 1..Len(r \o w) : r2 \o w2 = RemoveAt(r \o w, i)
    <2> HIDE DEF r, w
    <2>1. CASE status[j] = "running"
      <3>1. PICK k \in 1..Len(r) : r[k] = j
        BY <1>5, <2>1 DEF Contains
      <3>2. r2 = RemoveAt(r, k)
        BY <1>1, <1>4, <3>1, RemoveFirstPlace
      <3>3. w2 = w
        BY <1>5, <2>1 DEF RemoveFirst, Contains
      <3>4. r2 \o w2 = RemoveAt(r \o w, k)
        BY <1>1, <3>2, <3>3, RemoveFromConcat
      <3>5. k \in 1..Len(r \o w)
        BY <1>6
      <3>6. QED
        BY <3>4, <3>5
    <2>2. CASE status[j] = "queued"
      <3>1. PICK k \in 1..Len(w) : w[k] = j
        BY <1>5, <2>2 DEF Contains
      <3>2. w2 = RemoveAt(w, k)
        BY <1>1, <1>4, <3>1, RemoveFirstPlace
      <3>3. r2 = r
        BY <1>5, <2>2 DEF RemoveFirst, Contains
      <3>4. r2 \o w2 = RemoveAt(r \o w, Len(r) + k)
        BY <1>1, <3>2, <3>3, RemoveFromConcat
      <3>5. Len(r) + k \in 1..Len(r \o w)
        BY <1>6
      <3>6. QED
        BY <3>4, <3>5
    <2>3. QED
      BY <1>1, <2>1, <2>2
  <1> DEFINE p == RemoveAt(r \o w, i)
  <1>12. p = r2 \o w2
    BY <1>7
  <1> HIDE DEF r2, w2, p
  <1>13. /\ \A h \in Groups : running'[h] \o waiting'[h]
                = IF h = g THEN r2 \o w2 ELSE running[h] \o waiting[h]
         /\ running' = [running EXCEPT ![g] = Gate!Oldest(r2 \o w2, Limit[g])]
    BY <1>1, <1>2, <1>3, PromoteServes
  <1>8. /\ [h \in Groups |-> running'[h] \o waiting'[h]] = [lines EXCEPT ![g] = p]
        /\ running' = [running EXCEPT ![g] = Gate!Oldest(p, Limit[g])]
    BY <1>12, <1>13
  <1>9. lines[g] = r \o w /\ Present(g) = r \o w
    BY <1>1 DEF Present
  <1>10. Gate!Leave(g, i)
    BY <1>8, <1>9 DEF Gate!Leave, Gate!RemoveAt, RemoveAt, Present, p
  <1>11. QED
    BY <1>7, <1>9, <1>10

\* Every step of the queue is a step of the gate or leaves it alone.
LEMMA NextMapped == IInv /\ [Next]_vars => [Gate!Next]_(Gate!gateVars)
  <1> SUFFICES ASSUME IInv, [Next]_vars PROVE Gate!Next \/ UNCHANGED Gate!gateVars
    OBVIOUS
  <1>1. ASSUME QueueUnchanged PROVE UNCHANGED Gate!gateVars
    BY <1>1 DEF QueueUnchanged, Gate!gateVars, Present
  <1>2. ASSUME NEW g \in Groups, NEW s \in BOOLEAN, Submit(g, s) PROVE Gate!Next
    <2>1. Gate!Arrive(g, lastId + 1)
      BY <1>2, SubmitArrives
    <2>2. lastId + 1 \in 1..MaxJobs
      BY <1>2, BoundAssumption DEF IInv, TypeOK, Submit
    <2>3. QED
      BY <2>1, <2>2 DEF Gate!Next
  <1>3. ASSUME NEW j \in JobId, NEW outcome \in Released, Release(j, outcome),
               pc[j] \notin {"none", "finished"}
        PROVE  Gate!Next
    <2>1. PICK i \in 1..Len(Present(group[j])) : Gate!Leave(group[j], i)
      BY <1>3, ReleaseLeaves
    <2>2. group[j] \in Groups
      BY DEF IInv, TypeOK
    <2>3. QED
      BY <2>1, <2>2 DEF Gate!Next
  <1>4. ASSUME NEW j \in JobId,
               \/ Wake(j) \/ KeepAlive(j) \/ QueuedSent(j) \/ Delta(j)
               \/ DeltaSent(j) \/ StreamEnd(j) \/ Disconnect(j)
        PROVE  UNCHANGED Gate!gateVars
    BY <1>1, <1>4 DEF Wake, KeepAlive, QueuedSent, Delta, DeltaSent, StreamEnd, Disconnect
  <1>5. ASSUME NEW j \in JobId,
               \/ VendorReply(j) \/ DoneSent(j) \/ VendorError(j) \/ Cancel(j) \/ Finalize(j)
        PROVE  Gate!Next
    BY <1>3, <1>5 DEF VendorReply, DoneSent, VendorError, Cancel, Finalize, AtAwait, Released
  <1>6. CASE UNCHANGED vars
    BY <1>1, <1>6 DEF vars, QueueUnchanged
  <1>7. QED
    BY <1>2, <1>4, <1>5, <1>6 DEF Next

\* The queue with its coroutines, timeouts and disconnects implements the gate:
\* in every behaviour the slots of a group are held by its oldest present jobs.
THEOREM QueueImplementsGate == Spec => ImplementsGate
  <1>1. Init => Gate!Init
    <2>1. <<>> \o <<>> = <<>>
      OBVIOUS
    <2>2. QED
      BY <2>1 DEF Init, Gate!Init, Present
  <1>2. QED
    BY <1>1, NextMapped, Invariance, PTL DEF Spec, Gate!Spec, ImplementsGate
=============================================================================
